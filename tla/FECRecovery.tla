---------------------------- MODULE FECRecovery ----------------------------
(***************************************************************************)
(* What the frame handlers of the receiver see of one FEC block: the       *)
(* payloads of SOURCE_SYMBOL frames as they are put together by the        *)
(* packer, and the bytes that a SOURCE_SYMBOL or a REPAIR frame hands to   *)
(* the frame parser, either one payload or all the recovered ones in a row. *)
(*                                                                         *)
(* A serialised payload is a sequence of tokens, a header or one unit of   *)
(* data.  A unit of stream data carries its own stream position, so that a *)
(* unit handed up at another position is recognised.  Scheme "xor" recovers *)
(* by the operators of XorScheme; the arithmetic of "rs" is a library's,   *)
(* taken to be maximum distance separable.                                 *)
(***************************************************************************)
EXTENDS Integers, Sequences, FiniteSets, SequencesExt

CONSTANTS
    Scheme,        \* "xor" or "rs"
    NumSource,     \* source symbols of the block
    NumRepair,     \* repair symbols of the block
    MaxFrameData,  \* bound: units of data in a STREAM frame
    MaxPacketBufferSize  \* units of data a pooled StreamFrame has room for

ASSUME CodeAssumption ==
    NumSource \in Nat \ {0} /\ NumRepair \in Nat /\ (Scheme = "xor" => NumRepair = 1)
ASSUME SizeAssumption == MaxFrameData \in Nat \ {0} /\ MaxPacketBufferSize >= MaxFrameData

SSIDs == 0 .. (NumSource - 1)
Parities == 0 .. (NumRepair - 1)
NoLen == -1

XOR == INSTANCE XorScheme

VARIABLES
    payload,     \* sender: the payload of every SOURCE_SYMBOL frame sent so far
    writeOffset, \* sender: stream data framed so far
    have,        \* receiver: ssidToSourcePayload, as a set of SSIDs
    repairs,     \* receiver: pidToRepairPayload, as a set of ParityIDs
    biggest,     \* receiver: biggestSourceSymbolLenSoFar
    isProcessed, \* receiver: the block was dropped
    handedUp,    \* receiver: <<position, unit>> pairs passed to the stream
    datagrams,   \* receiver: how many DATAGRAM frames were handled
    closed       \* receiver: the frame parser returned an error

vars == <<payload, writeOffset, have, repairs, biggest, isProcessed, handedUp, datagrams, closed>>

-----------------------------------------------------------------------------
(* Sender.                                                                 *)

Header(typ, off, dataLen) == [kind |-> typ, off |-> off, len |-> dataLen]
Unit(pos) == [kind |-> "unit", off |-> pos, len |-> NoLen]

datagramFrame == <<Header("datagram", 0, 0)>>

\* StreamFrame.Append: the length is written only if DataLenPresent.
streamFrame(off, n, DataLenPresent) ==
    <<Header("stream", off, IF DataLenPresent THEN n ELSE NoLen)>>
    \o [i \in 1 .. n |-> Unit(off + i - 1)]

\* AppendStreamFrames removes the DataLen of the last frame.
streamFrames(off, lens) ==
    CASE Len(lens) = 0 -> <<>>
      [] Len(lens) = 1 -> streamFrame(off, lens[1], FALSE)
      [] Len(lens) = 2 -> streamFrame(off, lens[1], TRUE)
                          \o streamFrame(off + lens[1], lens[2], FALSE)

FrameLens == UNION {[1 .. n -> 1 .. MaxFrameData] : n \in 0 .. 2}

(* One packet with a SOURCE_SYMBOL frame: fecFrames (a DATAGRAM frame, or  *)
(* none) first, then up to two STREAM frames.                              *)
PackSourceSymbol(hasDatagram, lens) ==
    /\ Len(payload) < NumSource
    /\ hasDatagram \/ lens # <<>>
    /\ payload' = Append(payload, (IF hasDatagram THEN datagramFrame ELSE <<>>)
                                  \o streamFrames(writeOffset, lens))
    /\ writeOffset' = writeOffset + FoldSeq(+, 0, lens)
    /\ UNCHANGED <<have, repairs, biggest, isProcessed, handedUp, datagrams, closed>>

-----------------------------------------------------------------------------
(* Receiver.                                                               *)

\* parseStreamFrame and parseDatagramFrame: what one ParseNext consumes.  A
\* frame without a length takes the rest, if the buffer has room for it.
consumed(data) ==
    IF data[1].len = NoLen THEN Len(data) ELSE 1 + data[1].len

parseFails(data) ==
    data[1].kind = "stream" /\ consumed(data) - 1 > MaxPacketBufferSize

\* The frames of the bytes handed over by the FEC receiver, in order.  data
\* never grows, so its length bounds the number of frames.
parsed(data) ==
    LET rest[n \in 0 .. Len(data)] ==
            IF n = 0 THEN [left |-> data, frames |-> <<>>, err |-> FALSE]
            ELSE LET r == rest[n - 1]
                 IN  IF r.left = <<>> \/ r.err THEN r
                     ELSE IF parseFails(r.left) THEN [r EXCEPT !.err = TRUE]
                     ELSE [left |-> SubSeq(r.left, consumed(r.left) + 1, Len(r.left)),
                           frames |-> Append(r.frames, SubSeq(r.left, 1, consumed(r.left))),
                           err |-> FALSE]
    IN  rest[Len(data)]

\* handleStreamFrame: position and content of each unit, a swallowed header
\* being content like any other.
unitsOf(frame) ==
    IF frame[1].kind # "stream" THEN {}
    ELSE {<<frame[1].off + i - 2, frame[i]>> : i \in 2 .. Len(frame)}

handleBlockData(data) ==
    LET p == parsed(data)
        count == Len(SelectSeq(p.frames, LAMBDA f : f[1].kind = "datagram"))
    IN  /\ handedUp' = handedUp \cup UNION {unitsOf(p.frames[i]) : i \in DOMAIN p.frames}
        /\ datagrams' = datagrams + count
        /\ closed' = p.err

\* Mutant: a block is taken to be complete one symbol early.
isCompleteEarly(sources) == Cardinality(sources) + 1 >= NumSource

isComplete(sources) == Cardinality(sources) = NumSource
isRecoverable(sources, pids) == Cardinality(sources) + Cardinality(pids) >= NumSource

\* biggestSourceSymbolLenSoFar of the sender, whose block is complete.
biggestSourceSymbolLen == Max({Len(payload[i]) : i \in DOMAIN payload} \cup {0})

\* reedSolomonScheme.recoverSymbolPayloads: the missing payloads, appended in
\* SSID order.
missingPayloads(sources) ==
    FlattenSeq([i \in 1 .. NumSource |-> IF (i - 1) \in sources THEN <<>> ELSE payload[i]])

\* scheme.recoverSymbolPayloads, which returns nothing for a complete block.
recoverSymbolPayloads(sources, big) ==
    CASE isComplete(sources) -> <<>>
      [] ~isComplete(sources) /\ Scheme = "xor" ->
            XOR!recoverSymbolPayloads(payload, {s + 1 : s \in sources},
                                      XOR!repairSymbols(payload, biggestSourceSymbolLen), big)
      [] OTHER -> missingPayloads(sources)

\* addSourceSymbol: a longer payload moves the position of the length bytes.
biggestAfterSource(sid) == Max({biggest, Len(payload[sid + 1])})

\* Mutant: a repair symbol does not tell the length of the longest payload.
biggestAfterRepairKept(repairLen) == biggest

\* addRepairSymbol: a repair symbol settles it.
biggestAfterRepair(repairLen) == repairLen - XOR!RepairPayloadMetadataLen

HandleSourceSymbolFrame(sid) ==
    /\ ~closed
    /\ sid < Len(payload)
    /\ sid \notin have
    /\ ~isProcessed
    /\ have' = have \cup {sid}
    /\ biggest' = biggestAfterSource(sid)
    /\ isProcessed' = isComplete(have')
    /\ handleBlockData(payload[sid + 1])
    /\ UNCHANGED <<payload, writeOffset, repairs>>

HandleRepairFrame(pid) ==
    /\ ~closed
    /\ Len(payload) = NumSource
    /\ pid \notin repairs
    /\ ~isProcessed
    /\ repairs' = repairs \cup {pid}
    /\ biggest' = biggestAfterRepair(biggestSourceSymbolLen + XOR!RepairPayloadMetadataLen)
    /\ isProcessed' = isRecoverable(have, repairs')
    /\ handleBlockData(IF isProcessed' THEN recoverSymbolPayloads(have, biggest') ELSE <<>>)
    /\ UNCHANGED <<payload, writeOffset, have>>

-----------------------------------------------------------------------------
Init ==
    /\ payload = <<>>
    /\ writeOffset = 0
    /\ have = {}
    /\ repairs = {}
    /\ biggest = 0
    /\ isProcessed = FALSE
    /\ handedUp = {}
    /\ datagrams = 0
    /\ closed = FALSE

Next ==
    \/ \E hasDatagram \in BOOLEAN, lens \in FrameLens : PackSourceSymbol(hasDatagram, lens)
    \/ \E sid \in SSIDs : HandleSourceSymbolFrame(sid)
    \/ \E pid \in Parities : HandleRepairFrame(pid)

Spec == Init /\ [][Next]_vars

-----------------------------------------------------------------------------
\* reed_solomon.go, "reconstructs the missing source symbols": what reaches the
\* stream, directly or by recovery, is what was written at that position.
HandedUpIsWritten ==
    \A e \in handedUp : e[2] = Unit(e[1])

\* The receiver's idea of where the length bytes of the repair symbol are agrees
\* with the sender's as soon as a repair symbol is there, whatever arrived before
\* or after it.
LengthBytesAgree ==
    repairs # {} => biggest = biggestSourceSymbolLen

\* A block is dropped only when every unit of stream data and every datagram of
\* its payloads has been handed up, and the frame parser accepted all of them.
ProcessedBlockHandedUp ==
    isProcessed =>
        /\ ~closed
        /\ {e[1] : e \in handedUp} = 0 .. (writeOffset - 1)
        /\ datagrams = Cardinality({s \in DOMAIN payload : payload[s][1].kind = "datagram"})
=============================================================================
