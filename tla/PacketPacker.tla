---------------------------- MODULE PacketPacker ----------------------------
(***************************************************************************)
(* How the packet packer of one endpoint fills 1-RTT packets: ACK, REPAIR, *)
(* DATAGRAM, retransmitted and new control frames, STREAM frames, and the  *)
(* SOURCE_SYMBOL frame that wraps what is FEC protected.                   *)
(*                                                                         *)
(* Lengths are what matters here, so they are kept, in units instead of    *)
(* bytes: a control frame is one unit, the DataLen field of a STREAM frame *)
(* is one unit, and the constants give the rest.  The space for frames in  *)
(* a packet (maxPacketSize minus header and AEAD overhead) is              *)
(* MaxFrameSize.                                                           *)
(***************************************************************************)
EXTENDS Integers, Sequences, SequencesExt

CONSTANTS
    SendStreams,            \* the send streams
    FECStreamSets,          \* which of them may be those opened with FEC
    EarlyFEC,               \* may these have data before the handshake is confirmed?
    MaxFrameSize,           \* room for frames in a packet
    MinStreamFrameSize,     \* room below which no STREAM frame is added
    MaxFECHeaderOverhead,   \* what composeNextPacket keeps free for FEC
    SourceSymbolHeader,     \* HeaderLen of a SOURCE_SYMBOL frame
    RepairOverhead,         \* REPAIR frame header and payload length field; both fit in
                            \* MaxFECHeaderOverhead
    totNumSourceSymbols, totNumRepairSymbols,   \* the block code
    maxRepairSendQueueLen,  \* capacity of the repair queue
    MaxNonAckElicitingAcks,
    AckLen,                 \* length of an ACK frame
    DatagramLens,           \* lengths of the DATAGRAM frames sent
    FECDatagrams,           \* values of FECProtected among them
    CoalescedSizes,         \* room Initial and Handshake packets may take
    WriteLens,              \* sizes of the writes on the streams
    MaxInputs               \* bound: writes, datagrams, control frames and
                            \* packets to acknowledge, together

ASSUME PackerAssumption ==
    /\ MaxFrameSize \in Nat /\ AckLen \in 1 .. (MaxFrameSize - 1) /\ MinStreamFrameSize \in Nat \ {0}
    /\ MaxFECHeaderOverhead \in Nat
    /\ SourceSymbolHeader \in 0 .. MaxFECHeaderOverhead /\ RepairOverhead \in 0 .. MaxFECHeaderOverhead
    /\ totNumSourceSymbols \in Nat \ {0} /\ totNumRepairSymbols \in Nat /\ maxRepairSendQueueLen \in Nat
ASSUME PackerInputAssumption ==
    /\ FECStreamSets \subseteq SUBSET SendStreams /\ EarlyFEC \in BOOLEAN
    /\ DatagramLens \subseteq Nat \ {0} /\ FECDatagrams \subseteq BOOLEAN /\ WriteLens \subseteq Nat \ {0}
    /\ CoalescedSizes \subseteq 1 .. MaxFrameSize
    /\ MaxNonAckElicitingAcks \in Nat /\ MaxInputs \in Nat

VARIABLES
    fecStreams,     \* the streams opened with FEC
    fecSender,      \* is there a fec.Sender?
    pending,        \* sendStream: bytes not yet in a frame
    streamQueue,    \* framer: the active streams, in order
    controlFrames,  \* framer: number of queued control frames
    appData,        \* retransmissionQueue: number of queued frames
    datagrams,      \* datagramQueue.sendQueue
    repairFrames,   \* repairQueue.sendQueue: frame lengths
    heldBack,       \* history: packets that left the REPAIR frame at the head of the queue
                    \* behind, for an ACK, since the queue was last empty
    block,          \* fec.Sender: the payload lengths of the current block
    ack,            \* what GetAckFrame has: "none", "held" back or "queued"
    nonAckEliciting,\* numNonAckElicitingAcks
    confirmed,      \* is the handshake confirmed?
    packet,         \* the packet packed last
    status,         \* "ok", or how the packer failed
    inputs          \* bound: inputs so far

packVars == <<fecStreams, fecSender, pending, streamQueue, controlFrames, appData, datagrams,
              repairFrames, heldBack, block, ack, nonAckEliciting, confirmed, packet, status,
              inputs>>

Max2(a, b) == IF a > b THEN a ELSE b
Min2(a, b) == IF a < b THEN a ELSE b
TotalLen(frames) ==
    LET upTo[n \in 0 .. Len(frames)] == IF n = 0 THEN 0 ELSE upTo[n - 1] + frames[n].len
    IN  upTo[Len(frames)]

ControlFrame == [kind |-> "control", id |-> 0, len |-> 1, dataLenPresent |-> TRUE]
DatagramFrame(d) == [kind |-> "datagram", id |-> 0, len |-> d.len, dataLenPresent |-> TRUE]
RepairFrame(n) == [kind |-> "repair", id |-> 0, len |-> n, dataLenPresent |-> TRUE]
StreamFrame(id, n) == [kind |-> "stream", id |-> id, len |-> n + 1, dataLenPresent |-> TRUE]
Copies(frame, n) == [i \in 1 .. n |-> frame]

NoPacket == [hasAck |-> FALSE, frames |-> <<>>, streamFrames |-> <<>>,
             fecFrames |-> <<>>, size |-> 0]

-----------------------------------------------------------------------------
(* framer                                                                  *)

HasData == streamQueue # <<>> \/ controlFrames > 0

(* One round of the loop in AppendStreamFrames.  The room offered includes *)
(* the DataLen field that the last frame will not have.  A stream that was *)
(* canceled after it said it had data has no frame.                        *)
popFromStream(acc, maxLen) ==
    LET id == Head(acc.queue)
        n == Min2(acc.pending[id], maxLen - acc.length)
    IN  IF acc.pending[id] = 0 THEN [acc EXCEPT !.queue = Tail(@)]
        ELSE
        [acc EXCEPT !.queue = IF acc.pending[id] > n THEN Append(Tail(@), id) ELSE Tail(@),
                    !.pending[id] = @ - n,
                    !.frames = Append(@, StreamFrame(id, n)),
                    !.length = @ + n + 1]

\* Mutant: the DataLen field is removed from the first frame.
withoutLastDataLenFirst(frames) ==
    [frames EXCEPT ![1].dataLenPresent = FALSE, ![1].len = @ - 1]

\* "For the last STREAM frame, we'll remove the DataLen field later."
withoutLastDataLen(frames) ==
    [frames EXCEPT ![Len(frames)].dataLenPresent = FALSE, ![Len(frames)].len = @ - 1]

\* AppendStreamFrames: the frames, their length, and what is left to send.
AppendStreamFrames(maxLen) ==
    LET start == [queue |-> streamQueue, pending |-> pending, frames |-> <<>>, length |-> 0]
        round[n \in 0 .. Len(streamQueue)] ==
            IF n = 0 THEN start
            ELSE LET acc == round[n - 1]
                 IN  IF MinStreamFrameSize + acc.length > maxLen THEN acc ELSE popFromStream(acc, maxLen)
        popped == round[Len(streamQueue)]
    IN  IF popped.frames = <<>> THEN popped
        ELSE [popped EXCEPT !.frames = withoutLastDataLen(@), !.length = @ - 1]

\* AppendControlFrames: how many of the queued control frames (of length 1) fit.
AppendControlFrames(maxLen) == Min2(controlFrames, maxLen)

-----------------------------------------------------------------------------
(* composeNextPacket                                                       *)

GetAckFrame(ackAllowed) ==
    ackAllowed /\ (ack = "queued" \/ (ack = "held" /\ (HasData \/ appData > 0)))

\* Mutant: no room is kept free for the SOURCE_SYMBOL header.
StreamRoomUnreserved(used, maxFrameSize) == maxFrameSize - used

StreamRoom(used, maxFrameSize) ==
    maxFrameSize - used - IF fecSender THEN MaxFECHeaderOverhead ELSE 0

\* Mutant: the repair frame that was packed stays in the queue.
afterPopKept(added) == repairFrames

\* repairQueue.Pop, when the frame that was peeked at fits.
afterPop(added) == IF added THEN Tail(repairFrames) ELSE repairFrames

datagramRoom(maxFrameSize, used) == maxFrameSize - used

\* Mutant: a datagram that does not fit is always tried again.
discardsDatagramNever(fits, hasAck, addedRepairFrame) == FALSE

\* "There's no point in retrying this in the next packet" when this one was empty.
discardsDatagram(fits, hasAck, addedRepairFrame) == ~fits /\ ~hasAck /\ ~addedRepairFrame

(* The first half of composeNextPacket: the ACK, then the repair frame at  *)
(* the head of the queue, then the datagram at the head of the queue.      *)
composeAckRepairDatagram(maxFrameSize, ackAllowed) ==
    LET hasAck == GetAckFrame(ackAllowed)
        ackLen == IF hasAck THEN AckLen ELSE 0
        hasRepair == repairFrames # <<>>
        addedRepairFrame == hasRepair /\ Head(repairFrames) <= maxFrameSize - ackLen
        used == ackLen + IF addedRepairFrame THEN Head(repairFrames) ELSE 0
        d == Head(datagrams)
        datagramFits == datagrams # <<>> /\ d.len <= datagramRoom(maxFrameSize, used)
        discarded == datagrams # <<>> /\ discardsDatagram(datagramFits, hasAck, addedRepairFrame)
        datagram(fec) == IF datagramFits /\ d.fec = fec THEN <<DatagramFrame(d)>> ELSE <<>>
    IN  [maxFrameSize |-> maxFrameSize,
         length |-> used + IF datagramFits THEN d.len ELSE 0,
         hasAck |-> hasAck,
         noSpace |-> hasRepair /\ ~addedRepairFrame /\ ~hasAck,
         heldBack |-> hasRepair /\ ~addedRepairFrame /\ hasAck,
         discarded |-> discarded,
         frames |-> (IF addedRepairFrame THEN <<RepairFrame(Head(repairFrames))>> ELSE <<>>)
                    \o datagram(FALSE),
         fecFrames |-> datagram(TRUE),
         datagrams |-> IF datagramFits \/ discarded THEN Tail(datagrams) ELSE datagrams,
         repairFrames |-> afterPop(addedRepairFrame)]

(* The second half: retransmitted control frames, new control frames and   *)
(* STREAM frames, unless only an ACK was due.                              *)
composeControl(pl) ==
    LET more == ~(pl.hasAck /\ ~HasData /\ appData = 0)
        room == pl.maxFrameSize - pl.length
        retransmitted == IF more THEN Max2(0, Min2(appData, room - MinStreamFrameSize + 1)) ELSE 0
        control == IF more THEN AppendControlFrames(room - retransmitted) ELSE 0
        used == pl.length + retransmitted + control
    IN  [retransmitted |-> retransmitted, control |-> control, length |-> used,
         streamRoom |-> IF more THEN StreamRoom(used, pl.maxFrameSize) ELSE 0]

\* The loop over the STREAM frames: those of the streams ids.
framesOf(frames, ids) ==
    LET upTo[n \in 0 .. Len(frames)] ==
            IF n = 0 THEN <<>>
            ELSE IF frames[n].id \in ids THEN Append(upTo[n - 1], frames[n]) ELSE upTo[n - 1]
    IN  upTo[Len(frames)]

\* composeNextPacket: STREAM frames of FEC streams go into the SOURCE_SYMBOL frame.
composeNextPacket(pl, ctl, str) ==
    [noSpace |-> pl.noSpace,
     heldBack |-> pl.heldBack,
     discarded |-> pl.discarded,
     length |-> ctl.length + str.length,
     hasAck |-> pl.hasAck,
     frames |-> pl.frames \o Copies(ControlFrame, ctl.retransmitted + ctl.control),
     fecFrames |-> pl.fecFrames \o framesOf(str.frames, fecStreams),
     streamFrames |-> framesOf(str.frames, SendStreams \ fecStreams),
     streamQueue |-> str.queue,
     pending |-> str.pending,
     controlFrames |-> controlFrames - ctl.control,
     appData |-> appData - ctl.retransmitted,
     datagrams |-> pl.datagrams,
     repairFrames |-> pl.repairFrames]

(* maybeGetAppDataPacket adds a PING to the last of too many ACK-only      *)
(* packets.  Its condition does not look at what the ACK travels with but  *)
(* at the four lists of frames.                                            *)
onlyAck(pl) == pl.frames = <<>> /\ pl.streamFrames = <<>> /\ pl.fecFrames = <<>>

needsPing(pl) == onlyAck(pl) /\ pl.hasAck /\ nonAckEliciting >= MaxNonAckElicitingAcks

-----------------------------------------------------------------------------
(* appendPacketPayload and appendShortHeaderPacket                         *)

\* Mutant: the repair symbol is as long as the whole block.
biggestSourceSymbolSum(payloads) ==
    LET upTo[n \in 0 .. Len(payloads)] == IF n = 0 THEN 0 ELSE upTo[n - 1] + payloads[n]
    IN  upTo[Len(payloads)]

biggestSourceSymbol(payloads) ==
    LET upTo[n \in 0 .. Len(payloads)] == IF n = 0 THEN 0 ELSE Max2(upTo[n - 1], payloads[n])
    IN  upTo[Len(payloads)]

(* The block after AddSourceSymbolFrame, and the lengths of the repair     *)
(* frames.  (The schemes refuse payloads above MaxFECPacketBufferSize,     *)
(* which is more than fits in any packet.)                                 *)
AddSourceSymbolFrame(payload) ==
    LET filled == Append(block, payload)
    IN  IF Len(filled) < totNumSourceSymbols THEN [block |-> filled, repairs |-> <<>>]
        ELSE [block |-> <<>>,
              repairs |-> Copies(biggestSourceSymbol(filled) + RepairOverhead, totNumRepairSymbols)]

\* repairQueue.Add, called for each repair frame of a block: the one without room panics.
AddPanics(queued, repairs) == Len(queued) + Len(repairs) > maxRepairSendQueueLen

\* The outcome of packing payload pl: the first failure in code order, or "ok".
PackOutcome(pl, added, size) ==
    IF pl.noSpace THEN "no space for repair frame"
    ELSE IF pl.fecFrames # <<>> /\ ~fecSender THEN "no fec.Sender"
    ELSE IF AddPanics(pl.repairFrames, added.repairs) THEN "repair queue full"
    ELSE IF size > MaxFrameSize THEN "packet too large"
    ELSE "ok"

(* One call of AppendPacket or PackCoalescedPacket; occupied is the room   *)
(* that Initial and Handshake packets in the same datagram take.           *)
PackWithin(occupied) ==
    \E front \in {composeAckRepairDatagram(MaxFrameSize - occupied, occupied = 0)} :
    \E ctl \in {composeControl(front)} :
    \E str \in {AppendStreamFrames(ctl.streamRoom)} :
    \E pl \in {composeNextPacket(front, ctl, str)} :
    \E added \in {IF pl.fecFrames = <<>> \/ ~fecSender THEN [block |-> block, repairs |-> <<>>]
                  ELSE AddSourceSymbolFrame(TotalLen(pl.fecFrames))} :
    LET ping == needsPing(pl)
        size == pl.length + (IF pl.fecFrames # <<>> THEN SourceSymbolHeader ELSE 0)
                          + (IF ping THEN 1 ELSE 0)
        outcome == PackOutcome(pl, added, size)
    IN  /\ status = "ok"
        /\ pl.length > 0 \/ pl.noSpace \/ pl.discarded \/ pl.streamQueue # streamQueue
        /\ status' = outcome
        /\ packet' = IF outcome # "ok" \/ pl.length = 0 THEN NoPacket
                     ELSE [hasAck |-> pl.hasAck,
                           frames |-> IF ping THEN Append(pl.frames, ControlFrame) ELSE pl.frames,
                           streamFrames |-> pl.streamFrames, fecFrames |-> pl.fecFrames,
                           size |-> size]
        /\ streamQueue' = pl.streamQueue
        /\ pending' = pl.pending
        /\ controlFrames' = pl.controlFrames
        /\ appData' = pl.appData
        /\ datagrams' = pl.datagrams
        /\ block' = added.block
        /\ repairFrames' = IF outcome \in {"ok", "packet too large"} THEN pl.repairFrames \o added.repairs
                           ELSE pl.repairFrames    \* an error or a panic came first
        /\ heldBack' = IF pl.repairFrames = <<>> THEN 0
                       ELSE IF pl.heldBack THEN heldBack + 1 ELSE heldBack
        /\ ack' = IF pl.hasAck THEN "none" ELSE ack
        /\ nonAckEliciting' = IF pl.length = 0 THEN nonAckEliciting
                              ELSE IF onlyAck(pl) /\ ~ping THEN nonAckEliciting + 1 ELSE 0
        /\ UNCHANGED <<fecStreams, fecSender, confirmed, inputs>>

AppendPacket == confirmed /\ PackWithin(0)

\* An Initial or Handshake packet comes first, or there is none to send.
PackCoalescedPacket == ~confirmed /\ \E occupied \in CoalescedSizes \cup {0} : PackWithin(occupied)

-----------------------------------------------------------------------------
(* What the rest of the connection puts into the packer's queues.          *)

Input == status = "ok" /\ inputs < MaxInputs /\ inputs' = inputs + 1

\* CancelWrite was called for a stream that is still in the framer's queue.
Canceled(id) == Contains(streamQueue, id) /\ pending[id] = 0

Write(id, n) ==
    /\ Input
    /\ ~Canceled(id)
    /\ pending' = [pending EXCEPT ![id] = @ + n]
    /\ streamQueue' = IF Contains(streamQueue, id) THEN streamQueue ELSE Append(streamQueue, id)
    /\ UNCHANGED <<fecStreams, fecSender, heldBack, controlFrames, appData, datagrams, repairFrames, block, ack,
                   nonAckEliciting, confirmed, packet, status>>

\* CancelWrite queues a RESET_STREAM frame.  Once the framer has dropped the stream, its
\* number stands for another one.
CancelWrite(id) ==
    /\ Input
    /\ pending[id] > 0
    /\ pending' = [pending EXCEPT ![id] = 0]
    /\ controlFrames' = controlFrames + 1
    /\ UNCHANGED <<fecStreams, fecSender, heldBack, streamQueue, appData, datagrams, repairFrames, block, ack,
                   nonAckEliciting, confirmed, packet, status>>

SendDatagram(n, fec) ==
    /\ Input
    /\ fec => fecSender
    /\ datagrams' = Append(datagrams, [len |-> n, fec |-> fec])
    /\ UNCHANGED <<fecStreams, fecSender, heldBack, pending, streamQueue, controlFrames, appData, repairFrames, block, ack,
                   nonAckEliciting, confirmed, packet, status>>

QueueControlFrame ==
    /\ Input
    /\ controlFrames' = controlFrames + 1
    /\ UNCHANGED <<fecStreams, fecSender, heldBack, pending, streamQueue, appData, datagrams, repairFrames, block, ack,
                   nonAckEliciting, confirmed, packet, status>>

\* A packet with a control frame was declared lost.
OnControlLost ==
    /\ Input
    /\ appData' = appData + 1
    /\ UNCHANGED <<fecStreams, fecSender, heldBack, pending, streamQueue, controlFrames, datagrams, repairFrames, block, ack,
                   nonAckEliciting, confirmed, packet, status>>

\* A packet arrived that is to be acknowledged, now or with the next data.
ReceivePacket(urgency) ==
    /\ Input
    /\ ack # "queued"
    /\ ack' = urgency
    /\ UNCHANGED <<fecStreams, fecSender, heldBack, pending, streamQueue, controlFrames, appData, datagrams, repairFrames, block,
                   nonAckEliciting, confirmed, packet, status>>

ConfirmHandshake ==
    /\ ~confirmed
    /\ confirmed' = TRUE
    /\ UNCHANGED <<fecStreams, fecSender, heldBack, pending, streamQueue, controlFrames, appData, datagrams, repairFrames, block,
                   ack, nonAckEliciting, packet, status, inputs>>

PackInit ==
    /\ fecStreams \in FECStreamSets
    /\ fecSender \in BOOLEAN    \* OpenStreamSyncWithFEC does not ask
    /\ pending = [id \in SendStreams |-> 0]
    /\ streamQueue = <<>>
    /\ controlFrames = 0
    /\ appData = 0
    /\ datagrams = <<>>
    /\ repairFrames = <<>>
    /\ heldBack = 0
    /\ block = <<>>
    /\ ack = "none"
    /\ nonAckEliciting = 0
    /\ confirmed = (CoalescedSizes = {} \/ (fecStreams # {} /\ ~EarlyFEC))
    /\ packet = NoPacket
    /\ status = "ok"
    /\ inputs = 0

PackNext ==
    \/ AppendPacket
    \/ PackCoalescedPacket
    \/ \E id \in SendStreams, n \in WriteLens : Write(id, n)
    \/ \E id \in SendStreams : CancelWrite(id)
    \/ \E n \in DatagramLens, fec \in FECDatagrams : SendDatagram(n, fec)
    \/ QueueControlFrame
    \/ OnControlLost
    \/ \E urgency \in {"held", "queued"} : ReceivePacket(urgency)
    \/ ConfirmHandshake

PackSpec == PackInit /\ [][PackNext]_packVars

\* The send loop runs as long as a packet can be packed.
PackFairSpec == PackSpec /\ WF_packVars(AppendPacket) /\ WF_packVars(PackCoalescedPacket)

-----------------------------------------------------------------------------
Frame == [kind : {"control", "datagram", "repair", "stream"}, id : SendStreams \cup {0},
          len : Nat, dataLenPresent : BOOLEAN]

\* The type of the packer's state.
PackTypeOK ==
    /\ fecStreams \subseteq SendStreams /\ fecSender \in BOOLEAN /\ heldBack \in Nat
    /\ pending \in [SendStreams -> Nat]
    /\ streamQueue \in Seq(SendStreams)
    /\ controlFrames \in Nat /\ appData \in Nat /\ inputs \in 0 .. MaxInputs
    /\ nonAckEliciting \in 0 .. MaxNonAckElicitingAcks
    /\ datagrams \in Seq([len : DatagramLens, fec : FECDatagrams])
    /\ repairFrames \in Seq(Nat) /\ Len(repairFrames) <= maxRepairSendQueueLen
    /\ block \in Seq(Nat) /\ Len(block) < totNumSourceSymbols
    /\ ack \in {"none", "held", "queued"}
    /\ confirmed \in BOOLEAN
    /\ packet \in [hasAck : BOOLEAN, frames : Seq(Frame), streamFrames : Seq(Frame),
                   fecFrames : Seq(Frame), size : Nat]
    /\ status \in {"ok", "no space for repair frame", "no fec.Sender", "repair queue full",
                  "packet too large"}

\* framer.AppendStreamFrames removes the DataLen field of the last STREAM frame,
\* so the receiver reads that frame to the end of the packet, or of the source
\* symbol's payload: nothing may follow it there.
NothingFollowsUndelimitedFrame ==
    /\ \A i \in DOMAIN packet.streamFrames :
           ~packet.streamFrames[i].dataLenPresent =>
               i = Len(packet.streamFrames) /\ packet.fecFrames = <<>>
    /\ \A i \in DOMAIN packet.fecFrames :
           ~packet.fecFrames[i].dataLenPresent => i = Len(packet.fecFrames)

\* appendShortHeaderPacket: the frames chosen by composeNextPacket fit, with the
\* SOURCE_SYMBOL header that is only added afterwards.
\* And in composeNextPacket a repair frame always fits: "this means the repair frame can't
\* fit, which is a serious problem and shouldn't be possible".
PacketFits == status \notin {"packet too large", "no space for repair frame"}

\* repairQueue.Add: "Once that limit is reached, Add blocks until the queue size
\* has reduced", so adding the repair frames of a block never ends the connection.
RepairQueueHasRoom == status # "repair queue full"

\* repair_queue.go and composeNextPacket: REPAIR frames pile up only behind ACKs.  The queue
\* holds no more than those of one block and one for each packet whose ACK left no room for
\* the frame at its head, and Add finds no room only after that many such packets.
RepairsLagBehindACKs ==
    /\ Len(repairFrames) <= totNumRepairSymbols + heldBack
    /\ status = "repair queue full" => totNumRepairSymbols + heldBack > maxRepairSendQueueLen

\* Nothing that is queued for a packet waits for ever, whatever else is queued: neither the
\* data of a stream (framer) nor repair, datagram, control and retransmitted frames starve.
\* Only a panic ends it: of a full repair queue, or of an FEC stream without a fec.Sender.
NothingIsQueued ==
    /\ \A id \in SendStreams : pending[id] = 0
    /\ repairFrames = <<>> /\ datagrams = <<>> /\ controlFrames + appData = 0

EverythingIsPacked == []<>(NothingIsQueued \/ status \in {"no fec.Sender", "repair queue full"})
=============================================================================
