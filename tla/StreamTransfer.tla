--------------------------- MODULE StreamTransfer ---------------------------
(***************************************************************************)
(* One stream from the writer to the reader over a lossy, reordering path: *)
(* the send stream's retransmission queue, the packer, the sent packet     *)
(* handler of the 1-RTT packet number space (loss detection, probe         *)
(* timeouts, congestion window) and the receiver.  The stream is either    *)
(* FEC protected or not; what differs is which frames of a packet the      *)
(* packer reports to the sent packet handler.                              *)
(*                                                                         *)
(* The application has written NumChunks chunks, each the size of a        *)
(* packet, and closed the stream; the last chunk carries the FIN.          *)
(***************************************************************************)
EXTENDS Integers, Sequences, FiniteSets

CONSTANTS
    FECProtected,      \* is the stream FEC protected?
    NumChunks,         \* bound: chunks written to the stream
    NumSource,         \* source symbols per block
    NumRepair,         \* repair symbols per block
    packetThreshold,   \* reordering threshold of loss detection
    CongestionWindow,  \* in packets
    MaxLosses,         \* bound: packets the path loses
    MaxSpurious        \* bound: timeouts that fire although nothing was lost

ASSUME StreamAssumption == FECProtected \in BOOLEAN /\ NumChunks \in Nat \ {0}
ASSUME CodeAssumption == NumSource \in Nat \ {0} /\ NumRepair \in Nat
ASSUME RecoveryAssumption == packetThreshold \in Nat \ {0} /\ CongestionWindow \in Nat \ {0}
ASSUME BoundsAssumption == MaxLosses \in Nat /\ MaxSpurious \in Nat

Chunks == 1 .. NumChunks
None == 0

VARIABLES
    nextChunk,       \* stream: the first chunk never sent
    retransmissions, \* stream: retransmissionQueue
    numOutstanding,  \* stream: numOutstandingFrames
    pings,           \* retransmissionQueue.appData: PING frames to send
    repairQueue,     \* REPAIR frames to send, as block numbers
    symbols,         \* FEC sender: the chunk of every source symbol given out
    packets,         \* every packet sent, by packet number
    outstanding,     \* sent packet history: packet numbers tracked
    largestAcked,
    numProbesToSend,
    lossTimer,       \* is the alarm in loss timer mode (lossTime set)?
    lost, received,  \* path: what became of the packets
    spurious,        \* counter for MaxSpurious
    heldSources, heldRepairs, isProcessed,  \* FEC receiver, per block
    delivered        \* receiver: chunks handed to the receive stream

streamVars == <<nextChunk, retransmissions, numOutstanding>>
packerVars == <<pings, repairQueue, symbols, packets>>
handlerVars == <<outstanding, largestAcked, numProbesToSend, lossTimer>>
pathVars == <<lost, received, spurious>>
rcvVars == <<heldSources, heldRepairs, isProcessed, delivered>>
vars == <<streamVars, packerVars, handlerVars, pathVars, rcvVars>>

Blocks == 1 .. ((NumChunks + NumSource - 1) \div NumSource)
blockOf(symbol) == ((symbol - 1) \div NumSource) + 1

Packet == [chunk : Chunks \cup {None}, symbol : Nat, repair : Blocks \cup {None},
           ping : BOOLEAN, skipped : BOOLEAN]
skippedPacket == [chunk |-> None, symbol |-> None, repair |-> None, ping |-> FALSE, skipped |-> TRUE]

-----------------------------------------------------------------------------
(* What the sent packet handler is told about a packet.                    *)

\* SentPacket: isAckEliciting from the frames in pl.streamFrames and pl.frames,
\* which a SOURCE_SYMBOL frame is not among.
isAckEliciting(p) == p.ping \/ p.repair # None \/ (p.chunk # None /\ ~FECProtected)

\* IsFrameAckEliciting, as the receiver evaluates it: everything but an ACK.
elicitsAck(p) == ~p.skipped

-----------------------------------------------------------------------------
(* Sending.  st collects what the frame handlers' OnLost changes.          *)

StreamState == [rtx |-> retransmissions, out |-> numOutstanding, pings |-> pings]

\* The packets with a STREAM frame that the sent packet handler knows: p.StreamFrames
\* holds no protected frame.
withStreamFrame(pns) == {pn \in pns : packets[pn].chunk # None /\ ~FECProtected}

\* The packets of a set, in the order they were sent.
inOrder(pns) ==
    {q \in [1 .. Cardinality(pns) -> pns] : \A i, j \in DOMAIN q : i < j => q[i] < q[j]}

\* Mutant: OnLost does not queue the frame.
OnLostForgets(st, pns) == {[st EXCEPT !.out = @ - Cardinality(withStreamFrame(pns))]}

\* queueFramesForRetransmission for one packet after the other: OnLost of every frame
\* that was registered.  A REPAIR frame has no handler.
OnLost(st, pns) ==
    {[rtx   |-> st.rtx \o [i \in DOMAIN q |-> packets[q[i]].chunk],
      out   |-> st.out - Cardinality(withStreamFrame(pns)),
      pings |-> st.pings + Cardinality({pn \in pns : packets[pn].ping})] :
        q \in inOrder(withStreamFrame(pns))}

hasContent(st) ==
    repairQueue # <<>> \/ st.pings > 0 \/ st.rtx # <<>> \/ nextChunk <= NumChunks

(* One packet, given the stream after OnLost: a REPAIR frame if there is   *)
(* one, then a PING, then a STREAM frame if room is left (hasRoom is free  *)
(* beside a REPAIR frame, which may be as long as a packet).               *)
Pack(st, left, hasRoom) ==
    LET repair == IF repairQueue = <<>> THEN None ELSE Head(repairQueue)
        chunk == IF ~hasRoom THEN None
                 ELSE IF st.rtx # <<>> THEN Head(st.rtx)
                 ELSE IF nextChunk <= NumChunks THEN nextChunk ELSE None
        p == [chunk |-> chunk, repair |-> repair, ping |-> st.pings > 0, skipped |-> FALSE,
              symbol |-> IF chunk # None /\ FECProtected THEN Len(symbols) + 1 ELSE None]
    IN  /\ repair = None => hasRoom
        /\ packets' = Append(packets, p)
        /\ nextChunk' = IF chunk = nextChunk THEN nextChunk + 1 ELSE nextChunk
        /\ retransmissions' = IF chunk \notin {None, nextChunk} THEN Tail(st.rtx) ELSE st.rtx
        /\ numOutstanding' = IF chunk # None THEN st.out + 1 ELSE st.out
        /\ pings' = IF p.ping THEN st.pings - 1 ELSE st.pings
        /\ symbols' = IF p.symbol # None THEN Append(symbols, chunk) ELSE symbols
        /\ repairQueue' = (IF repair = None THEN <<>> ELSE Tail(repairQueue))
                          \o (IF p.symbol # None /\ p.symbol % NumSource = 0
                              THEN [i \in 1 .. NumRepair |-> blockOf(p.symbol)] ELSE <<>>)
        /\ outstanding' = left \cup IF isAckEliciting(p) THEN {Len(packets) + 1} ELSE {}
        /\ numProbesToSend' = IF isAckEliciting(p) /\ numProbesToSend > 0
                              THEN numProbesToSend - 1 ELSE numProbesToSend

\* SendMode: SendAny while bytesInFlight leaves room in the congestion window.
CanSend == Cardinality(outstanding) < CongestionWindow

SendPacket(hasRoom) ==
    /\ numProbesToSend = 0
    /\ CanSend
    /\ hasContent(StreamState)
    /\ Pack(StreamState, outstanding, hasRoom)
    /\ UNCHANGED <<largestAcked, lossTimer, pathVars, rcvVars>>

\* sendProbePacket: QueueProbePacket for the first outstanding packets, until
\* there is something to pack; a PING if there is still nothing.
probePrefixes ==
    {Q \in {{pn \in outstanding : pn <= q} : q \in outstanding} :
        \E st \in OnLost(StreamState, Q) : hasContent(st)}

SendProbe(hasRoom) ==
    /\ numProbesToSend > 0
    /\ \E enough \in {probePrefixes} :
       \E queued \in IF enough = {} THEN {outstanding}
                     ELSE {Q \in enough : \A R \in enough : Q \subseteq R} :
       \E st \in OnLost(StreamState, queued) :
           Pack(IF enough = {} THEN [st EXCEPT !.pings = @ + 1] ELSE st,
                outstanding \ queued, hasRoom)
    /\ UNCHANGED <<largestAcked, lossTimer, pathVars, rcvVars>>

-----------------------------------------------------------------------------
(* Loss detection.                                                         *)

InTransit == {pn \in DOMAIN packets : ~packets[pn].skipped} \ (lost \cup received)

\* Declaring packets lost that may still arrive uses up the spurious budget.
CountSpurious(pns) ==
    /\ spurious' = IF pns \subseteq lost THEN spurious ELSE spurious + 1
    /\ spurious' <= MaxSpurious

\* detectLostPackets with the packets past the reordering threshold, or with
\* all packets before the largest acked if the time threshold has passed too.
DetectLost(st, rest, largest, timeout) ==
    \E lostNow \in {{pn \in rest : pn <= largest /\ (timeout \/ largest >= pn + packetThreshold)}} :
    \E after \in OnLost(st, lostNow) :
        /\ CountSpurious(lostNow)
        /\ outstanding' = rest \ lostNow
        /\ lossTimer' = (\E pn \in rest \ lostNow : pn <= largest)
        /\ retransmissions' = after.rtx
        /\ numOutstanding' = after.out
        /\ pings' = after.pings

\* Mutant: the frames of an acked packet are not reported to the stream.
OnAckedSilent(st, pns) == st

\* OnAcked of the stream frames of the newly acked packets.
OnAcked(st, pns) == [st EXCEPT !.out = @ - Cardinality(withStreamFrame(pns))]

(* An ACK of everything received so far; losing it is not taking the step. *)
(* An ACK that acknowledges no tracked packet changes nothing.             *)
ReceivedAck ==
    LET newlyAcked == outstanding \cap received
    IN  /\ newlyAcked # {}
        /\ largestAcked' \in {largestAcked} \cup received
        /\ \A pn \in {largestAcked} \cup received : pn <= largestAcked'
        /\ numProbesToSend' = 0
        /\ DetectLost(OnAcked(StreamState, newlyAcked), outstanding \ newlyAcked, largestAcked', FALSE)
        /\ UNCHANGED <<nextChunk, repairQueue, symbols, packets, lost, received, rcvVars>>

\* OnLossDetectionTimeout in loss timer mode.
LossTimeout ==
    /\ lossTimer
    /\ DetectLost(StreamState, outstanding, largestAcked, TRUE)
    /\ UNCHANGED <<nextChunk, repairQueue, symbols, packets, largestAcked, numProbesToSend,
                   lost, received, rcvVars>>

\* Mutant: the alarm is set only once there is an RTT sample.
ptoArmedAfterAck == ~lossTimer /\ outstanding # {} /\ largestAcked > 0

\* setLossDetectionTimer: a PTO alarm while packets are outstanding.
ptoArmed == ~lossTimer /\ outstanding # {}

\* OnLossDetectionTimeout in PTO mode: skip a packet number, send two probes.
\* It is spurious while a packet, its ACK or a probe is still on the way.
PTO ==
    /\ ptoArmed
    /\ spurious' = IF InTransit = {} /\ outstanding \cap received = {} /\ numProbesToSend = 0
                   THEN spurious ELSE spurious + 1
    /\ spurious' <= MaxSpurious
    /\ packets' = Append(packets, skippedPacket)
    /\ numProbesToSend' = numProbesToSend + 2
    /\ UNCHANGED <<streamVars, pings, repairQueue, symbols, outstanding, largestAcked, lossTimer,
                   lost, received, rcvVars>>

-----------------------------------------------------------------------------
(* Path and receiver.                                                      *)

Lose(pn) ==
    /\ pn \in InTransit
    /\ Cardinality(lost) < MaxLosses
    /\ lost' = lost \cup {pn}
    /\ UNCHANGED <<streamVars, packerVars, handlerVars, received, spurious, rcvVars>>

symbolsOf(b) == {s \in DOMAIN symbols : blockOf(s) = b}
chunksOf(syms) == {symbols[s] : s \in syms}

(* The FEC receiver as in FECManager: a REPAIR frame may recover a block,  *)
(* a SOURCE_SYMBOL frame is ignored if its block is processed.             *)
handleRepair(p) ==
    LET pending == p.repair # None /\ p.repair \notin isProcessed
        reps == IF pending THEN [heldRepairs EXCEPT ![p.repair] = @ + 1] ELSE heldRepairs
    IN  [reps |-> reps,
         recovered |-> IF pending /\ Cardinality(heldSources \cap symbolsOf(p.repair))
                                       + reps[p.repair] >= NumSource
                       THEN {p.repair} ELSE {}]

Deliver(pn) ==
    /\ pn \in InTransit
    /\ received' = received \cup {pn}
    /\ \E p \in {packets[pn]} : \E r \in {handleRepair(p)} :
       \E takes \in {p.symbol # None /\ blockOf(p.symbol) \notin isProcessed \cup r.recovered} :
         /\ heldRepairs' = r.reps
         /\ heldSources' = IF takes THEN heldSources \cup {p.symbol} ELSE heldSources
         /\ isProcessed' = isProcessed \cup r.recovered \cup
              {b \in Blocks : takes /\ Cardinality(heldSources' \cap symbolsOf(b)) = NumSource}
         /\ delivered' = delivered \cup chunksOf(UNION {symbolsOf(b) : b \in r.recovered})
              \cup (IF p.chunk # None /\ (takes \/ ~FECProtected) THEN {p.chunk} ELSE {})
    /\ UNCHANGED <<streamVars, packerVars, handlerVars, lost, spurious>>

-----------------------------------------------------------------------------
Init ==
    /\ nextChunk = 1 /\ retransmissions = <<>> /\ numOutstanding = 0
    /\ pings = 0 /\ repairQueue = <<>> /\ symbols = <<>> /\ packets = <<>>
    /\ outstanding = {} /\ largestAcked = 0 /\ numProbesToSend = 0 /\ lossTimer = FALSE
    /\ lost = {} /\ received = {} /\ spurious = 0
    /\ heldSources = {} /\ heldRepairs = [b \in Blocks |-> 0]
    /\ isProcessed = {} /\ delivered = {}

Arrives == \E pn \in DOMAIN packets : Deliver(pn)

Next ==
    \/ \E hasRoom \in BOOLEAN : SendPacket(hasRoom)
    \/ \E hasRoom \in BOOLEAN : SendProbe(hasRoom)
    \/ ReceivedAck
    \/ LossTimeout
    \/ PTO
    \/ \E pn \in DOMAIN packets : Lose(pn)
    \/ Arrives

Spec == Init /\ [][Next]_vars

(* The run loop sends whenever there is something to send, the alarm fires *)
(* once it is set, and a packet or ACK that is not lost arrives.           *)
Fairness ==
    /\ WF_vars(\E hasRoom \in BOOLEAN : SendPacket(hasRoom))
    /\ WF_vars(\E hasRoom \in BOOLEAN : SendProbe(hasRoom))
    /\ WF_vars(ReceivedAck)
    /\ WF_vars(LossTimeout)
    /\ WF_vars(PTO)
    /\ WF_vars(Arrives)

FairSpec == Spec /\ Fairness

-----------------------------------------------------------------------------
\* isNewlyCompleted: FIN sent, nothing outstanding, nothing to retransmit.
completed == nextChunk > NumChunks /\ numOutstanding = 0 /\ retransmissions = <<>>

\* The type of every variable.
TypeOK ==
    /\ nextChunk \in 1 .. (NumChunks + 1)
    /\ retransmissions \in Seq(Chunks)
    /\ numOutstanding \in Nat /\ pings \in Nat
    /\ repairQueue \in Seq(Blocks) /\ symbols \in Seq(Chunks)
    /\ packets \in Seq(Packet)
    /\ outstanding \subseteq DOMAIN packets
    /\ largestAcked \in 0 .. Len(packets)
    /\ numProbesToSend \in Nat
    /\ lossTimer \in BOOLEAN
    /\ received \cup lost \subseteq DOMAIN packets
    /\ delivered \subseteq Chunks

\* send_stream.go: every chunk that was sent and has not arrived is still in the
\* retransmission queue or in a packet whose loss will be noticed.
NoChunkForgotten ==
    \A c \in 1 .. (nextChunk - 1) :
        \/ c \in delivered
        \/ \E i \in DOMAIN retransmissions : retransmissions[i] = c
        \/ \E pn \in outstanding : packets[pn].chunk = c

\* numOutstandingFrames is the number of frames of the stream whose OnAcked or
\* OnLost is still to come, the count isNewlyCompleted relies on.
OutstandingFramesCounted ==
    numOutstanding = Cardinality({pn \in outstanding : packets[pn].chunk # None})

\* send_stream.go: no chunk that was sent is forgotten, and numOutstandingFrames is the
\* number of its frames that are neither acknowledged nor lost.
TransferIsTracked == NoChunkForgotten /\ OutstandingFramesCounted

\* SendMode, "Only send ACKs if we're congestion limited": apart from probes, a
\* packet is sent only while fewer packets that elicit an ACK than the window
\* allows are in flight, that is neither arrived nor declared lost.
InFlight == outstanding \cup {pn \in InTransit : elicitsAck(packets[pn]) /\ ~isAckEliciting(packets[pn])}
CongestionWindowRespected ==
    [][ (\E hasRoom \in BOOLEAN : SendPacket(hasRoom)) => Cardinality(InFlight) < CongestionWindow ]_vars

\* All that was written arrives, however packets are lost or reordered, as long
\* as the path does not lose packets forever.
StreamDataArrives == <>(Chunks \subseteq delivered)

\* The stream completes, with all that was written delivered: every frame is acknowledged
\* after the FIN was sent.
StreamCompletes == <>(completed /\ Chunks \subseteq delivered)
=============================================================================
