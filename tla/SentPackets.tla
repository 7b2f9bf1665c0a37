---------------------------- MODULE SentPackets ----------------------------
(***************************************************************************)
(* The sent packet handler of one endpoint over the life of a connection   *)
(* (internal/ackhandler/sent_packet_handler.go): its three packet number   *)
(* spaces, each with a sentPacketHistory and a packet number generator,    *)
(* the bytes in flight, the loss detection alarm, probes, the              *)
(* amplification limit, dropped levels, Retry and 0-RTT rejection; and the *)
(* retransmission queue lost frames go to (retransmission_queue.go).       *)
(*                                                                         *)
(* Every ack-eliciting packet carries one frame.  Send times are abstract: *)
(* which packets the time threshold declares lost is any prefix of the     *)
(* history, and which packet number space's PTO is the earliest is open.   *)
(* Congestion control decides freely (module Congestion).  Stream frames   *)
(* and FEC are module StreamTransfer's.                                    *)
(***************************************************************************)
EXTENDS Integers, Sequences, FiniteSetsExt

CONSTANTS
    Spaces,            \* the packet number spaces that exist at the start
    MaxPN,             \* bound: the last packet number of each space
    MaxAmplified,      \* bound: bytes counted before the peer's address is validated
    SkipDistances,     \* bound: what generateNewSkip draws (3 and more in the code)
    MaxOutstandingSentPackets,
    MaxTrackedSentPackets

VARIABLES
    perspective,
    space,             \* packet number spaces that were not dropped
    bytesInFlight,
    alarm,             \* "none", "loss" or "pto"
    ptoMode,           \* SendNone or the space to probe
    numProbesToSend,
    ptoBackoff,        \* ptoCount > 0
    peerCompletedAddressValidation,
    peerAddressValidated,
    bytesReceived, bytesSent,
    handshakeConfirmed,
    appLevel,          \* encryption level of application data: "0RTT" or "1RTT"
    retryAllowed,      \* no packet of the server was handled yet
    retransmissionQueue,
    unackedFrames      \* per space, frames sent whose handler was not told OnAcked

spVars == <<perspective, space, bytesInFlight, alarm, ptoMode, numProbesToSend, ptoBackoff,
            peerCompletedAddressValidation, peerAddressValidated, bytesReceived, bytesSent,
            handshakeConfirmed, appLevel, retryAllowed, retransmissionQueue, unackedFrames>>

InvalidPacketNumber == -1
packetThreshold == 3
amplificationFactor == 3
Crypto == Spaces \cap {"Initial", "Handshake"}

\* Packets of two lengths: those with odd numbers are longer.
Length(pn) == 1 + (pn % 2)

-----------------------------------------------------------------------------
(* sentPacketHistory and packetNumberGenerator.                            *)

NilPacket == [pn |-> InvalidPacketNumber, kind |-> "nil", level |-> "", frame |-> 0]
skippedPacket(pn) == [pn |-> pn, kind |-> "skipped", level |-> "", frame |-> 0]
outstanding(p) == p.kind = "sent"

newPacketNumberSpace(initial) ==
    {[packets |-> <<>>, numOutstanding |-> 0, highest |-> InvalidPacketNumber,
      first |-> initial, next |-> initial, nextToSkip |-> initial + d,
      largestSent |-> InvalidPacketNumber, largestAcked |-> InvalidPacketNumber,
      lossTime |-> FALSE, elicited |-> FALSE] : d \in SkipDistances}

packetsOf(sp) == {sp.packets[i] : i \in DOMAIN sp.packets} \ {NilPacket}
outstandingPackets(sp) == {p \in packetsOf(sp) : outstanding(p)}
bytesOf(ps) == MapThenSumSet(LAMBDA p : Length(p.pn), ps)

append(sp, p, pn) == [sp EXCEPT !.highest = pn, !.packets = Append(@, p)]

SkippedPacket(sp, pn) == append(sp, skippedPacket(pn), pn)

\* Nothing is stored in front of the first packet that is tracked.
SentNonAckElicitingPacket(sp, pn) ==
    IF sp.packets = <<>> THEN [sp EXCEPT !.highest = pn] ELSE append(sp, NilPacket, pn)

SentAckElicitingPacket(sp, p) == [append(sp, p, p.pn) EXCEPT !.numOutstanding = @ + 1]

\* The packets slice starts with a packet.
cleanupStart(ps) ==
    LET live == {i \in DOMAIN ps : ps[i] # NilPacket} IN
    IF live = {} THEN <<>> ELSE SubSeq(ps, Min(live), Len(ps))

index(sp, pn) == pn - sp.packets[1].pn + 1

\* Mutant: the slot of a lost packet at the front is kept.
clearedSlotsKept(sp, idx) == [i \in DOMAIN sp.packets |-> IF i \in idx THEN NilPacket ELSE sp.packets[i]]

clearedSlots(sp, idx) ==
    cleanupStart([i \in DOMAIN sp.packets |-> IF i \in idx THEN NilPacket ELSE sp.packets[i]])

DeclareLost(sp, pn) ==
    [sp EXCEPT !.packets = clearedSlots(sp, {index(sp, pn)}),
               !.numOutstanding = IF outstanding(sp.packets[index(sp, pn)]) THEN @ - 1 ELSE @]

\* Skipped numbers directly before an acknowledged packet go with it.
Remove(sp, pn) ==
    LET idx == index(sp, pn)
        run == {i \in 1..(idx - 1) : \A j \in i..(idx - 1) : sp.packets[j].kind = "skipped"}
    IN [sp EXCEPT !.packets = clearedSlots(sp, run \cup {idx}),
                  !.numOutstanding = IF outstanding(sp.packets[idx]) THEN @ - 1 ELSE @]

FirstOutstanding(sp) == CHOOSE p \in outstandingPackets(sp) : \A q \in outstandingPackets(sp) : p.pn <= q.pn

\* The application data space skips numbers: what Pop leaves, with the
\* number it returns.  A skipped number is entered into the history.
skips(s, sp) == s = "AppData" /\ sp.next = sp.nextToSkip
Peek(s, sp) == IF skips(s, sp) THEN sp.next + 1 ELSE sp.next
PopPacketNumber(s, sp) ==
    IF skips(s, sp)
    THEN {[SkippedPacket(sp, sp.next) EXCEPT !.next = @ + 2, !.nextToSkip = sp.next + 2 + d] : d \in SkipDistances}
    ELSE {[sp EXCEPT !.next = @ + 1]}

-----------------------------------------------------------------------------
(* The alarm, set at the end of almost every operation.                    *)

hasOutstanding(sps, S) == \E s \in S \cap DOMAIN sps : sps[s].numOutstanding > 0

isAmplificationLimited(validated, sent, rcvd) == ~validated /\ sent >= amplificationFactor * rcvd

\* getPTOTimeAndSpace: the spaces it may return; none if no PTO is needed.
ptoSpaces(sps, confirmed, peerCompleted) ==
    IF ~confirmed /\ ~hasOutstanding(sps, Crypto)
    THEN IF peerCompleted THEN {} ELSE {IF "Initial" \in DOMAIN sps THEN "Initial" ELSE "Handshake"}
    ELSE {s \in DOMAIN sps : sps[s].elicited /\ (s \in Crypto \/ confirmed)}

\* Mutant: the alarm is canceled whenever nothing is outstanding.
alarmAfterIdle(sps, confirmed, peerCompleted, limited) ==
    IF \E s \in DOMAIN sps : sps[s].lossTime THEN "loss"
    ELSE IF limited \/ ~hasOutstanding(sps, Spaces)
            \/ ptoSpaces(sps, confirmed, peerCompleted) = {} THEN "none"
    ELSE "pto"

\* setLossDetectionTimer
alarmAfter(sps, confirmed, peerCompleted, limited) ==
    IF \E s \in DOMAIN sps : sps[s].lossTime THEN "loss"
    ELSE IF limited \/ (~hasOutstanding(sps, Spaces) /\ peerCompleted)
            \/ ptoSpaces(sps, confirmed, peerCompleted) = {} THEN "none"
    ELSE "pto"

setLossDetectionTimer ==
    alarm' = alarmAfter(space', handshakeConfirmed', peerCompletedAddressValidation',
                        isAmplificationLimited(peerAddressValidated', bytesSent', bytesReceived'))

-----------------------------------------------------------------------------

\* A connection has skipped no number at its start.
Init ==
    /\ perspective \in {"client", "server"}
    /\ space \in [Spaces -> newPacketNumberSpace(0)]
    /\ bytesInFlight = 0
    /\ alarm = "none" /\ ptoMode = "none" /\ numProbesToSend = 0 /\ ptoBackoff = FALSE
    /\ peerCompletedAddressValidation = (perspective = "server")
    /\ peerAddressValidated = (perspective = "client")
    /\ bytesReceived = IF perspective = "server" THEN 1 ELSE 0
    /\ bytesSent = 0
    /\ handshakeConfirmed = FALSE
    /\ appLevel = IF perspective = "client" THEN "0RTT" ELSE "1RTT"
    /\ retryAllowed = (perspective = "client")
    /\ retransmissionQueue = [s \in Spaces |-> {}]
    /\ unackedFrames = [s \in Spaces |-> {}]

-----------------------------------------------------------------------------
(* Sending.                                                                *)

numTracked == MapThenSumSet(LAMBDA s : Len(space[s].packets), DOMAIN space)

\* What SendMode may return, whatever congestion control says.
SendModes ==
    IF isAmplificationLimited(peerAddressValidated, bytesSent, bytesReceived)
       \/ numTracked >= MaxTrackedSentPackets THEN {"none"}
    ELSE IF numProbesToSend > 0 THEN {"probe"}
    ELSE {"ack"} \cup (IF numTracked >= MaxOutstandingSentPackets THEN {} ELSE {"any"})

countSent(pn) == bytesSent' = IF peerAddressValidated THEN bytesSent ELSE bytesSent + Length(pn)

levelOf(s) == IF s = "AppData" THEN appLevel ELSE s

\* SentPacket for a packet with frame f (f = 0: an ACK only), from the space
\* and the bytes in flight that sp and flight give.
SentPacket(s, sp, flight, f) ==
    \E popped \in PopPacketNumber(s, sp) : \E pn \in {popped.next - 1} :
      /\ pn <= MaxPN[s]
      /\ space' = [space EXCEPT ![s] =
            IF f = 0 THEN [SentNonAckElicitingPacket(popped, pn) EXCEPT !.largestSent = pn]
            ELSE [SentAckElicitingPacket(popped, [pn |-> pn, kind |-> "sent", level |-> levelOf(s), frame |-> f])
                  EXCEPT !.largestSent = pn, !.elicited = TRUE]]
      /\ bytesInFlight' = flight + (IF f = 0 THEN 0 ELSE Length(pn))
      /\ numProbesToSend' = IF f # 0 /\ numProbesToSend > 0 THEN numProbesToSend - 1 ELSE numProbesToSend
      /\ countSent(pn)
      /\ bytesSent' <= MaxAmplified
      /\ UNCHANGED <<perspective, ptoMode, ptoBackoff, peerCompletedAddressValidation,
                     peerAddressValidated, bytesReceived, handshakeConfirmed, appLevel, retryAllowed>>
      /\ IF f # 0 \/ ~peerCompletedAddressValidation THEN setLossDetectionTimer ELSE UNCHANGED alarm

\* A client drops the Initial keys with the first Handshake packet it sends.
hasKeys(s) == perspective = "client" /\ s = "Handshake" => "Initial" \notin DOMAIN space

newFrame(s) == Peek(s, space[s]) + 1

\* A packet with a frame that was lost, or else a new one.
SendFrame(s) ==
    /\ "any" \in SendModes /\ hasKeys(s)
    /\ \E f \in (IF retransmissionQueue[s] # {} THEN {Min(retransmissionQueue[s])} ELSE {newFrame(s)}) :
          /\ SentPacket(s, space[s], bytesInFlight, f)
          /\ retransmissionQueue' = [retransmissionQueue EXCEPT ![s] = @ \ {f}]
          /\ unackedFrames' = [unackedFrames EXCEPT ![s] = @ \cup {f}]

SendAckOnly(s) ==
    /\ SendModes \cap {"any", "ack"} # {} /\ hasKeys(s)
    /\ s = "AppData" => appLevel = "1RTT"
    /\ SentPacket(s, space[s], bytesInFlight, 0)
    /\ UNCHANGED <<retransmissionQueue, unackedFrames>>

\* sendProbePacket with QueueProbePacket: the frame of the oldest outstanding
\* packet is sent again, and the packet forgotten; failing that, a PING.
sendProbePacket ==
    /\ SendModes = {"probe"}
    /\ ptoMode \in DOMAIN space
    /\ \E sp \in {space[ptoMode]} :
       \E lost \in {IF sp.numOutstanding > 0 THEN {FirstOutstanding(sp)} ELSE {}} :
       \E queue \in {retransmissionQueue[ptoMode] \cup {p.frame : p \in lost}} :
       \E f \in {IF queue = {} THEN newFrame(ptoMode) ELSE Min(queue)} :
          /\ SentPacket(ptoMode, IF lost = {} THEN sp ELSE DeclareLost(sp, FirstOutstanding(sp).pn),
                        bytesInFlight - bytesOf(lost), f)
          /\ retransmissionQueue' = [retransmissionQueue EXCEPT ![ptoMode] = queue \ {f}]
          /\ unackedFrames' = [unackedFrames EXCEPT ![ptoMode] = @ \cup {f}]

-----------------------------------------------------------------------------
(* Losses and acknowledgements.                                            *)

\* detectLostPackets, with the packets below lostBefore sent too long ago.  A
\* skipped number has no send time, and is forgotten.
lostPackets(sp, lostBefore) ==
    {p \in packetsOf(sp) : /\ p.pn <= sp.largestAcked
                           /\ \/ p.kind = "skipped"
                              \/ p.pn < lostBefore
                              \/ sp.largestAcked >= p.pn + packetThreshold}

withoutLost(sp, lost) ==
    [sp EXCEPT !.packets = clearedSlots(sp, {index(sp, p.pn) : p \in lost}),
               !.numOutstanding = @ - Cardinality({p \in lost : outstanding(p)}),
               !.lossTime = \E p \in packetsOf(sp) \ lost : p.pn <= sp.largestAcked]

\* sentPNs: the numbers of the space the peer may have received.
sentPNs(sp) == {pn \in sp.first..sp.largestSent : \A p \in packetsOf(sp) : p.kind = "skipped" => p.pn # pn}

removeAll(sp, ps) == FoldSet(LAMBDA p, acc : Remove(acc, p.pn), sp, ps)

\* Mutant: a lost packet's bytes stay in flight.
lostBytesNever(lost) == 0

lostBytes(lost) == bytesOf({p \in lost : outstanding(p)})

\* An ACK of any packets the peer may have received.
ReceivedAck(s) ==
    \E acks \in SUBSET sentPNs(space[s]) :
      \E acked \in {{p \in packetsOf(space[s]) : p.kind = "sent" /\ p.pn \in acks}} :
        LET completed == \/ peerCompletedAddressValidation
                         \/ perspective = "client" /\ s # "Initial" IN
        /\ acks # {}
        /\ s = "AppData" => appLevel = "1RTT"
        /\ peerCompletedAddressValidation' = completed
        /\ retryAllowed' = FALSE
        /\ UNCHANGED <<perspective, ptoMode, bytesReceived, bytesSent, appLevel, peerAddressValidated, handshakeConfirmed>>
        /\ IF acked = {}
           THEN /\ UNCHANGED <<space, bytesInFlight, retransmissionQueue, unackedFrames, numProbesToSend, ptoBackoff>>
                /\ IF completed # peerCompletedAddressValidation THEN setLossDetectionTimer ELSE UNCHANGED alarm
           ELSE \E sp \in {[removeAll(space[s], acked) EXCEPT !.largestAcked = Max({@} \cup acks)]} :
                \E lostBefore \in sp.first..(sp.largestSent + 1) :
                \E lost \in {lostPackets(sp, lostBefore)} :
                  \E lostFrames \in {{p.frame : p \in {q \in lost : outstanding(q)}}} :
                  /\ space' = [space EXCEPT ![s] = withoutLost(sp, lost)]
                  /\ bytesInFlight' = bytesInFlight - bytesOf(acked) - lostBytes(lost)
                  /\ retransmissionQueue' = [retransmissionQueue EXCEPT ![s] = @ \cup lostFrames]
                  /\ unackedFrames' = [unackedFrames EXCEPT ![s] = @ \ {p.frame : p \in acked}]
                  /\ ptoBackoff' = (ptoBackoff /\ ~completed)
                  /\ numProbesToSend' = 0
                  /\ setLossDetectionTimer

\* The alarm fires: in loss timer mode any space with a loss time may be the
\* earliest, in PTO mode any of ptoSpaces.
OnLossDetectionTimeout ==
    /\ alarm # "none"
    /\ IF \E s \in DOMAIN space : space[s].lossTime
       THEN \E s \in {t \in DOMAIN space : space[t].lossTime} :
            \E lostBefore \in space[s].first..(space[s].largestSent + 1) :
            \E lost \in {lostPackets(space[s], lostBefore)} :
              /\ space' = [space EXCEPT ![s] = withoutLost(space[s], lost)]
              /\ bytesInFlight' = bytesInFlight - lostBytes(lost)
              /\ retransmissionQueue' = [retransmissionQueue EXCEPT ![s] =
                     @ \cup {p.frame : p \in {q \in lost : outstanding(q)}}]
              /\ UNCHANGED <<ptoMode, numProbesToSend, ptoBackoff>>
       ELSE IF bytesInFlight = 0 /\ ~peerCompletedAddressValidation
       THEN /\ ptoBackoff' = TRUE
            /\ numProbesToSend' = numProbesToSend + 1
            /\ ptoMode' = IF "Initial" \in DOMAIN space THEN "Initial" ELSE "Handshake"
            /\ UNCHANGED <<space, bytesInFlight, retransmissionQueue>>
       ELSE \E s \in ptoSpaces(space, handshakeConfirmed, peerCompletedAddressValidation) :
            IF space[s].numOutstanding = 0 /\ ~peerCompletedAddressValidation
            THEN UNCHANGED <<space, bytesInFlight, retransmissionQueue, ptoMode, numProbesToSend, ptoBackoff>>
            ELSE /\ numProbesToSend' = numProbesToSend + 2
                 /\ ptoBackoff' = TRUE
                 /\ ptoMode' = s
                 /\ IF s # "AppData" THEN UNCHANGED space
                    ELSE \E sp \in PopPacketNumber(s, space[s]) :
                           /\ sp.next <= MaxPN[s]
                           /\ space' = [space EXCEPT ![s] = SkippedPacket(sp, sp.next - 1)]
                 /\ UNCHANGED <<bytesInFlight, retransmissionQueue>>
    /\ numProbesToSend' <= 2
    /\ UNCHANGED <<perspective, peerCompletedAddressValidation, peerAddressValidated, bytesReceived,
                   bytesSent, handshakeConfirmed, appLevel, retryAllowed, unackedFrames>>
    /\ setLossDetectionTimer

-----------------------------------------------------------------------------
(* The handshake.                                                          *)

\* ReceivedBytes for a datagram, and ReceivedPacket for what it held.
ReceivedDatagram ==
    /\ ~peerAddressValidated
    /\ \E handshake \in BOOLEAN :
         LET limited == isAmplificationLimited(FALSE, bytesSent, bytesReceived) IN
         /\ bytesReceived < MaxAmplified \div amplificationFactor
         /\ bytesReceived' = bytesReceived + 1
         /\ peerAddressValidated' = handshake
         /\ UNCHANGED <<space, handshakeConfirmed, bytesSent, peerCompletedAddressValidation>>
         /\ IF handshake \/ (limited /\ ~isAmplificationLimited(FALSE, bytesSent, bytesReceived'))
            THEN setLossDetectionTimer ELSE UNCHANGED alarm
    /\ UNCHANGED <<perspective, bytesInFlight, ptoMode, numProbesToSend, ptoBackoff, appLevel,
                   retryAllowed, retransmissionQueue, unackedFrames>>

resetPTO == ptoBackoff' = FALSE /\ numProbesToSend' = 0 /\ ptoMode' = "none"

droppedBytes(s) == bytesOf(outstandingPackets(space[s]))

\* DropPackets of the handler and of the retransmission queue.
dropped(s) ==
    /\ space' = [t \in DOMAIN space \ {s} |-> space[t]]
    /\ bytesInFlight' = bytesInFlight - droppedBytes(s)
    /\ retransmissionQueue' = [retransmissionQueue EXCEPT ![s] = {}]
    /\ unackedFrames' = [unackedFrames EXCEPT ![s] = {}]
    /\ resetPTO

DropInitial ==
    /\ "Initial" \in DOMAIN space
    /\ dropped("Initial")
    /\ UNCHANGED <<appLevel, handshakeConfirmed, peerCompletedAddressValidation, peerAddressValidated, bytesSent,
                   bytesReceived, perspective>>
    /\ retryAllowed' = FALSE
    /\ setLossDetectionTimer

\* dropEncryptionLevel and SetHandshakeConfirmed.
HandshakeConfirmed ==
    /\ "Handshake" \in DOMAIN space /\ "Initial" \notin DOMAIN space /\ appLevel = "1RTT"
    /\ dropped("Handshake")
    /\ handshakeConfirmed' = TRUE
    /\ peerCompletedAddressValidation' = TRUE
    /\ peerAddressValidated' = TRUE
    /\ UNCHANGED <<bytesSent, bytesReceived, perspective, appLevel, retryAllowed>>
    /\ setLossDetectionTimer

\* The 1-RTT keys are installed, and 0-RTT was not rejected.
Has1RTTKeys ==
    /\ appLevel = "0RTT"
    /\ appLevel' = "1RTT"
    /\ retryAllowed' = FALSE
    /\ UNCHANGED <<perspective, space, bytesInFlight, alarm, ptoMode, numProbesToSend, ptoBackoff,
                   peerCompletedAddressValidation, peerAddressValidated, bytesReceived, bytesSent,
                   handshakeConfirmed, retransmissionQueue, unackedFrames>>

\* DropPackets(Encryption0RTT): the packets sent so far are of no use.
Reject0RTT ==
    LET sp == space["AppData"]
        early == {p \in packetsOf(sp) : \A q \in packetsOf(sp) :
                    q.pn <= p.pn => q.kind = "skipped" \/ q.level = "0RTT"}
    IN
    /\ appLevel = "0RTT"
    /\ appLevel' = "1RTT"
    /\ retryAllowed' = FALSE
    /\ space' = [space EXCEPT !["AppData"] =
           [sp EXCEPT !.packets = clearedSlots(sp, {index(sp, p.pn) : p \in early}),
                      !.numOutstanding = @ - Cardinality({p \in early : outstanding(p)})]]
    /\ bytesInFlight' = bytesInFlight - bytesOf({p \in early : outstanding(p)})
    /\ unackedFrames' = [unackedFrames EXCEPT !["AppData"] = @ \ {p.frame : p \in early}]
    /\ resetPTO
    /\ UNCHANGED <<handshakeConfirmed, peerCompletedAddressValidation, peerAddressValidated, bytesSent,
                   bytesReceived, perspective, retransmissionQueue>>
    /\ setLossDetectionTimer

\* numProbesToSend and ptoMode are kept.
ResetForRetry ==
    /\ retryAllowed /\ {"Initial", "AppData"} \subseteq DOMAIN space
    /\ \E i \in newPacketNumberSpace(Peek("Initial", space["Initial"])),
          a \in newPacketNumberSpace(Peek("AppData", space["AppData"])) :
          space' = [space EXCEPT !["Initial"] = i, !["AppData"] = a]
    /\ retransmissionQueue' = [s \in Spaces |->
           retransmissionQueue[s] \cup
             (IF s \in {"Initial", "AppData"} THEN {p.frame : p \in outstandingPackets(space[s])} ELSE {})]
    /\ bytesInFlight' = 0
    /\ alarm' = "none"
    /\ ptoBackoff' = FALSE
    /\ retryAllowed' = FALSE
    /\ UNCHANGED <<perspective, ptoMode, numProbesToSend, peerCompletedAddressValidation, peerAddressValidated,
                   bytesReceived, bytesSent, handshakeConfirmed, appLevel, unackedFrames>>

Next ==
    \/ \E s \in DOMAIN space : SendFrame(s)
    \/ \E s \in DOMAIN space : SendAckOnly(s)
    \/ sendProbePacket
    \/ \E s \in DOMAIN space : ReceivedAck(s)
    \/ OnLossDetectionTimeout
    \/ ReceivedDatagram
    \/ DropInitial
    \/ HandshakeConfirmed
    \/ Has1RTTKeys
    \/ Reject0RTT
    \/ ResetForRetry

Spec == Init /\ [][Next]_spVars

-----------------------------------------------------------------------------
(* The bytes in flight are those of the packets outstanding in the spaces  *)
(* that were not dropped, so that congestion control neither stalls on     *)
(* packets that are gone nor forgets any, through losses, probes, Retry,   *)
(* 0-RTT rejection and dropped levels; and every frame that was sent and   *)
(* not acknowledged is in an outstanding packet or waits to be sent again, *)
(* exactly one of the two.                                                 *)
FlightIsCounted ==
    /\ bytesInFlight = MapThenSumSet(LAMBDA s : bytesOf(outstandingPackets(space[s])), DOMAIN space)
    /\ \A s \in DOMAIN space :
         LET inFlight == {p.frame : p \in outstandingPackets(space[s])} IN
         /\ inFlight \cup retransmissionQueue[s] = unackedFrames[s] \cup retransmissionQueue[s]
         /\ inFlight \cap retransmissionQueue[s] = {}
         /\ Cardinality(inFlight) = Cardinality(outstandingPackets(space[s]))

\* What sentPacketHistory's index arithmetic and panics rely on: the slots
\* are consecutive packet numbers from a packet on, numOutstanding counts the
\* outstanding ones, and the next number popped follows the highest entered.
HistoryIsConsecutive ==
    \A s \in DOMAIN space : LET sp == space[s] IN
      /\ sp.packets # <<>> => sp.packets[1] # NilPacket
      /\ \A i \in DOMAIN sp.packets : sp.packets[i] # NilPacket => sp.packets[i].pn = sp.packets[1].pn + i - 1
      /\ sp.numOutstanding = Cardinality(outstandingPackets(sp))
      /\ sp.highest \in {InvalidPacketNumber, sp.next - 1}
      /\ sp.packets # <<>> => sp.packets[1].pn + Len(sp.packets) - 1 = sp.highest

(* Nothing waits for a loss that no alarm will report: while packets of a  *)
(* space that can be probed are outstanding, or the client does not know   *)
(* that the server validated its address (the server might be unable to    *)
(* send), the alarm is set, unless the endpoint is at its own              *)
(* amplification limit or a probe is already due, or a Retry was just      *)
(* handled and the Initial is about to be sent again.                      *)
AlarmIsSet ==
    \/ alarm # "none"
    \/ isAmplificationLimited(peerAddressValidated, bytesSent, bytesReceived)
    \/ ~hasOutstanding(space, Crypto) /\ ~(handshakeConfirmed /\ hasOutstanding(space, {"AppData"}))
       /\ \/ peerCompletedAddressValidation
          \/ \A s \in DOMAIN space \ {"AppData"} : space[s].largestSent = InvalidPacketNumber
=============================================================================
