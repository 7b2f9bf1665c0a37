---------------------------- MODULE AckExchange ----------------------------
(***************************************************************************)
(* Acknowledgements of 1-RTT packets.  One endpoint sends ack-eliciting    *)
(* packets and validates the path for ECN with what comes back (ecnTracker *)
(* of internal/ackhandler/ecn.go); the other records what arrives and      *)
(* decides when to send an ACK frame (receivedPacketHandler,               *)
(* appDataReceivedPacketTracker and receivedPacketHistory).  An ACK of the *)
(* packet an ACK frame was sent in ends the reporting of what that frame   *)
(* covered (lowestNotConfirmedAcked, IgnoreBelow).                         *)
(*                                                                         *)
(* The network delays, reorders, duplicates and loses packets of both      *)
(* directions, and may mark ECT(0) packets CE if PathMarksCE.  The sender's*)
(* history is module SentPackets': here it is the set of outstanding       *)
(* packet numbers.  Only ECT(0) is ever sent (ecnTracker.Mode).            *)
(***************************************************************************)
EXTENDS Integers, Sequences, FiniteSetsExt

CONSTANTS
    MaxDataPN,              \* bound: packets of the sender
    MaxAckPN,               \* bound: packets of the receiver
    MaxNumAckRanges,
    NumECNTestingPackets,
    PathMarksCE,            \* TRUE: the network may set ECN-CE
    Paced                   \* TRUE: the receiver's packets are sent with an ACK due only

ASSUME AckAssumption ==
    /\ MaxDataPN \in Nat /\ MaxAckPN \in Nat
    /\ MaxNumAckRanges \in Nat \ {0}
    /\ NumECNTestingPackets \in Nat \ {0}

VARIABLES
    dataPkts, ackPkts,      \* every packet sent: the network
    inHistory,              \* sender: outstanding packet numbers
    largestAckedPN,         \* sender
    ackPNsSeen,             \* sender: receiver's packets that arrived
    ecn,                    \* sender: ecnTracker
    ranges, deletedBelow,   \* receiver: receivedPacketHistory
    ignoreBelow, hasNewAck, ackQueued, ackAlarm, sinceLastAck, lastAck,
    rcvdECT0, rcvdCE,       \* receiver: its tracker's counters
    lowestNotConfirmedAcked,
    handled                 \* receiver: packet numbers whose frames were handled, with their mark

sndSide == <<dataPkts, inHistory, largestAckedPN, ackPNsSeen, ecn>>
rcvSide == <<ranges, deletedBelow, ignoreBelow, hasNewAck, ackQueued, ackAlarm, sinceLastAck, lastAck,
             rcvdECT0, rcvdCE, lowestNotConfirmedAcked, handled>>
axVars == <<sndSide, ackPkts, rcvSide>>

InvalidPacketNumber == -1
packetsBeforeAck == 2

newECNTracker ==
    [state |-> "Initial", numSentTesting |-> 0, numLostTesting |-> 0,
     firstTesting |-> InvalidPacketNumber, lastTesting |-> InvalidPacketNumber,
     firstCapable |-> InvalidPacketNumber, numSentECT0 |-> 0, numAckedECT0 |-> 0, numAckedECNCE |-> 0]

AckInit ==
    /\ dataPkts = {} /\ ackPkts = {} /\ inHistory = {} /\ ackPNsSeen = {}
    /\ largestAckedPN = InvalidPacketNumber
    /\ ecn = newECNTracker
    /\ ranges = <<>> /\ deletedBelow = 0 /\ ignoreBelow = 0
    /\ hasNewAck = FALSE /\ ackQueued = FALSE /\ ackAlarm = FALSE /\ sinceLastAck = 0
    /\ lastAck = {} /\ rcvdECT0 = 0 /\ rcvdCE = 0
    /\ lowestNotConfirmedAcked = 0
    /\ handled = {}

-----------------------------------------------------------------------------
(* ecnTracker.                                                             *)

\* Mode, with the tracker it leaves.
tested(e) == IF e.state = "Initial" THEN [e EXCEPT !.state = "Testing"] ELSE e
Mode(e) == IF e.state \in {"Testing", "Capable"} THEN "ECT0" ELSE "Non"

ecnSentPacket(e, pn) ==
    IF Mode(e) = "Non" THEN e
    ELSE LET n == e.numSentECT0 + 1
             full == e.state = "Testing" /\ n >= NumECNTestingPackets
         IN [e EXCEPT !.numSentECT0 = n,
                      !.firstCapable = IF e.state = "Capable" /\ @ = InvalidPacketNumber THEN pn ELSE @,
                      !.numSentTesting = IF e.state = "Testing" THEN @ + 1 ELSE @,
                      !.firstTesting = IF e.state = "Testing" /\ @ = InvalidPacketNumber THEN pn ELSE @,
                      !.lastTesting = IF full THEN pn ELSE @,
                      !.state = IF full THEN "Unknown" ELSE @]

isTestingPacket(e, pn) ==
    /\ e.firstTesting # InvalidPacketNumber
    /\ pn >= e.firstTesting
    /\ pn <= e.lastTesting \/ e.lastTesting = InvalidPacketNumber

\* Mutant: packets sent after the testing phase count as marked.
ecnMarkingAll(e, pn) ==
    IF pn < e.firstTesting \/ e.firstTesting = InvalidPacketNumber THEN "Non" ELSE "ECT0"

\* The marking the tracker assumes a packet was sent with.
ecnMarking(e, pn) ==
    IF pn < e.firstTesting \/ e.firstTesting = InvalidPacketNumber THEN "Non"
    ELSE IF pn < e.lastTesting \/ e.lastTesting = InvalidPacketNumber THEN "ECT0"
    ELSE IF pn < e.firstCapable \/ e.firstCapable = InvalidPacketNumber THEN "Non"
    ELSE "ECT0"

failIfMangled(e) ==
    IF e.numSentECT0 > e.numAckedECNCE + e.numLostTesting THEN e ELSE [e EXCEPT !.state = "Failed"]

LostPacket(e, pn) ==
    IF e.state \notin {"Testing", "Unknown"} \/ ~isTestingPacket(e, pn) THEN e
    ELSE LET f == [e EXCEPT !.numLostTesting = @ + 1] IN
         IF f.state # "Unknown" THEN f
         ELSE IF f.numLostTesting >= f.numSentTesting THEN [f EXCEPT !.state = "Failed"]
         ELSE failIfMangled(f)

\* HandleNewlyAcked for packets pns, with the counts of the ACK frame.
HandleNewlyAcked(e, pns, ect0, ce) ==
    LET ackedECT0 == Cardinality({pn \in pns : ecnMarking(e, pn) = "ECT0"})
        newECT0 == ect0 - e.numAckedECT0
        newCE == ce - e.numAckedECNCE
        counted == [e EXCEPT !.numAckedECT0 = ect0, !.numAckedECNCE = ce]
        checked == IF e.state = "Unknown" THEN failIfMangled(counted) ELSE counted
    IN IF e.state = "Failed" THEN e
       ELSE IF \/ ect0 > e.numSentECT0
               \/ ackedECT0 > 0 /\ ect0 = 0 /\ ce = 0
               \/ newECT0 < 0 \/ newCE < 0
               \/ newECT0 + newCE < ackedECT0
       THEN [e EXCEPT !.state = "Failed"]
       ELSE IF /\ checked.state \in {"Testing", "Unknown"}
               /\ \E pn \in pns : isTestingPacket(e, pn)
               /\ newECT0 > 0
       THEN [checked EXCEPT !.state = "Capable"]
       ELSE checked

-----------------------------------------------------------------------------
(* The sender.                                                             *)

\* A packet with data, and an ACK of the receiver's packets that arrived.
SendData ==
    LET pn == Cardinality(dataPkts)
        e == tested(ecn)
    IN
    /\ pn <= MaxDataPN
    /\ dataPkts' = dataPkts \cup {[pn |-> pn, mark |-> Mode(e), acks |-> ackPNsSeen]}
    /\ inHistory' = inHistory \cup {pn}
    /\ ecn' = ecnSentPacket(e, pn)
    /\ UNCHANGED <<largestAckedPN, ackPNsSeen, ackPkts, rcvSide>>

\* Counts are only looked at if the largest acknowledged number grows.
ReceiveAck ==
    \E a \in ackPkts :
      /\ a.pn \notin ackPNsSeen
      /\ ackPNsSeen' = ackPNsSeen \cup {a.pn}
      /\ IF a.acks \cap inHistory = {} THEN UNCHANGED <<inHistory, largestAckedPN, ecn>>
         ELSE /\ ecn' = IF Max(a.acks) > largestAckedPN
                        THEN HandleNewlyAcked(ecn, a.acks \cap inHistory, a.ect0, a.ce) ELSE ecn
              /\ largestAckedPN' = Max(a.acks \cup {largestAckedPN})
              /\ inHistory' = inHistory \ a.acks
      /\ UNCHANGED <<dataPkts, ackPkts, rcvSide>>

\* detectLostPackets: by the reordering or the time threshold, rightly or not.
DeclareLost ==
    \E pn \in inHistory :
      /\ pn < largestAckedPN
      /\ inHistory' = inHistory \ {pn}
      /\ ecn' = LostPacket(ecn, pn)
      /\ UNCHANGED <<dataPkts, largestAckedPN, ackPNsSeen, ackPkts, rcvSide>>

-----------------------------------------------------------------------------
(* receivedPacketHistory.  The loops over the ranges run from the back; hit *)
(* is the range at which they stop, 0 if none.                             *)

covers(r, p) == r[1] <= p /\ p <= r[2]
lastOf(S) == IF S = {} THEN 0 ELSE Max(S)

addToRanges(rs, p) ==
    LET hit == lastOf({i \in DOMAIN rs : covers(rs[i], p) \/ rs[i][2] = p - 1 \/ rs[i][1] = p + 1 \/ p > rs[i][2]})
        insert(i) == SubSeq(rs, 1, i) \o <<<<p, p>>>> \o SubSeq(rs, i + 1, Len(rs))
        r == rs[hit]
    IN IF hit = 0 THEN [new |-> TRUE, ranges |-> insert(0)]
       ELSE IF covers(r, p) THEN [new |-> FALSE, ranges |-> rs]
       ELSE IF r[2] = p - 1 THEN [new |-> TRUE, ranges |-> [rs EXCEPT ![hit] = <<r[1], p>>]]
       ELSE IF r[1] = p + 1
       THEN [new |-> TRUE, ranges |->
               IF hit > 1 /\ rs[hit - 1][2] + 1 = p
               THEN SubSeq(rs, 1, hit - 2) \o <<<<rs[hit - 1][1], r[2]>>>> \o SubSeq(rs, hit + 1, Len(rs))
               ELSE [rs EXCEPT ![hit] = <<p, r[2]>>]]
       ELSE [new |-> TRUE, ranges |-> insert(hit)]

maybeDeleteOldRanges(rs) ==
    IF Len(rs) > MaxNumAckRanges THEN SubSeq(rs, Len(rs) - MaxNumAckRanges + 1, Len(rs)) ELSE rs

\* Mutant: a range that ends where the cut is made goes as well.
DeleteBelowOneMore(rs, p) == SubSeq(rs, lastOf({i \in DOMAIN rs : \A j \in 1 .. i : rs[j][2] <= p}) + 1, Len(rs))

\* From the front, whole ranges go as long as they end below p; the next one may be cut.
DeleteBelow(rs, p) ==
    LET deleted == lastOf({i \in DOMAIN rs : \A j \in 1 .. i : rs[j][2] < p})
        kept == SubSeq(rs, deleted + 1, Len(rs))
    IN IF kept # <<>> /\ kept[1][1] < p THEN [kept EXCEPT ![1] = <<p, @[2]>>] ELSE kept

IsPotentiallyDuplicate(p) ==
    \/ p < deletedBelow
    \/ LET hit == lastOf({i \in DOMAIN ranges : p > ranges[i][2] \/ covers(ranges[i], p)}) IN
       hit # 0 /\ covers(ranges[hit], p)

ackedBy(rs) == UNION {r[1]..r[2] : r \in {rs[i] : i \in DOMAIN rs}}

-----------------------------------------------------------------------------
(* The receiver.                                                           *)

\* isMissing, for the last ACK frame that was built.
isMissing(p) == lastAck # {} /\ p >= ignoreBelow /\ p < Max(lastAck) /\ p \notin lastAck

hasNewMissingPackets(rs) ==
    /\ lastAck # {}
    /\ rs[Len(rs)][1] > Max(lastAck) + 1
    /\ rs[Len(rs)][1] = rs[Len(rs)][2]

shouldQueueACK(p, ce, rs, since) ==
    lastAck = {} \/ isMissing(p) \/ since >= packetsBeforeAck \/ hasNewMissingPackets(rs) \/ ce

\* Mutant: the packet after the largest one reported is forgotten as well.
confirmedBelowOneMore(pns) ==
    Max({lowestNotConfirmedAcked} \cup {Max(a.acks) + 2 : a \in {b \in ackPkts : b.pn \in pns /\ b.acks # {}}})

\* An ACK of packets that carried ACK frames: what those frames reported is done with.
confirmedBelow(pns) ==
    Max({lowestNotConfirmedAcked} \cup {Max(a.acks) + 1 : a \in {b \in ackPkts : b.pn \in pns /\ b.acks # {}}})

\* receivedPacketTracker: the counters for the mark the packet arrived with.
countMark(mark) ==
    /\ rcvdECT0' = IF mark = "ECT0" THEN rcvdECT0 + 1 ELSE rcvdECT0
    /\ rcvdCE' = IF mark = "CE" THEN rcvdCE + 1 ELSE rcvdCE

\* The frames of the packet come first (its ACK), then the packet is recorded.
ReceiveData ==
    \E p \in dataPkts :
      \E mark \in {p.mark} \cup (IF PathMarksCE /\ p.mark = "ECT0" THEN {"CE"} ELSE {}) :
      /\ ~IsPotentiallyDuplicate(p.pn)
      /\ LET lowest == confirmedBelow(p.acks)
             rs == maybeDeleteOldRanges(addToRanges(ranges, p.pn).ranges)
             queue == ackQueued \/ shouldQueueACK(p.pn, mark = "CE", rs, sinceLastAck + 1)
         IN /\ lowestNotConfirmedAcked' = lowest
            /\ hasNewAck' = TRUE
            /\ sinceLastAck' = sinceLastAck + 1
            /\ ackQueued' = queue
            /\ ackAlarm' = ~queue
            /\ ignoreBelow' = Max({ignoreBelow, lowest})
            /\ deletedBelow' = Max({deletedBelow, lowest})
            /\ ranges' = IF lowest > ignoreBelow THEN DeleteBelow(rs, lowest) ELSE rs
            /\ countMark(mark)
            /\ handled' = handled \cup {<<p.pn, mark>>}
      /\ UNCHANGED <<sndSide, ackPkts, lastAck>>

\* receivedPacketTracker.GetAckFrame; without a frame nothing is acknowledged.
ackFrame(due) ==
    IF due THEN [pn |-> Cardinality(ackPkts), acks |-> ackedBy(ranges), ect0 |-> rcvdECT0, ce |-> rcvdCE]
    ELSE [pn |-> Cardinality(ackPkts), acks |-> {}, ect0 |-> 0, ce |-> 0]

\* A packet of the receiver: with an ACK frame if one is due (onlyIfQueued) or
\* there is room beside other frames and something new to report.
SendAck ==
    \E onlyIfQueued \in {Paced, TRUE} :
      LET due == hasNewAck /\ (onlyIfQueued => ackQueued \/ ackAlarm)
          frame == ackFrame(due)
      IN
      /\ Cardinality(ackPkts) <= MaxAckPN
      /\ onlyIfQueued => due
      /\ ackPkts' = ackPkts \cup {frame}
      /\ lastAck' = IF due THEN frame.acks ELSE lastAck
      /\ hasNewAck' = (hasNewAck /\ ~due)
      /\ ackQueued' = (ackQueued /\ ~due)
      /\ ackAlarm' = (ackAlarm /\ ~due)
      /\ sinceLastAck' = IF due THEN 0 ELSE sinceLastAck
      /\ UNCHANGED <<sndSide, ranges, deletedBelow, ignoreBelow, rcvdECT0, rcvdCE, lowestNotConfirmedAcked, handled>>

AckNext == SendData \/ ReceiveAck \/ DeclareLost \/ ReceiveData \/ SendAck

AckSpec == AckInit /\ [][AckNext]_axVars

-----------------------------------------------------------------------------
(* A packet whose frames were handled is recognised when it arrives again, *)
(* whatever ranges were extended, merged or cut since; a packet that is    *)
(* not taken for a duplicate is new to the history (otherwise the          *)
(* connection would close with "BUG: ReceivedPacket called for old /       *)
(* duplicate packet"); and an ACK frame only covers packets handled.       *)
DuplicatesAreRecognised ==
    /\ \A h \in handled : IsPotentiallyDuplicate(h[1])
    /\ \A p \in 0..MaxDataPN :
          IsPotentiallyDuplicate(p) <=> ~(p >= deletedBelow /\ addToRanges(ranges, p).new)
    /\ ackedBy(ranges) \subseteq {h[1] : h \in handled}

(* What was received and not reported will be: an ACK is queued or the ACK *)
(* timer runs, whichever of reordered, missing and merged packets the last *)
(* one was, and the frame that will be sent is not empty.                  *)
AckIsScheduled == hasNewAck => (ackQueued \/ ackAlarm) /\ ranges # <<>>

(* ECN is only disabled for a reason: on a path that keeps the ECN field,  *)
(* validation fails only if every testing packet was declared lost, though *)
(* ACK frames are reordered and lost and packets wrongly declared lost.    *)
(* On a path that may mark packets CE, only if the testing packets were    *)
(* all declared lost or marked.                                            *)
ECNFailsForCause ==
    ecn.state = "Failed" =>
      \/ ecn.numLostTesting >= ecn.numSentTesting
      \/ PathMarksCE /\ ecn.numAckedECNCE + ecn.numLostTesting >= ecn.numSentECT0
=============================================================================
