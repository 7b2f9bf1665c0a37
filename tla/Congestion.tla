----------------------------- MODULE Congestion -----------------------------
(***************************************************************************)
(* The congestion controller: cubicSender of internal/congestion with Reno *)
(* (newSentPacketHandler always asks for Reno, so cubic.go is never used), *)
(* and HybridSlowStart, driven the way sentPacketHandler drives them:      *)
(* OnPacketSent; for an ACK MaybeExitSlowStart, OnCongestionEvent for the  *)
(* packets it shows to be lost (or a CE mark), then OnPacketAcked in order;*)
(* SetMaxDatagramSize when a larger MTU was found.                         *)
(*                                                                         *)
(* One controller serves all packet number spaces and is not told which    *)
(* space a number belongs to.  Round trip times are not modelled: whether  *)
(* the delay increased in a round is open.                                 *)
(***************************************************************************)
EXTENDS Integers, Sequences, SequencesExt, FiniteSetsExt

CONSTANTS
    PNSpaces,                  \* the packet number spaces in use
    InitialDatagramSize, LargerDatagramSize,
    InitialCongestionWindow, MaxCongestionWindowPackets,
    HybridStartMinSamples, HybridStartLowWindow,
    MaxSent,                   \* bound: packets sent
    MaxByteCount               \* no slow start threshold

VARIABLES
    congestionWindow, slowStartThreshold,
    maxDatagramSize,
    ccLargestSent, ccLargestAcked,
    largestSentAtLastCutback,
    numAckedPackets,
    hybrid,                    \* HybridSlowStart
    flight,                    \* packets outstanding
    nextPN,                    \* per space, the next packet number
    spaceAcked,                \* per space, the largest number acknowledged
    sentCount,                 \* packets sent, over all spaces
    cutbackAt,                 \* sentCount when the window was last reduced
    strayCutback               \* the window was reduced for a packet sent before cutbackAt

ccVars == <<congestionWindow, slowStartThreshold, maxDatagramSize, ccLargestSent, ccLargestAcked,
            largestSentAtLastCutback, numAckedPackets, hybrid, flight, nextPN, spaceAcked, sentCount, cutbackAt, strayCutback>>

InvalidPacketNumber == -1
minCongestionWindowPackets == 2
maxBurstPackets == 3

Init ==
    /\ congestionWindow = InitialCongestionWindow
    /\ slowStartThreshold = MaxByteCount
    /\ maxDatagramSize = InitialDatagramSize
    /\ ccLargestSent = InvalidPacketNumber /\ ccLargestAcked = InvalidPacketNumber
    /\ largestSentAtLastCutback = InvalidPacketNumber
    /\ numAckedPackets = 0
    /\ hybrid = [end |-> 0, lastSent |-> 0, started |-> FALSE, samples |-> 0, found |-> FALSE]
    /\ nextPN = [s \in PNSpaces |-> 0]
    /\ spaceAcked = [s \in PNSpaces |-> InvalidPacketNumber]
    /\ flight = {} /\ sentCount = 0 /\ cutbackAt = 0 /\ strayCutback = FALSE

\* The state the operations below hand on: the controller's variables.
cc == [cwnd |-> congestionWindow, thresh |-> slowStartThreshold, sent |-> ccLargestSent,
       acked |-> ccLargestAcked, cutback |-> largestSentAtLastCutback, num |-> numAckedPackets,
       hybrid |-> hybrid, at |-> cutbackAt, stray |-> strayCutback]

becomes(c) ==
    /\ congestionWindow' = c.cwnd /\ slowStartThreshold' = c.thresh
    /\ ccLargestSent' = c.sent /\ ccLargestAcked' = c.acked
    /\ largestSentAtLastCutback' = c.cutback /\ numAckedPackets' = c.num
    /\ hybrid' = c.hybrid /\ cutbackAt' = c.at /\ strayCutback' = c.stray

bytes(ps) == MapThenSumSet(LAMBDA p : p.len, ps)
InSlowStart(c) == c.cwnd < c.thresh
maxCongestionWindow == MaxCongestionWindowPackets * maxDatagramSize
minCongestionWindow(size) == minCongestionWindowPackets * size
CanSend == bytes(flight) < congestionWindow

-----------------------------------------------------------------------------
(* HybridSlowStart.                                                        *)

\* ShouldExitSlowStart; delayed: the delay increased during this round.
sampled(h, delayed) ==
    LET s == IF h.started THEN h ELSE [h EXCEPT !.end = h.lastSent, !.samples = 0, !.started = TRUE] IN
    IF s.found THEN s
    ELSE [s EXCEPT !.samples = @ + 1, !.found = delayed /\ s.samples + 1 = HybridStartMinSamples]

MaybeExitSlowStart(c, delayed) ==
    IF ~InSlowStart(c) THEN c
    ELSE LET h == sampled(c.hybrid, delayed)
             exit == c.hybrid.found \/ (h.found /\ c.cwnd \div maxDatagramSize >= HybridStartLowWindow)
         IN [c EXCEPT !.hybrid = h, !.thresh = IF exit THEN c.cwnd ELSE @]

-----------------------------------------------------------------------------

\* A packet that the window has room for, or a probe, which is sent in any case.
OnPacketSent(space) ==
    /\ CanSend \/ flight # {}
    /\ sentCount < MaxSent
    /\ flight' = flight \cup {[space |-> space, pn |-> nextPN[space], len |-> maxDatagramSize, order |-> sentCount]}
    /\ becomes([cc EXCEPT !.sent = nextPN[space], !.hybrid.lastSent = nextPN[space]])
    /\ nextPN' = [nextPN EXCEPT ![space] = @ + 1]
    /\ sentCount' = sentCount + 1
    /\ UNCHANGED <<maxDatagramSize, spaceAcked>>

\* Mutant: a loss of a packet sent before the last reduction counts again.
sameLossEventNever(c, pn) == FALSE

sameLossEvent(c, pn) == pn <= c.cutback

\* OnCongestionEvent for packet p.
reduced(c, p) ==
    LET w == (c.cwnd * 7) \div 10
        cwnd == IF w < minCongestionWindow(maxDatagramSize) THEN minCongestionWindow(maxDatagramSize) ELSE w
    IN IF sameLossEvent(c, p.pn) THEN c
       ELSE [c EXCEPT !.cwnd = cwnd, !.thresh = cwnd, !.cutback = c.sent, !.num = 0,
                      !.at = sentCount, !.stray = @ \/ p.order < c.at]

isCwndLimited(c, prior) ==
    \/ prior >= c.cwnd
    \/ InSlowStart(c) /\ prior > c.cwnd \div 2
    \/ c.cwnd - prior <= maxBurstPackets * maxDatagramSize

maybeIncreaseCwnd(c, prior) ==
    IF ~isCwndLimited(c, prior) \/ c.cwnd >= maxCongestionWindow THEN c
    ELSE IF InSlowStart(c) THEN [c EXCEPT !.cwnd = @ + maxDatagramSize]
    ELSE IF c.num + 1 >= c.cwnd \div maxDatagramSize
    THEN [c EXCEPT !.cwnd = @ + maxDatagramSize, !.num = 0]
    ELSE [c EXCEPT !.num = @ + 1]

\* OnPacketAcked: nothing grows before a packet sent after the last reduction
\* is acknowledged.
acknowledged(c, p, prior) ==
    LET a == [c EXCEPT !.acked = IF p.pn > @ THEN p.pn ELSE @]
        g == maybeIncreaseCwnd(a, prior)
    IN IF a.acked <= a.cutback THEN a
       ELSE IF InSlowStart(g) /\ g.hybrid.end < p.pn THEN [g EXCEPT !.hybrid.started = FALSE] ELSE g

inOrder(ps) == SetToSortSeq(ps, LAMBDA p, q : p.pn < q.pn)

\* An ACK frame for packets of one space, the losses it reveals (any packets before the largest
\* acknowledged one) and the CE marks it reports.  Only an ACK whose largest packet is newly
\* acknowledged is an RTT sample, and only one that raises the largest is looked at for marks.
ReceivedAck(space) ==
    \E acked \in SUBSET {p \in flight : p.space = space} \ {{}} :
    \E largest \in {p \in acked : \A q \in acked : q.pn <= p.pn} :
    \E largestAcked \in {IF largest.pn > spaceAcked[space] THEN largest.pn ELSE spaceAcked[space]} :
    \E lost \in SUBSET {p \in flight \ acked : p.space = space /\ p.pn < largestAcked} :
    \E sample \in {TRUE, largest.pn > spaceAcked[space]}, delayed \in BOOLEAN :
    \E ce \in {FALSE, largest.pn > spaceAcked[space]} :
      LET prior == bytes(flight)
          exited == IF sample THEN MaybeExitSlowStart(cc, delayed) ELSE cc
          marked == IF ce THEN reduced(exited, largest) ELSE exited
          afterLoss == FoldLeft(reduced, marked, inOrder(lost))
      IN /\ becomes(FoldLeft(LAMBDA c, p : acknowledged(c, p, prior), afterLoss, inOrder(acked)))
         /\ flight' = flight \ (acked \cup lost)
         /\ spaceAcked' = [spaceAcked EXCEPT ![space] = largestAcked]
         /\ UNCHANGED <<maxDatagramSize, nextPN, sentCount>>

\* The loss timer fires: packets sent long ago are lost.
LossTimeout(space) ==
    \E lost \in SUBSET {p \in flight : p.space = space /\ p.pn < spaceAcked[space]} \ {{}} :
      /\ becomes(FoldLeft(reduced, cc, inOrder(lost)))
      /\ flight' = flight \ lost
      /\ UNCHANGED <<maxDatagramSize, nextPN, spaceAcked, sentCount>>

\* The path MTU discoverer found a larger MTU.
SetMaxDatagramSize ==
    /\ maxDatagramSize < LargerDatagramSize
    /\ maxDatagramSize' = LargerDatagramSize
    /\ becomes([cc EXCEPT !.cwnd = IF @ = minCongestionWindow(maxDatagramSize)
                                   THEN minCongestionWindow(LargerDatagramSize) ELSE @])
    /\ UNCHANGED <<flight, nextPN, spaceAcked, sentCount>>

Next ==
    \/ \E s \in PNSpaces : OnPacketSent(s) \/ ReceivedAck(s) \/ LossTimeout(s)
    \/ SetMaxDatagramSize

Spec == Init /\ [][Next]_ccVars

-----------------------------------------------------------------------------
(* A loss episode costs the window once: packets that were under way when  *)
(* the window was reduced do not reduce it again when they turn out to be  *)
(* lost ("any losses in packets already sent should be treated as a single *)
(* loss event").  The window stays between its bounds, so that an endpoint *)
(* with nothing in flight can always send; and once it was reduced it only *)
(* grows by congestion avoidance.                                          *)
SingleLossEvent ==
    /\ ~strayCutback
    /\ congestionWindow >= minCongestionWindow(InitialDatagramSize)
    /\ congestionWindow < maxCongestionWindow + maxDatagramSize
    /\ cutbackAt > 0 => ~InSlowStart(cc)
=============================================================================
