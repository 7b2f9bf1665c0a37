------------------------------ MODULE PathMTU ------------------------------
(***************************************************************************)
(* Path MTU discovery (mtu_discoverer.go) with the pacer                   *)
(* (internal/congestion/pacer.go) that the maximum datagram size it finds  *)
(* is passed to.                                                           *)
(*                                                                         *)
(* A probe packet is lost if it is larger than the path's MTU, and may be  *)
(* lost otherwise; that the peer got it is learned late, or not at all: a  *)
(* probe can be declared lost although it arrived, and its ACK is then     *)
(* ignored (the packet is no longer in the history).                       *)
(*                                                                         *)
(* Time is in ticks, Second of them to a second; bandwidth in bytes a      *)
(* second.  int64 overflow of Budget is not modelled.                      *)
(***************************************************************************)
EXTENDS Integers, FiniteSetsExt

CONSTANTS
    PathMTUs,          \* the MTUs the path may have
    StartSize,         \* InitialPacketSize: every path carries it
    MaxPacketSizes,    \* what Start may be given
    MaxMTUDiff,
    Second, Bandwidths, MinPacingDelay, TimerGranularity,
    MaxBurstSizePackets,
    MaxClock           \* bound: ticks

ASSUME PathAssumption ==
    /\ PathMTUs \subseteq Nat /\ StartSize \in Nat \ {0} /\ \A m \in PathMTUs : StartSize <= m
    /\ MaxPacketSizes \subseteq Nat \ {0} /\ MaxMTUDiff \in Nat

ASSUME PacerAssumption ==
    /\ Second \in Nat \ {0} /\ Bandwidths \subseteq Nat \ {0}
    /\ MinPacingDelay \in Nat /\ TimerGranularity \in Nat
    /\ MaxBurstSizePackets \in Nat \ {0} /\ MaxClock \in Nat

VARIABLES
    pathMTU,
    probeInFlight,     \* size of the probe in flight, 0 for InvalidByteCount
    mtuCurrent, mtuMax,
    mtuLimit,          \* history: the maxPacketSize that Start was given, 0 before
    probeLost,         \* a probe that fits the path was declared lost
    clock,
    bandwidth,         \* adjustedBandwidth
    pacerDatagramSize,
    budgetAtLastSent, lastSentTime

mtuState == <<pathMTU, probeInFlight, mtuCurrent, mtuMax, mtuLimit, probeLost>>
pacerState == <<clock, bandwidth, pacerDatagramSize, budgetAtLastSent, lastSentTime>>
mtuVars == <<mtuState, pacerState>>

never == -1

maxBurstSize(bw, size) ==
    Max({((MinPacingDelay + TimerGranularity) * bw) \div Second, MaxBurstSizePackets * size})

MTUInit ==
    /\ pathMTU \in PathMTUs
    /\ probeInFlight = 0 /\ mtuCurrent = StartSize /\ mtuMax = 0 /\ mtuLimit = 0 /\ probeLost = FALSE
    /\ clock = 0
    /\ bandwidth \in Bandwidths
    /\ pacerDatagramSize = StartSize
    /\ budgetAtLastSent = maxBurstSize(bandwidth, StartSize)
    /\ lastSentTime = never

-----------------------------------------------------------------------------
(* mtuFinder.                                                              *)

Start ==
    /\ mtuMax = 0
    /\ \E m \in MaxPacketSizes : mtuMax' = m /\ mtuLimit' = m
    /\ UNCHANGED <<pathMTU, probeInFlight, mtuCurrent, probeLost, pacerState>>

\* Mutant: the search ends a round too early.
doneTooEarly == (mtuMax - mtuCurrent) \div 2 <= MaxMTUDiff + 1

done == mtuMax - mtuCurrent <= MaxMTUDiff + 1

\* ShouldSendProbe and GetPing.
SendProbe ==
    /\ mtuMax # 0 /\ probeInFlight = 0 /\ ~done
    /\ probeInFlight' = (mtuMax + mtuCurrent) \div 2
    /\ UNCHANGED <<pathMTU, mtuCurrent, mtuMax, mtuLimit, probeLost, pacerState>>

\* mtuIncreased tells the pacer (through SetMaxDatagramSize).
OnAcked ==
    /\ probeInFlight # 0 /\ probeInFlight <= pathMTU
    /\ mtuCurrent' = probeInFlight
    /\ pacerDatagramSize' = probeInFlight
    /\ probeInFlight' = 0
    /\ UNCHANGED <<pathMTU, mtuMax, mtuLimit, probeLost, clock, bandwidth, budgetAtLastSent, lastSentTime>>

OnLost ==
    /\ probeInFlight # 0
    /\ mtuMax' = probeInFlight
    /\ probeLost' = (probeLost \/ probeInFlight <= pathMTU)
    /\ probeInFlight' = 0
    /\ UNCHANGED <<pathMTU, mtuCurrent, mtuLimit, pacerState>>

-----------------------------------------------------------------------------
(* pacer.                                                                  *)

Budget(now) ==
    IF lastSentTime = never THEN maxBurstSize(bandwidth, pacerDatagramSize)
    ELSE Min({maxBurstSize(bandwidth, pacerDatagramSize),
              budgetAtLastSent + (bandwidth * (now - lastSentTime)) \div Second})

\* Mutant: the delay is not rounded up.
delayForRoundedDown(missing) == (Second * missing) \div bandwidth

delayFor(missing) == (Second * missing + bandwidth - 1) \div bandwidth

\* The time the connection sets its pacing timer to; 0: send immediately.
TimeUntilSend ==
    IF budgetAtLastSent >= pacerDatagramSize THEN 0
    ELSE lastSentTime + Max({MinPacingDelay, delayFor(pacerDatagramSize - budgetAtLastSent)})

\* SentPacket: a packet of any size up to the maximum.  ACKs and probes are
\* sent without asking HasPacingBudget.
SentPacket ==
    \E size \in {1, pacerDatagramSize}, paced \in BOOLEAN :
      LET b == Budget(clock) IN
      /\ paced => b >= pacerDatagramSize
      /\ ~paced => size = 1
      /\ budgetAtLastSent' = IF size >= b THEN 0 ELSE b - size
      /\ lastSentTime' = clock
      /\ UNCHANGED <<mtuState, clock, bandwidth, pacerDatagramSize>>

Tick ==
    /\ clock < MaxClock
    /\ clock' = clock + 1
    /\ UNCHANGED <<mtuState, bandwidth, pacerDatagramSize, budgetAtLastSent, lastSentTime>>

\* The congestion window or the round trip time changed.
UpdateBandwidth ==
    /\ bandwidth' \in Bandwidths \ {bandwidth}
    /\ UNCHANGED <<mtuState, clock, pacerDatagramSize, budgetAtLastSent, lastSentTime>>

MTUNext == Start \/ SendProbe \/ OnAcked \/ OnLost \/ SentPacket \/ UpdateBandwidth \/ Tick

MTUSpec == MTUInit /\ [][MTUNext]_mtuVars

-----------------------------------------------------------------------------
(* The connection never sends packets larger than the path carries, and    *)
(* when the search ends it found the smaller of the path's MTU and the     *)
(* peer's limit up to maxMTUDiff, unless a probe that would have fit was   *)
(* lost: the binary search over (current, max] keeps both ends on the      *)
(* right side through acknowledgements and losses (mtu_discoverer.go).     *)
MTUIsFound ==
    /\ mtuCurrent <= pathMTU
    /\ mtuLimit # 0 /\ done /\ ~probeLost => Min({pathMTU, mtuLimit}) - mtuCurrent <= MaxMTUDiff + 1

(* When the pacing timer fires there is budget for a full packet: the run  *)
(* loop does not spin on a timer that has expired while SendMode keeps     *)
(* answering SendPacingLimited, and the rounding of the delay and of the   *)
(* budget fit together for every bandwidth and every budget left.          *)
PacingTimerHasBudget ==
    lastSentTime # never => Budget(Max({clock, TimeUntilSend})) >= pacerDatagramSize
=============================================================================
