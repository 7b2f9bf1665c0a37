------------------------------ MODULE MCRecovery ------------------------------
(***************************************************************************)
(* What is kept about packets and payloads in flight: the payloads that    *)
(* are recovered, the sent packets, what is acknowledged, the congestion   *)
(* window, the path's MTU and the pacer.  They share no state with each    *)
(* other here: a behaviour is one of one component, and this module gives  *)
(* each the constants it is checked with.                                  *)
(***************************************************************************)
EXTENDS FECRecovery, AckExchange, PathMTU

VARIABLES
    part,    \* the component that runs
    perspective, space, bytesInFlight, alarm, ptoMode, numProbesToSend, ptoBackoff,
    peerCompletedAddressValidation, peerAddressValidated, bytesReceived, bytesSent,
    handshakeConfirmed, appLevel, retryAllowed, retransmissionQueue, unackedFrames,
    congestionWindow, slowStartThreshold, maxDatagramSize, ccLargestSent, ccLargestAcked,
    largestSentAtLastCutback, numAckedPackets, hybrid, flight, nextPN, spaceAcked, sentCount,
    cutbackAt, strayCutback

Sent == INSTANCE SentPackets WITH
    Spaces <- {"Initial", "Handshake", "AppData"},
    MaxPN <- [Initial |-> 1, Handshake |-> 1, AppData |-> 4], MaxAmplified <- 6,
    SkipDistances <- {3}, MaxOutstandingSentPackets <- 2, MaxTrackedSentPackets <- 3

Cubic == INSTANCE Congestion WITH
    PNSpaces <- {"AppData"}, InitialDatagramSize <- 10, LargerDatagramSize <- 12,
    InitialCongestionWindow <- 40, MaxCongestionWindowPackets <- 5, HybridStartMinSamples <- 2,
    HybridStartLowWindow <- 3, MaxSent <- 5, MaxByteCount <- 1000

sentVars == <<
    perspective, space, bytesInFlight, alarm, ptoMode, numProbesToSend, ptoBackoff,
    peerCompletedAddressValidation, peerAddressValidated, bytesReceived, bytesSent,
    handshakeConfirmed, appLevel, retryAllowed, retransmissionQueue, unackedFrames>>
congestionVars == <<
    congestionWindow, slowStartThreshold, maxDatagramSize, ccLargestSent, ccLargestAcked,
    largestSentAtLastCutback, numAckedPackets, hybrid, flight, nextPN, spaceAcked, sentCount,
    cutbackAt, strayCutback>>
mcVars == <<part, vars, sentVars, axVars, congestionVars, mtuVars>>

MCInit ==
    /\ part \in {"payload", "sent", "acks", "congestion", "mtu"}
    /\ Init
    /\ Sent!Init
    /\ part # "sent" => perspective = "client"
    /\ AckInit
    /\ Cubic!Init
    /\ MTUInit
    /\ part # "mtu" => pathMTU = 12 /\ bandwidth = 3

MCNext ==
    /\ UNCHANGED part
    /\ \/ part = "payload" /\ Next
       \/ part # "payload" /\ UNCHANGED vars
    /\ \/ part = "sent" /\ Sent!Next
       \/ part # "sent" /\ UNCHANGED sentVars
    /\ \/ part = "acks" /\ AckNext
       \/ part # "acks" /\ UNCHANGED axVars
    /\ \/ part = "congestion" /\ Cubic!Next
       \/ part # "congestion" /\ UNCHANGED congestionVars
    /\ \/ part = "mtu" /\ MTUNext
       \/ part # "mtu" /\ UNCHANGED mtuVars

MCSpec == MCInit /\ [][MCNext]_mcVars

------------------------------------------------------------------------------
\* xor.go and connection.go handleRecoveredFrames: what the receiver hands up after a recovery is
\* what the sender wrote, the whole of a processed block was handed up, and both ends agree on the
\* length bytes (FECRecovery, XorScheme).
RecoveredIsWritten == part = "payload" => HandedUpIsWritten /\ ProcessedBlockHandedUp /\ LengthBytesAgree

\* sent_packet_handler.go and sent_packet_history.go: bytesInFlight is the sum over the packets
\* that are outstanding, and the history has no hole (SentPackets).
FlightIsCounted == part = "sent" => Sent!FlightIsCounted /\ Sent!HistoryIsConsecutive

\* Whenever something must happen later, a timer is set for it: the loss detection timer, the ACK
\* timer and the pacing timer (SentPackets, AckExchange, PathMTU).
AlarmsAreSet ==
    /\ part = "sent" => Sent!AlarmIsSet
    /\ part = "acks" => AckIsScheduled
    /\ part = "mtu" => PacingTimerHasBudget

\* ecn.go and cubic_sender.go: ECN is only disabled for a reason, and the window is reduced once
\* for a loss event (AckExchange, Congestion).
SignalsHaveCause ==
    /\ part = "acks" => ECNFailsForCause
    /\ part = "congestion" => Cubic!SingleLossEvent
==============================================================================
