------------------------------ MODULE MCTransfer ------------------------------
(***************************************************************************)
(* What moves data between two endpoints, with the fairness under which it *)
(* arrives: the packet packer, the retransmission of a stream, the repair  *)
(* of FEC blocks that are delivered in order, flow control and the         *)
(* DATAGRAM queues.  They share no state with each other here: a behaviour *)
(* is one of one component, and this module gives each the constants it is *)
(* checked with.                                                           *)
(***************************************************************************)
EXTENDS StreamTransfer, PacketPacker, FlowControl, DatagramQueue

VARIABLES
    part,    \* the component that runs
    nextSID, sndBlocks, fecRepairQueue, sent, fecLost, fecReceived, fecRcv

Fec == INSTANCE FECManager WITH
    NumSource <- 2, NumRepair <- 2, MaxBlocks <- 2, MaxLosses <- 2, Reordering <- FALSE,
    repairQueue <- fecRepairQueue, lost <- fecLost, received <- fecReceived, rcv <- fecRcv

fecVars == <<
    nextSID, sndBlocks, fecRepairQueue, sent, fecLost, fecReceived, fecRcv>>
mcVars == <<part, vars, fecVars, packVars, fcVars, dgVars>>

MCInit ==
    /\ part \in {"stream", "fec", "packing", "flow", "datagram"}
    /\ Init
    /\ Fec!Init
    /\ PackInit
    /\ part # "packing" => fecStreams = {} /\ fecSender
    /\ FlowInit
    /\ DatagramInit

MCNext ==
    /\ UNCHANGED part
    /\ \/ part = "stream" /\ Next
       \/ part # "stream" /\ UNCHANGED vars
    /\ \/ part = "fec" /\ Fec!Next
       \/ part # "fec" /\ UNCHANGED fecVars
    /\ \/ part = "packing" /\ PackNext
       \/ part # "packing" /\ UNCHANGED packVars
    /\ \/ part = "flow" /\ FlowNext
       \/ part # "flow" /\ UNCHANGED fcVars
    /\ \/ part = "datagram" /\ DatagramNext
       \/ part # "datagram" /\ UNCHANGED dgVars

(* The fairness of each component, for its own behaviours. *)
MCFairness ==
    /\ WF_vars(part = "stream" /\ \E room \in BOOLEAN : SendPacket(room))
    /\ WF_vars(part = "stream" /\ \E room \in BOOLEAN : SendProbe(room))
    /\ WF_vars(part = "stream" /\ ReceivedAck)
    /\ WF_vars(part = "stream" /\ LossTimeout)
    /\ WF_vars(part = "stream" /\ PTO)
    /\ WF_vars(part = "stream" /\ Arrives)
    /\ WF_fecVars(part = "fec" /\ Fec!PackPacket(TRUE, FALSE))
    /\ WF_fecVars(part = "fec" /\ \E pn \in DOMAIN sent : Fec!Deliver(pn))
    /\ WF_packVars(part = "packing" /\ AppendPacket)
    /\ WF_packVars(part = "packing" /\ PackCoalescedPacket)
    /\ \A s \in Streams :
          /\ WF_fcVars(part = "flow" /\ \E n \in 1 .. Total : AddBytesSent(s, n))
          /\ WF_fcVars(part = "flow" /\ Reads(s))
          /\ WF_fcVars(part = "flow" /\ Reader(s))
          /\ WF_fcVars(part = "flow" /\ QueueStreamUpdate(s))
    /\ WF_fcVars(part = "flow" /\ \E u \in updates : UpdateSendWindow(u))
    /\ WF_fcVars(part = "flow" /\ \E f \in path : UpdateHighestReceived(f))
    /\ WF_fcVars(part = "flow" /\ QueueConnUpdate)
    /\ \A a \in Adders : WF_dgVars(part = "datagram" /\ (AddSelect(a) \/ AddRetry(a)))
    /\ \A r \in Receivers : WF_dgVars(part = "datagram" /\ ReceiverStep(r))
    /\ WF_dgVars(part = "datagram" /\ Pop)

MCSpec == MCInit /\ [][MCNext]_mcVars /\ MCFairness

------------------------------------------------------------------------------
\* All that was written to a stream arrives and the stream completes, however packets are
\* lost or reordered (StreamTransfer: OnLost, PTO, isNewlyCompleted).
TransferCompletes == part = "stream" => StreamCompletes

\* manager.go: while a block loses no more symbols than it has repair symbols, all its
\* payloads are passed up, in spite of the network's losses (FECManager).
LossesAreRepaired == part = "fec" => Fec!LossesAreRepaired

\* window_update_queue.go: no window update is lost, so that all is sent (FlowControl).
UpdatesKeepFlowing == part = "flow" => EverythingIsSent
==============================================================================
