-------------------------------- MODULE MCCore --------------------------------
(***************************************************************************)
(* The two halves of the core: the FEC manager of a connection, on a       *)
(* network that reorders, duplicates and loses packets, and the run loop   *)
(* with its send queue.  They share no state with each other here: a       *)
(* behaviour is one of one of them.                                        *)
(***************************************************************************)
EXTENDS FECManager, RunLoop

VARIABLE part   \* the component that runs

mcVars == <<part, vars, runVars>>

MCInit ==
    /\ part \in {"fec", "loop"}
    /\ Init
    /\ LoopInit

MCNext ==
    /\ UNCHANGED part
    /\ \/ part = "fec" /\ Next
       \/ part # "fec" /\ UNCHANGED vars
    /\ \/ part = "loop" /\ LoopNext
       \/ part # "loop" /\ UNCHANGED runVars

(* The run loop and the writer of its send queue are goroutines that are scheduled. *)
MCFairness ==
    /\ WF_runVars(part = "loop" /\ LoopStep)
    /\ WF_runVars(part = "loop" /\ Writer)

MCSpec == MCInit /\ [][MCNext]_mcVars /\ MCFairness
==============================================================================
