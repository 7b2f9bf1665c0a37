----------------------------- MODULE FECDelivery -----------------------------
(***************************************************************************)
(* What the erasure code promises its user, whatever the block size, the   *)
(* code and the network: payloads are numbered in the order in which they  *)
(* are protected; a step of the receiver hands up payloads that were       *)
(* protected and had not been handed up before, each of them once; and a   *)
(* payload that arrives itself is handed up then, unless it was recovered  *)
(* earlier.                                                                *)
(***************************************************************************)
EXTENDS Naturals

CONSTANT Payloads   \* the numbers that payloads may get

VARIABLES
    protected,  \* how many payloads have been given a source symbol ID
    arrived,    \* the payloads that arrived in their own SOURCE_SYMBOL frame
    handedUp    \* how often each payload has been handed up

dvars == <<protected, arrived, handedUp>>

Init ==
    /\ protected = 0
    /\ arrived = {}
    /\ handedUp = [s \in Payloads |-> 0]

Protect ==
    /\ protected' = protected + 1
    /\ UNCHANGED <<arrived, handedUp>>

\* A packet is handled: own is the payload it carries, if any, and new are the
\* payloads that reach the frame handlers.
HandUp(own, new) ==
    /\ arrived' = arrived \cup own
    /\ handedUp' = [s \in Payloads |-> IF s \in new THEN handedUp[s] + 1 ELSE handedUp[s]]
    /\ \A s \in own : handedUp'[s] = 1
    /\ UNCHANGED protected

Known == 0 .. (protected - 1)

Next ==
    \/ Protect
    \/ \E own \in {{}} \cup {{s} : s \in Known \ arrived},
          new \in SUBSET {s \in Known : handedUp[s] = 0} : HandUp(own, new)

Spec == Init /\ [][Next]_dvars
=============================================================================
