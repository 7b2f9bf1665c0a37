----------------------------- MODULE KeyUpdate -----------------------------
(***************************************************************************)
(* The 1-RTT keys of the two endpoints of a connection: updatableAEAD of   *)
(* internal/handshake/updatable_aead.go, with the calls the connection     *)
(* makes: KeyPhase and Seal when a short header packet is packed, Open     *)
(* when one arrives, SetLargestAcked for the ACK frame inside it.          *)
(*                                                                         *)
(* Keys are named by their phase, and a packet opens under exactly the key *)
(* it was sealed with; the header only shows the phase's low bit.  The     *)
(* network keeps every packet, so that it may be delivered late, again or  *)
(* never.  When a key update is due is left open: the packet counts it     *)
(* depends on (FirstKeyUpdateInterval, KeyUpdateInterval) are not modelled.*)
(***************************************************************************)
EXTENDS Integers, FiniteSetsExt

CONSTANTS
    Endpoints,
    MaxPhase,     \* bound: key updates
    MaxSealed     \* bound: packets each endpoint sends

VARIABLES
    aead,         \* per endpoint, the updatableAEAD
    sealedPkts,   \* per endpoint, the packets it sent
    openedPNs,    \* per endpoint, the packet numbers it received
    keyError      \* per endpoint, it closed the connection with KEY_UPDATE_ERROR

kuVars == <<aead, sealedPkts, openedPNs, keyError>>

InvalidPacketNumber == -1
peer(e) == CHOOSE f \in Endpoints : f # e
bit(phase) == phase % 2

newUpdatableAEAD ==
    [keyPhase |-> 0, firstRcvd |-> InvalidPacketNumber, firstSent |-> InvalidPacketNumber,
     anyRcvd |-> FALSE, largestAcked |-> InvalidPacketNumber,
     handshakeConfirmed |-> FALSE, prev |-> FALSE, dropTimer |-> FALSE]

KeysInit ==
    /\ aead = [e \in Endpoints |-> newUpdatableAEAD]
    /\ sealedPkts = [e \in Endpoints |-> {}]
    /\ openedPNs = [e \in Endpoints |-> {}]
    /\ keyError = [e \in Endpoints |-> FALSE]

\* The generation before the previous one is dropped, its timer with it.
rollKeys(a) ==
    [a EXCEPT !.keyPhase = @ + 1, !.firstRcvd = InvalidPacketNumber,
              !.firstSent = InvalidPacketNumber, !.anyRcvd = FALSE,
              !.prev = TRUE, !.dropTimer = FALSE]

-----------------------------------------------------------------------------
(* Sending.                                                                *)

updateAllowed(a) ==
    /\ a.handshakeConfirmed
    /\ \/ a.keyPhase = 0
       \/ /\ a.firstSent # InvalidPacketNumber
          /\ a.largestAcked >= a.firstSent

\* shouldInitiateKeyUpdate: updates are allowed, and enough packets passed.
KeyPhase(a) == {a} \cup (IF updateAllowed(a) /\ a.keyPhase < MaxPhase THEN {rollKeys(a)} ELSE {})

Seal(a, pn) == [a EXCEPT !.firstSent = IF @ = InvalidPacketNumber THEN pn ELSE @]

\* A packet that carries the ACK frame due, or none.
SendPacket(e) ==
    LET pn == Cardinality(sealedPkts[e]) IN
    /\ ~keyError[e]
    /\ pn < MaxSealed[e]
    /\ \E a \in KeyPhase(aead[e]),
          ack \in {InvalidPacketNumber} \cup
                  (IF openedPNs[e] = {} THEN {} ELSE {Max(openedPNs[e])}) :
          /\ aead' = [aead EXCEPT ![e] = Seal(a, pn)]
          /\ sealedPkts' = [sealedPkts EXCEPT ![e] =
                @ \cup {[pn |-> pn, keyPhase |-> a.keyPhase, ack |-> ack]}]
    /\ UNCHANGED <<openedPNs, keyError>>

-----------------------------------------------------------------------------
(* Receiving.                                                              *)

\* A packet with the other phase bit is older than the current keys if
\* nothing arrived under them, or something with a higher packet number did.
belongsToPrevious(a, p) ==
    \/ a.keyPhase > 0 /\ a.firstRcvd = InvalidPacketNumber
    \/ p.pn < a.firstRcvd

\* What open returns, with the keys it leaves.
open(a, p) ==
    IF bit(p.keyPhase) # bit(a.keyPhase)
    THEN IF belongsToPrevious(a, p)
         THEN [keys |-> a, res |-> IF ~a.prev THEN "ErrKeysDropped"
                                   ELSE IF p.keyPhase = a.keyPhase - 1 THEN "ok" ELSE "ErrDecryptionFailed"]
         ELSE IF p.keyPhase # a.keyPhase + 1
         THEN [keys |-> a, res |-> "ErrDecryptionFailed"]
         ELSE IF a.keyPhase > 0 /\ a.firstSent = InvalidPacketNumber
         THEN [keys |-> a, res |-> "KeyUpdateError"]
         ELSE [keys |-> [rollKeys(a) EXCEPT !.dropTimer = TRUE, !.firstRcvd = p.pn], res |-> "ok"]
    ELSE IF p.keyPhase # a.keyPhase
    THEN [keys |-> a, res |-> "ErrDecryptionFailed"]
    ELSE [keys |-> [a EXCEPT !.anyRcvd = TRUE,
                             !.dropTimer = @ \/ (a.firstRcvd = InvalidPacketNumber /\ a.keyPhase > 0),
                             !.firstRcvd = IF @ = InvalidPacketNumber THEN p.pn ELSE @],
          res |-> "ok"]

\* Mutant: whether anything arrived under the current keys is not asked.
ackedTooEarlyNever(a, pn) == a.firstSent # InvalidPacketNumber /\ pn >= a.firstSent

\* The peer acknowledges a packet of the current phase, and sent none itself.
ackedTooEarly(a, pn) ==
    a.firstSent # InvalidPacketNumber /\ pn >= a.firstSent /\ ~a.anyRcvd

SetLargestAcked(a, pn) == IF ackedTooEarly(a, pn) THEN a ELSE [a EXCEPT !.largestAcked = pn]

\* The previous keys may have expired when the packet arrives.  The frames of
\* a duplicate are not handled again.
ReceivePacket(e) ==
    \E p \in sealedPkts[peer(e)] :
      \E a \in {aead[e]} \cup (IF aead[e].prev /\ aead[e].dropTimer
                               THEN {[aead[e] EXCEPT !.prev = FALSE, !.dropTimer = FALSE]}
                               ELSE {}) :
        \E o \in {open(a, p)} :
          LET ackHandled == o.res = "ok" /\ p.pn \notin openedPNs[e] /\ p.ack # InvalidPacketNumber IN
          /\ ~keyError[e]
          /\ aead' = [aead EXCEPT ![e] = IF ackHandled THEN SetLargestAcked(o.keys, p.ack) ELSE o.keys]
          /\ openedPNs' = [openedPNs EXCEPT ![e] = IF o.res = "ok" THEN @ \cup {p.pn} ELSE @]
          /\ keyError' = [keyError EXCEPT ![e] = \/ o.res = "KeyUpdateError"
                                                 \/ ackHandled /\ ackedTooEarly(o.keys, p.ack)]
          /\ UNCHANGED sealedPkts

SetHandshakeConfirmed(e) ==
    /\ ~aead[e].handshakeConfirmed
    /\ aead' = [aead EXCEPT ![e].handshakeConfirmed = TRUE]
    /\ UNCHANGED <<sealedPkts, openedPNs, keyError>>

KeysNext == \E e \in Endpoints : SendPacket(e) \/ ReceivePacket(e) \/ SetHandshakeConfirmed(e)

KeysSpec == KeysInit /\ [][KeysNext]_kuVars

-----------------------------------------------------------------------------
(* Two endpoints that run this code never accuse each other of a key       *)
(* update error, whoever updates when and however packets are delayed,     *)
(* reordered or duplicated: updateAllowed and the two checks of open and   *)
(* SetLargestAcked fit together.  And every packet under way that was      *)
(* sealed with the receiver's current, next or retained previous key can   *)
(* be opened: the phase bit and the packet number together select the      *)
(* right one of the three keys.                                            *)
KeysAreFound ==
    \A e \in Endpoints :
      /\ ~keyError[e]
      /\ \A p \in sealedPkts[peer(e)] :
            \/ open(aead[e], p).res = "ok"
            \/ p.keyPhase < aead[e].keyPhase - 1
            \/ p.keyPhase = aead[e].keyPhase - 1 /\ ~aead[e].prev
=============================================================================
