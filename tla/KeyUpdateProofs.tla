-------------------------- MODULE KeyUpdateProofs --------------------------
(***************************************************************************)
(* Proof that the key updates of two endpoints fit together, for any       *)
(* number of updates and packets.  The invariant relates one endpoint, its *)
(* keys a, the packets S it sent and the packet numbers O it opened, to    *)
(* the other one, with b, T and Q.                                         *)
(***************************************************************************)
EXTENDS KeyUpdate, FiniteSetTheorems, WellFoundedInduction, TLAPS

\* A connection has two ends.
TwoEndpoints == \E e, f : e # f /\ Endpoints = {e, f}

PNs == Nat \cup {InvalidPacketNumber}
Packets == [pn : Nat, keyPhase : Nat, ack : PNs]
AEADs ==
    [keyPhase : Nat, firstRcvd : PNs, firstSent : PNs, anyRcvd : BOOLEAN, largestAcked : PNs,
     handshakeConfirmed : BOOLEAN, prev : BOOLEAN, dropTimer : BOOLEAN]

\* The type of every variable.
TypeOK ==
    /\ aead \in [Endpoints -> AEADs]
    /\ sealedPkts \in [Endpoints -> SUBSET Packets]
    /\ openedPNs \in [Endpoints -> SUBSET Nat]
    /\ keyError \in [Endpoints -> BOOLEAN]

\* Packet numbers count the packets.
PNsCount ==
    \A e \in Endpoints :
      /\ IsFiniteSet(sealedPkts[e])
      /\ \A p \in sealedPkts[e] : p.pn < Cardinality(sealedPkts[e])

\* The phases of an endpoint's packets rise with their packet numbers up to its
\* current one, and firstSent is where the packets of the current one start.
SealedInOrder(a, S) ==
    /\ \A p \in S : p.keyPhase <= a.keyPhase
    /\ \A p, q \in S : p.pn <= q.pn => p.keyPhase <= q.keyPhase
    /\ \A p \in S :
          p.keyPhase = a.keyPhase <=> a.firstSent # InvalidPacketNumber /\ p.pn >= a.firstSent
    /\ a.firstSent # InvalidPacketNumber => \E p \in S : p.pn = a.firstSent

\* What was opened are packets that the peer sent, none of a phase that was not
\* reached; firstRcvd is one of the current phase, and is set once one was opened.
OpenedWereSealed(a, O, T) ==
    /\ \A n \in O : \E p \in T : p.pn = n
    /\ \A p \in T : p.pn \in O =>
          /\ p.keyPhase <= a.keyPhase
          /\ p.keyPhase = a.keyPhase => a.firstRcvd # InvalidPacketNumber
    /\ a.firstRcvd # InvalidPacketNumber =>
          \E p \in T : p.pn = a.firstRcvd /\ p.keyPhase = a.keyPhase

\* An ACK travels under keys at least as new as those of the packet it is for.
AcksAreInPhase(S, O, T) ==
    \A p \in S : p.ack # InvalidPacketNumber =>
       /\ p.ack \in O
       /\ \A q \in T : q.pn = p.ack => q.keyPhase <= p.keyPhase

\* The largest acknowledged packet is one that an ACK of the peer was for.
AckedWasAcked(a, T) ==
    a.largestAcked # InvalidPacketNumber => \E p \in T : p.ack = a.largestAcked

\* The endpoints are at most one phase apart, and the one behind, unless it still
\* is in the first phase, has sent and received packets of its own phase.
OnePhaseApart(a, b) ==
    /\ b.keyPhase <= a.keyPhase + 1
    /\ b.keyPhase = a.keyPhase + 1 /\ a.keyPhase > 0 =>
          a.firstSent # InvalidPacketNumber /\ a.firstRcvd # InvalidPacketNumber

Half(a, S, O, b, T) ==
    /\ SealedInOrder(a, S)
    /\ OpenedWereSealed(a, O, T)
    /\ AcksAreInPhase(S, O, T)
    /\ AckedWasAcked(a, T)
    /\ OnePhaseApart(a, b)

Typed(a, S, O) == a \in AEADs /\ S \in SUBSET Packets /\ O \in SUBSET Nat

\* Both endpoints at once.
Pair(a, S, O, b, T, Q) ==
    /\ Typed(a, S, O) /\ Typed(b, T, Q)
    /\ Half(a, S, O, b, T) /\ Half(b, T, Q, a, S)

PairOf(e) == Pair(aead[e], sealedPkts[e], openedPNs[e],
                  aead[peer(e)], sealedPkts[peer(e)], openedPNs[peer(e)])

NoKeyError == \A e \in Endpoints : ~keyError[e]

IInv == TypeOK /\ PNsCount /\ NoKeyError /\ \A e \in Endpoints : PairOf(e)

-----------------------------------------------------------------------------
(* The keys of one endpoint.                                               *)

\* rollKeys keeps the type of the keys.
LEMMA RollType == ASSUME NEW a \in AEADs PROVE rollKeys(a) \in AEADs
<1> DEFINE r1 == [a EXCEPT !.keyPhase = @ + 1]
           r2 == [r1 EXCEPT !.firstRcvd = InvalidPacketNumber]
           r3 == [r2 EXCEPT !.firstSent = InvalidPacketNumber, !.anyRcvd = FALSE,
                            !.prev = TRUE, !.dropTimer = FALSE]
<1>1. r1 \in AEADs
    BY DEF AEADs
<1>2. r2 \in AEADs
    BY <1>1 DEF AEADs, PNs
<1>3. r3 \in AEADs
    BY <1>2 DEF AEADs, PNs
<1> QED
    BY <1>3 DEF rollKeys

\* updateAllowed and rollKeys: an endpoint updates its keys on its own only when
\* its peer has opened, and answered under the current keys.
LEMMA RollKeepsPair ==
    ASSUME NEW a, NEW S, NEW O, NEW b, NEW T, NEW Q, Pair(a, S, O, b, T, Q), updateAllowed(a)
    PROVE  Pair(rollKeys(a), S, O, b, T, Q)
<1> DEFINE r == rollKeys(a)
<1> USE DEF Pair, Typed
<1>1. /\ r \in AEADs
      /\ r.keyPhase = a.keyPhase + 1 /\ r.firstRcvd = InvalidPacketNumber
      /\ r.firstSent = InvalidPacketNumber /\ r.largestAcked = a.largestAcked
    BY RollType DEF rollKeys, AEADs
<1>2. a.keyPhase \in Nat /\ b.keyPhase \in Nat
    BY DEF AEADs
<1>3. \A p \in S \cup T : p.keyPhase \in Nat /\ p.pn \in Nat
    BY DEF Packets
<1>4. Half(r, S, O, b, T)
  <2>1. SealedInOrder(r, S)
      BY <1>1, <1>2, <1>3 DEF Half, SealedInOrder
  <2>2. OpenedWereSealed(r, O, T)
      BY <1>1, <1>2, <1>3 DEF Half, OpenedWereSealed
  <2>3. AckedWasAcked(r, T)
      BY <1>1 DEF Half, AckedWasAcked
  <2>4. OnePhaseApart(r, b)
      BY <1>1, <1>2 DEF Half, OnePhaseApart
  <2> QED
      BY <2>1, <2>2, <2>3, <2>4 DEF Half
<1>5. OnePhaseApart(b, r)
  <2>1. CASE a.keyPhase = 0
      BY <1>1, <1>2, <2>1 DEF OnePhaseApart
  <2>2. CASE a.keyPhase # 0
    <3>1. a.firstSent # InvalidPacketNumber /\ a.largestAcked >= a.firstSent
        BY <2>2 DEF updateAllowed
    <3>2. a.firstSent \in Nat /\ a.largestAcked \in Nat /\ a.largestAcked # InvalidPacketNumber
        BY <3>1 DEF AEADs, PNs, InvalidPacketNumber
    <3>3. PICK p \in T : p.ack = a.largestAcked
        BY <3>2 DEF Half, AckedWasAcked
    <3>4. p.ack \in Q /\ \A q \in S : q.pn = p.ack => q.keyPhase <= p.keyPhase
        BY <3>2, <3>3 DEF Half, AcksAreInPhase
    <3>5. PICK q \in S : q.pn = p.ack
        BY <3>4 DEF Half, OpenedWereSealed
    <3>6. q.keyPhase = a.keyPhase /\ q.keyPhase <= p.keyPhase
        BY <3>1, <3>3, <3>4, <3>5 DEF Half, SealedInOrder
    <3>7. p.keyPhase <= b.keyPhase
        BY <3>3 DEF Half, SealedInOrder
    <3>8. r.keyPhase <= b.keyPhase + 1
        BY <1>1, <1>2, <1>3, <3>6, <3>7
    <3>9. ASSUME r.keyPhase = b.keyPhase + 1
          PROVE  b.firstSent # InvalidPacketNumber /\ b.firstRcvd # InvalidPacketNumber
      <4>1. p.keyPhase = b.keyPhase /\ q.keyPhase = b.keyPhase
          BY <1>1, <1>2, <1>3, <3>6, <3>7, <3>9
      <4>2. b.firstSent # InvalidPacketNumber
          BY <4>1 DEF Half, SealedInOrder
      <4>3. b.firstRcvd # InvalidPacketNumber
          BY <3>4, <3>5, <4>1 DEF Half, OpenedWereSealed
      <4> QED
          BY <4>2, <4>3
    <3> QED
        BY <3>8, <3>9 DEF OnePhaseApart
  <2> QED
      BY <2>1, <2>2
<1> QED
    BY <1>1, <1>4, <1>5 DEF Half

\* Seal: a packet with a new number and an ACK for a packet that was opened.
LEMMA SealKeepsPair ==
    ASSUME NEW a, NEW S, NEW O, NEW b, NEW T, NEW Q, Pair(a, S, O, b, T, Q),
           NEW n \in Nat, \A p \in S : p.pn < n,
           NEW ack \in O \cup {InvalidPacketNumber}
    PROVE  Pair(Seal(a, n), S \cup {[pn |-> n, keyPhase |-> a.keyPhase, ack |-> ack]}, O, b, T, Q)
<1> DEFINE k == Seal(a, n)
           new == [pn |-> n, keyPhase |-> a.keyPhase, ack |-> ack]
           SS == S \cup {new}
<1> USE DEF Pair, Typed
<1>1. /\ k \in AEADs /\ k.keyPhase = a.keyPhase /\ k.firstRcvd = a.firstRcvd
      /\ k.largestAcked = a.largestAcked
      /\ k.firstSent = (IF a.firstSent = InvalidPacketNumber THEN n ELSE a.firstSent)
    BY DEF Seal, AEADs, PNs, InvalidPacketNumber
<1>2. new \in Packets /\ new.pn = n /\ new.keyPhase = a.keyPhase /\ new.ack = ack
    BY DEF Packets, PNs, AEADs
<1>3. a.keyPhase \in Nat /\ b.keyPhase \in Nat /\ a.firstSent \in PNs
    BY DEF AEADs
<1>4. \A p \in S \cup T : p.keyPhase \in Nat /\ p.pn \in Nat
    BY DEF Packets
<1>5. n \notin Q /\ \A p \in T : p.ack # n
  <2>1. n \notin Q
      BY <1>4 DEF Half, OpenedWereSealed
  <2> QED
      BY <2>1 DEF Half, AcksAreInPhase, InvalidPacketNumber
<1>6. k.firstSent # InvalidPacketNumber
    BY <1>1 DEF InvalidPacketNumber
<1>7. SealedInOrder(k, SS)
  <2>1. \A p \in SS : p.keyPhase <= k.keyPhase
      BY <1>1, <1>2, <1>3, <1>4 DEF Half, SealedInOrder
  <2>2. \A p, q \in SS : p.pn <= q.pn => p.keyPhase <= q.keyPhase
      BY <1>1, <1>2, <1>3, <1>4 DEF Half, SealedInOrder
  <2>3. ASSUME NEW p \in SS
        PROVE  p.keyPhase = k.keyPhase <=> p.pn >= k.firstSent
    <3>1. CASE a.firstSent = InvalidPacketNumber
        BY <1>1, <1>2, <1>3, <1>4, <3>1 DEF Half, SealedInOrder
    <3>2. CASE a.firstSent # InvalidPacketNumber /\ p \in S
        BY <1>1, <3>2 DEF Half, SealedInOrder
    <3>3. CASE a.firstSent # InvalidPacketNumber /\ p = new
      <4>1. a.firstSent <= n
        BY <1>4, <3>3 DEF Half, SealedInOrder
      <4> QED
        BY <1>1, <1>2, <3>3, <4>1
    <3> QED
        BY <3>1, <3>2, <3>3
  <2>4. \E p \in SS : p.pn = k.firstSent
      BY <1>1, <1>2 DEF Half, SealedInOrder
  <2> QED
      BY <1>6, <2>1, <2>2, <2>3, <2>4 DEF SealedInOrder
<1>8. OpenedWereSealed(k, O, T) /\ OpenedWereSealed(b, Q, SS)
    BY <1>1, <1>2, <1>5 DEF Half, OpenedWereSealed
<1>9. AcksAreInPhase(SS, O, T)
    BY <1>2 DEF Half, AcksAreInPhase, OpenedWereSealed
<1>10. AcksAreInPhase(T, Q, SS)
    BY <1>2, <1>5 DEF Half, AcksAreInPhase
<1>11. AckedWasAcked(k, T) /\ AckedWasAcked(b, SS)
    BY <1>1 DEF Half, AckedWasAcked
<1>12. OnePhaseApart(k, b) /\ OnePhaseApart(b, k)
    BY <1>1, <1>6 DEF Half, OnePhaseApart
<1>13. SealedInOrder(b, T)
    BY DEF Half
<1> QED
    BY <1>1, <1>2, <1>7, <1>8, <1>9, <1>10, <1>11, <1>12, <1>13 DEF Half

-----------------------------------------------------------------------------
(* open: a packet of the other endpoint arrives.                           *)

\* The phase bit tells neighbouring phases apart.
LEMMA BitFlips == \A k \in Nat : bit(k + 1) # bit(k)
BY DEF bit

\* What open does: it fails and changes nothing, or it finds the previous, the
\* current or the next key.
LEMMA OpenCases ==
    ASSUME NEW a \in AEADs, NEW p \in Packets
    PROVE  LET o == open(a, p) IN
           \/ o.res \in {"ErrKeysDropped", "ErrDecryptionFailed"} /\ o.keys = a
           \/ /\ o.res = "KeyUpdateError" /\ o.keys = a
              /\ p.keyPhase = a.keyPhase + 1 /\ a.keyPhase > 0 /\ a.firstSent = InvalidPacketNumber
           \/ o.res = "ok" /\ o.keys = a /\ p.keyPhase = a.keyPhase - 1
           \/ /\ o.res = "ok" /\ p.keyPhase = a.keyPhase
              /\ o.keys = [a EXCEPT !.anyRcvd = TRUE,
                             !.dropTimer = @ \/ (a.firstRcvd = InvalidPacketNumber /\ a.keyPhase > 0),
                             !.firstRcvd = IF @ = InvalidPacketNumber THEN p.pn ELSE @]
           \/ /\ o.res = "ok" /\ p.keyPhase = a.keyPhase + 1
              /\ o.keys = [rollKeys(a) EXCEPT !.dropTimer = TRUE, !.firstRcvd = p.pn]
<1> DEFINE o == open(a, p)
<1>1. CASE bit(p.keyPhase) # bit(a.keyPhase) /\ belongsToPrevious(a, p)
    BY <1>1 DEF open
<1>2. CASE bit(p.keyPhase) # bit(a.keyPhase) /\ ~belongsToPrevious(a, p)
    BY <1>2 DEF open
<1>3. CASE bit(p.keyPhase) = bit(a.keyPhase)
    BY <1>3 DEF open
<1> QED
    BY <1>1, <1>2, <1>3

\* The previous key was found: only the packet number is noted.
LEMMA OpenPrevious ==
    ASSUME NEW a, NEW S, NEW O, NEW b, NEW T, NEW Q, Pair(a, S, O, b, T, Q),
           NEW p \in T, p.keyPhase = a.keyPhase - 1
    PROVE  Pair(a, S, O \cup {p.pn}, b, T, Q)
<1> USE DEF Pair, Typed
<1>1. a.keyPhase \in Nat /\ \A q \in T : q.pn \in Nat /\ q.keyPhase \in Nat
    BY DEF AEADs, Packets
<1>2. \A q \in T : q.pn = p.pn => q.keyPhase = p.keyPhase
    BY <1>1 DEF Half, SealedInOrder
<1>3. OpenedWereSealed(a, O \cup {p.pn}, T)
    BY <1>1, <1>2 DEF Half, OpenedWereSealed
<1>4. AcksAreInPhase(S, O \cup {p.pn}, T)
    BY DEF Half, AcksAreInPhase
<1> QED
    BY <1>1, <1>3, <1>4 DEF Half

\* The current key was found: the packet is the first one of the phase, or a
\* later one.
LEMMA OpenCurrent ==
    ASSUME NEW a, NEW S, NEW O, NEW b, NEW T, NEW Q, Pair(a, S, O, b, T, Q),
           NEW p \in T, p.keyPhase = a.keyPhase, NEW drop \in BOOLEAN,
           NEW k, k = [a EXCEPT !.anyRcvd = TRUE, !.dropTimer = drop,
                                !.firstRcvd = IF @ = InvalidPacketNumber THEN p.pn ELSE @]
    PROVE  Pair(k, S, O \cup {p.pn}, b, T, Q)
<1> USE DEF Pair, Typed
<1>1. a.keyPhase \in Nat /\ b.keyPhase \in Nat /\ \A q \in T : q.pn \in Nat /\ q.keyPhase \in Nat
    BY DEF AEADs, Packets
<1>2. k \in AEADs
  <2> DEFINE k1 == [a EXCEPT !.anyRcvd = TRUE, !.dropTimer = drop]
  <2>1. k1 \in AEADs
      BY DEF AEADs
  <2> QED
      BY <1>1, <2>1 DEF AEADs, PNs
<1>3. /\ k.keyPhase = a.keyPhase /\ k.firstSent = a.firstSent /\ k.largestAcked = a.largestAcked
      /\ k.firstRcvd = IF a.firstRcvd = InvalidPacketNumber THEN p.pn ELSE a.firstRcvd
    BY DEF AEADs
<1>4. k.firstRcvd # InvalidPacketNumber
    BY <1>1, <1>3 DEF InvalidPacketNumber
<1>5. \A q \in T : q.pn = p.pn => q.keyPhase = p.keyPhase
    BY <1>1 DEF Half, SealedInOrder
<1>6. OpenedWereSealed(k, O \cup {p.pn}, T)
    BY <1>1, <1>3, <1>4, <1>5 DEF Half, OpenedWereSealed
<1>7. AcksAreInPhase(S, O \cup {p.pn}, T)
    BY DEF Half, AcksAreInPhase
<1>8. SealedInOrder(k, S) /\ AckedWasAcked(k, T)
    BY <1>3 DEF Half, SealedInOrder, AckedWasAcked
<1>9. OnePhaseApart(k, b) /\ OnePhaseApart(b, k)
    BY <1>1, <1>3, <1>4 DEF Half, OnePhaseApart
<1> QED
    BY <1>1, <1>2, <1>6, <1>7, <1>8, <1>9 DEF Half

\* The next key was found: the peer has updated, and is now in the same phase.
LEMMA OpenNext ==
    ASSUME NEW a, NEW S, NEW O, NEW b, NEW T, NEW Q, Pair(a, S, O, b, T, Q),
           NEW p \in T, p.keyPhase = a.keyPhase + 1,
           NEW k, k = [rollKeys(a) EXCEPT !.dropTimer = TRUE, !.firstRcvd = p.pn]
    PROVE  Pair(k, S, O \cup {p.pn}, b, T, Q)
<1> USE DEF Pair, Typed
<1>1. /\ a.keyPhase \in Nat /\ b.keyPhase \in Nat
      /\ \A q \in S \cup T : q.pn \in Nat /\ q.keyPhase \in Nat
    BY DEF AEADs, Packets
<1>2. k \in AEADs
    BY <1>1, RollType DEF AEADs, PNs
<1>3. /\ k.keyPhase = a.keyPhase + 1 /\ k.firstSent = InvalidPacketNumber
      /\ k.largestAcked = a.largestAcked /\ k.firstRcvd = p.pn
    BY RollType DEF AEADs, rollKeys
<1>4. k.firstRcvd # InvalidPacketNumber
    BY <1>1, <1>3 DEF InvalidPacketNumber
<1>5. b.keyPhase = a.keyPhase + 1
    BY <1>1 DEF Half, SealedInOrder, OnePhaseApart
<1>6. \A q \in T : q.pn = p.pn => q.keyPhase = p.keyPhase
    BY <1>1 DEF Half, SealedInOrder
<1>7. OpenedWereSealed(k, O \cup {p.pn}, T)
    BY <1>1, <1>3, <1>4, <1>6 DEF Half, OpenedWereSealed
<1>8. AcksAreInPhase(S, O \cup {p.pn}, T)
    BY DEF Half, AcksAreInPhase
<1>9. SealedInOrder(k, S) /\ AckedWasAcked(k, T)
    BY <1>1, <1>3 DEF Half, SealedInOrder, AckedWasAcked
<1>10. OnePhaseApart(k, b) /\ OnePhaseApart(b, k)
    BY <1>1, <1>3, <1>5 DEF OnePhaseApart
<1> QED
    BY <1>1, <1>2, <1>7, <1>8, <1>9, <1>10 DEF Half

\* SetLargestAcked: the ACK of a packet that was opened is never too early.
LEMMA AckKeepsPair ==
    ASSUME NEW a, NEW S, NEW O, NEW b, NEW T, NEW Q, Pair(a, S, O, b, T, Q),
           NEW p \in T, p.ack # InvalidPacketNumber,
           p.keyPhase < a.keyPhase \/ a.anyRcvd \/ a.firstSent = InvalidPacketNumber
    PROVE  ~ackedTooEarly(a, p.ack) /\ Pair(SetLargestAcked(a, p.ack), S, O, b, T, Q)
<1> USE DEF Pair, Typed
<1>1. /\ a.keyPhase \in Nat /\ p.ack \in Nat /\ p.keyPhase \in Nat
      /\ \A q \in S : q.pn \in Nat /\ q.keyPhase \in Nat
    BY DEF AEADs, Packets, PNs
<1>2. ~ackedTooEarly(a, p.ack)
  <2>1. SUFFICES ASSUME a.firstSent # InvalidPacketNumber, p.ack >= a.firstSent,
                        p.keyPhase < a.keyPhase
                 PROVE  FALSE
      BY DEF ackedTooEarly
  <2>2. p.ack \in Q /\ \A q \in S : q.pn = p.ack => q.keyPhase <= p.keyPhase
      BY DEF Half, AcksAreInPhase
  <2>3. PICK q \in S : q.pn = p.ack
      BY <2>2 DEF Half, OpenedWereSealed
  <2>4. q.keyPhase = a.keyPhase
      BY <2>1, <2>3 DEF Half, SealedInOrder
  <2> QED
      BY <1>1, <2>1, <2>2, <2>3, <2>4
<1> DEFINE k == [a EXCEPT !.largestAcked = p.ack]
<1>3. SetLargestAcked(a, p.ack) = k
    BY <1>2 DEF SetLargestAcked
<1>4. k \in AEADs
    BY <1>1 DEF AEADs, PNs
<1>5. /\ k.keyPhase = a.keyPhase /\ k.firstSent = a.firstSent /\ k.largestAcked = p.ack
      /\ k.firstRcvd = a.firstRcvd
    BY DEF AEADs
<1>6. SealedInOrder(k, S) /\ OpenedWereSealed(k, O, T) /\ OnePhaseApart(k, b) /\ OnePhaseApart(b, k)
    BY <1>5 DEF Half, SealedInOrder, OpenedWereSealed, OnePhaseApart
<1>7. AckedWasAcked(k, T)
    BY <1>5 DEF AckedWasAcked
<1> QED
    BY <1>2, <1>3, <1>4, <1>6, <1>7 DEF Half

\* The previous keys expire: nothing of this depends on them.
LEMMA ExpireKeepsPair ==
    ASSUME NEW a, NEW S, NEW O, NEW b, NEW T, NEW Q, Pair(a, S, O, b, T, Q),
           NEW k, k = [a EXCEPT !.prev = FALSE, !.dropTimer = FALSE]
    PROVE  Pair(k, S, O, b, T, Q)
<1> USE DEF Pair, Typed
<1>1. /\ k \in AEADs
      /\ k.keyPhase = a.keyPhase /\ k.firstSent = a.firstSent /\ k.largestAcked = a.largestAcked
      /\ k.firstRcvd = a.firstRcvd
    BY DEF AEADs
<1>2. SealedInOrder(k, S) /\ OpenedWereSealed(k, O, T) /\ AckedWasAcked(k, T)
    BY <1>1 DEF Half, SealedInOrder, OpenedWereSealed, AckedWasAcked
<1>3. OnePhaseApart(k, b) /\ OnePhaseApart(b, k)
    BY <1>1 DEF Half, OnePhaseApart
<1> QED
    BY <1>1, <1>2, <1>3 DEF Half

\* SetHandshakeConfirmed: neither does it depend on that.
LEMMA ConfirmKeepsPair ==
    ASSUME NEW a, NEW S, NEW O, NEW b, NEW T, NEW Q, Pair(a, S, O, b, T, Q)
    PROVE  Pair([a EXCEPT !.handshakeConfirmed = TRUE], S, O, b, T, Q)
<1> DEFINE k == [a EXCEPT !.handshakeConfirmed = TRUE]
<1> USE DEF Pair, Typed
<1>1. /\ k \in AEADs
      /\ k.keyPhase = a.keyPhase /\ k.firstSent = a.firstSent /\ k.largestAcked = a.largestAcked
      /\ k.firstRcvd = a.firstRcvd
    BY DEF AEADs
<1>2. SealedInOrder(k, S) /\ OpenedWereSealed(k, O, T) /\ AckedWasAcked(k, T)
    BY <1>1 DEF Half, SealedInOrder, OpenedWereSealed, AckedWasAcked
<1>3. OnePhaseApart(k, b) /\ OnePhaseApart(b, k)
    BY <1>1 DEF Half, OnePhaseApart
<1> QED
    BY <1>1, <1>2, <1>3 DEF Half

\* A whole packet: open, and the ACK frame inside unless the packet is a duplicate.
LEMMA ReceiveKeepsPair ==
    ASSUME NEW a, NEW S, NEW O, NEW b, NEW T, NEW Q, Pair(a, S, O, b, T, Q), NEW p \in T,
           NEW o, o = open(a, p)
    PROVE  /\ o.res # "KeyUpdateError"
           /\ Pair(o.keys, S, IF o.res = "ok" THEN O \cup {p.pn} ELSE O, b, T, Q)
           /\ o.res = "ok" /\ p.ack # InvalidPacketNumber =>
                 /\ ~ackedTooEarly(o.keys, p.ack)
                 /\ Pair(SetLargestAcked(o.keys, p.ack), S, O \cup {p.pn}, b, T, Q)
<1>1. /\ a \in AEADs /\ p \in Packets /\ a.keyPhase \in Nat /\ b.keyPhase \in Nat
      /\ p.keyPhase \in Nat /\ p.keyPhase <= b.keyPhase /\ OnePhaseApart(a, b)
    BY DEF Pair, Typed, Half, SealedInOrder, AEADs, Packets
<1>2. CASE o.res \in {"ErrKeysDropped", "ErrDecryptionFailed"} /\ o.keys = a
    BY <1>2
<1>3. CASE p.keyPhase = a.keyPhase + 1 /\ a.keyPhase > 0 /\ a.firstSent = InvalidPacketNumber
    BY <1>1, <1>3 DEF OnePhaseApart
<1>4. CASE o.res = "ok" /\ o.keys = a /\ p.keyPhase = a.keyPhase - 1
  <2>1. Pair(a, S, O \cup {p.pn}, b, T, Q)
      BY <1>4, OpenPrevious
  <2>2. p.ack # InvalidPacketNumber =>
           ~ackedTooEarly(a, p.ack) /\ Pair(SetLargestAcked(a, p.ack), S, O \cup {p.pn}, b, T, Q)
      BY <1>1, <1>4, <2>1, AckKeepsPair
  <2> QED
      BY <1>4, <2>1, <2>2
<1>5. CASE /\ o.res = "ok" /\ p.keyPhase = a.keyPhase
           /\ o.keys = [a EXCEPT !.anyRcvd = TRUE,
                          !.dropTimer = @ \/ (a.firstRcvd = InvalidPacketNumber /\ a.keyPhase > 0),
                          !.firstRcvd = IF @ = InvalidPacketNumber THEN p.pn ELSE @]
  <2> DEFINE drop == a.dropTimer \/ (a.firstRcvd = InvalidPacketNumber /\ a.keyPhase > 0)
  <2>1. /\ drop \in BOOLEAN
        /\ o.keys = [a EXCEPT !.anyRcvd = TRUE, !.dropTimer = drop,
                              !.firstRcvd = IF @ = InvalidPacketNumber THEN p.pn ELSE @]
      BY <1>5
  <2>2. Pair(o.keys, S, O \cup {p.pn}, b, T, Q)
    <3> HIDE DEF drop
    <3> QED
        BY <1>5, <2>1, OpenCurrent
  <2>3. o.keys.anyRcvd
      BY <1>1, <2>1 DEF AEADs
  <2>4. p.ack # InvalidPacketNumber =>
           ~ackedTooEarly(o.keys, p.ack) /\ Pair(SetLargestAcked(o.keys, p.ack), S, O \cup {p.pn}, b, T, Q)
      BY <2>2, <2>3, AckKeepsPair
  <2> QED
      BY <1>5, <2>2, <2>4
<1>6. CASE /\ o.res = "ok" /\ p.keyPhase = a.keyPhase + 1
           /\ o.keys = [rollKeys(a) EXCEPT !.dropTimer = TRUE, !.firstRcvd = p.pn]
  <2>1. Pair(o.keys, S, O \cup {p.pn}, b, T, Q)
      BY <1>6, OpenNext
  <2>2. o.keys.firstSent = InvalidPacketNumber
      BY <1>1, <1>6, RollType DEF AEADs, rollKeys
  <2>3. p.ack # InvalidPacketNumber =>
           ~ackedTooEarly(o.keys, p.ack) /\ Pair(SetLargestAcked(o.keys, p.ack), S, O \cup {p.pn}, b, T, Q)
      BY <2>1, <2>2, AckKeepsPair
  <2> QED
      BY <1>6, <2>1, <2>3
<1> QED
    BY <1>1, <1>2, <1>3, <1>4, <1>5, <1>6, OpenCases

\* The three keys an endpoint has are enough: the phase bit and the packet number
\* select the one that a packet was sealed with.
LEMMA PairFindsKeys ==
    ASSUME NEW a, NEW S, NEW O, NEW b, NEW T, NEW Q, Pair(a, S, O, b, T, Q), NEW p \in T
    PROVE  \/ open(a, p).res = "ok"
           \/ p.keyPhase < a.keyPhase - 1
           \/ p.keyPhase = a.keyPhase - 1 /\ ~a.prev
<1> USE DEF Pair, Typed
<1>1. /\ a.keyPhase \in Nat /\ b.keyPhase \in Nat /\ a.firstRcvd \in PNs
      /\ \A q \in T : q.pn \in Nat /\ q.keyPhase \in Nat
    BY DEF AEADs, Packets
<1>2. p.keyPhase <= a.keyPhase + 1
    BY <1>1 DEF Half, SealedInOrder, OnePhaseApart
<1>3. CASE p.keyPhase = a.keyPhase
    BY <1>3 DEF open
<1>4. CASE p.keyPhase = a.keyPhase - 1 /\ a.prev
  <2>1. bit(p.keyPhase) # bit(a.keyPhase)
      BY <1>1, <1>4, BitFlips
  <2>2. belongsToPrevious(a, p)
    <3>1. CASE a.firstRcvd = InvalidPacketNumber
        BY <1>1, <1>4, <3>1 DEF belongsToPrevious
    <3>2. CASE a.firstRcvd # InvalidPacketNumber
      <4>1. PICK q \in T : q.pn = a.firstRcvd /\ q.keyPhase = a.keyPhase
          BY <3>2 DEF Half, OpenedWereSealed
      <4>2. ~(q.pn <= p.pn)
          BY <1>1, <1>4, <4>1 DEF Half, SealedInOrder
      <4> QED
          BY <1>1, <4>1, <4>2 DEF belongsToPrevious
    <3> QED
        BY <3>1, <3>2
  <2> QED
      BY <1>4, <2>1, <2>2 DEF open
<1>5. CASE p.keyPhase = a.keyPhase + 1
  <2>1. bit(p.keyPhase) # bit(a.keyPhase)
      BY <1>1, <1>5, BitFlips
  <2>2. b.keyPhase = a.keyPhase + 1
      BY <1>1, <1>5 DEF Half, SealedInOrder, OnePhaseApart
  <2>3. a.keyPhase > 0 => a.firstSent # InvalidPacketNumber /\ a.firstRcvd # InvalidPacketNumber
      BY <2>2 DEF Half, OnePhaseApart
  <2>4. ~belongsToPrevious(a, p)
    <3>1. CASE a.firstRcvd = InvalidPacketNumber
        BY <1>1, <2>3, <3>1 DEF belongsToPrevious, InvalidPacketNumber
    <3>2. CASE a.firstRcvd # InvalidPacketNumber
      <4>1. PICK q \in T : q.pn = a.firstRcvd /\ q.keyPhase = a.keyPhase
          BY <3>2 DEF Half, OpenedWereSealed
      <4>2. ~(p.pn <= q.pn)
          BY <1>1, <1>5, <4>1 DEF Half, SealedInOrder
      <4> QED
          BY <1>1, <2>3, <3>2, <4>1, <4>2 DEF belongsToPrevious
    <3> QED
        BY <3>1, <3>2
  <2> QED
      BY <1>5, <2>1, <2>3, <2>4 DEF open
<1> QED
    BY <1>1, <1>2, <1>3, <1>4, <1>5

-----------------------------------------------------------------------------
(* The steps of the two endpoints.                                         *)

\* The largest element of a set of packet numbers that is bounded is in it.
LEMMA MaxInSet ==
    ASSUME NEW n \in Nat, NEW O, O \in SUBSET Nat, O # {}, \A m \in O : m < n
    PROVE  Max(O) \in O
<1> DEFINE below == {n - m : m \in O}
<1>1. below \subseteq Nat /\ below # {}
  <2>1. \A m \in O : n - m \in Nat
      OBVIOUS
  <2>2. PICK m \in O : TRUE
      OBVIOUS
  <2>3. n - m \in below
      OBVIOUS
  <2> QED
      BY <2>1, <2>3
<1>2. PICK x \in below : \A y \in below : ~(<<y, x>> \in OpToRel(<, Nat))
    BY <1>1, NatLessThanWellFounded, WFMin
<1>3. \A y \in below : y >= x
  <2>1. \A y, z \in Nat : y < z => <<y, z>> \in OpToRel(<, Nat)
      BY DEF OpToRel
  <2>2. \A y \in below : ~(y < x)
      BY <1>1, <1>2, <2>1, Zenon
  <2> QED
      BY <1>1, <2>2
<1>4. PICK m \in O : x = n - m
    OBVIOUS
<1>5. \A l \in O : m >= l
    BY <1>3, <1>4
<1> QED
    BY <1>5 DEF Max

\* Each endpoint is the other one's peer.
LEMMA Peers ==
    ASSUME TwoEndpoints, NEW e \in Endpoints
    PROVE  /\ peer(e) \in Endpoints /\ peer(e) # e /\ peer(peer(e)) = e
           /\ Endpoints = {e, peer(e)}
BY DEF TwoEndpoints, peer

\* The relation between the endpoints is symmetric.
LEMMA PairIsSymmetric ==
    ASSUME NEW a, NEW S, NEW O, NEW b, NEW T, NEW Q, Pair(a, S, O, b, T, Q)
    PROVE  Pair(b, T, Q, a, S, O)
BY DEF Pair

\* A step of one endpoint that keeps the relation to the other one keeps the invariant.
LEMMA StepOfOne ==
    ASSUME TwoEndpoints, IInv, NEW e \in Endpoints, NEW a, NEW S, NEW O,
           Pair(a, S, O, aead[peer(e)], sealedPkts[peer(e)], openedPNs[peer(e)]),
           aead' = [aead EXCEPT ![e] = a],
           sealedPkts' = [sealedPkts EXCEPT ![e] = S],
           openedPNs' = [openedPNs EXCEPT ![e] = O],
           keyError' = [keyError EXCEPT ![e] = FALSE],
           IsFiniteSet(S), \A p \in S : p.pn < Cardinality(S)
    PROVE  IInv'
<1> DEFINE f == peer(e)
<1>1. f \in Endpoints /\ f # e /\ peer(f) = e /\ Endpoints = {e, f}
    BY Peers
<1>2. Typed(a, S, O)
    BY DEF Pair
<1>3. /\ aead'[e] = a /\ sealedPkts'[e] = S /\ openedPNs'[e] = O /\ keyError'[e] = FALSE
      /\ aead'[f] = aead[f] /\ sealedPkts'[f] = sealedPkts[f] /\ openedPNs'[f] = openedPNs[f]
      /\ keyError'[f] = keyError[f]
    BY <1>1 DEF IInv, TypeOK
<1>4. TypeOK'
    BY <1>2 DEF IInv, TypeOK, Typed
<1>5. PNsCount' /\ NoKeyError'
    BY <1>1, <1>3 DEF IInv, PNsCount, NoKeyError
<1>6. PairOf(e)'
    BY <1>3 DEF PairOf
<1>7. PairOf(f)'
    BY <1>1, <1>3, PairIsSymmetric DEF PairOf
<1> QED
    BY <1>1, <1>4, <1>5, <1>6, <1>7 DEF IInv

\* What ReceivePacket does with a packet and the outcome of opening it.
Received(e, p, o) ==
    LET ackHandled == o.res = "ok" /\ p.pn \notin openedPNs[e] /\ p.ack # InvalidPacketNumber IN
    /\ ~keyError[e]
    /\ aead' = [aead EXCEPT ![e] = IF ackHandled THEN SetLargestAcked(o.keys, p.ack) ELSE o.keys]
    /\ openedPNs' = [openedPNs EXCEPT ![e] = IF o.res = "ok" THEN @ \cup {p.pn} ELSE @]
    /\ keyError' = [keyError EXCEPT ![e] = \/ o.res = "KeyUpdateError"
                                           \/ ackHandled /\ ackedTooEarly(o.keys, p.ack)]
    /\ UNCHANGED sealedPkts

\* Every step of an endpoint keeps the invariant.
LEMMA NextKeepsInv ==
    ASSUME TwoEndpoints, IInv, [KeysNext]_kuVars
    PROVE  IInv'
<1>1. ASSUME NEW e \in Endpoints, SendPacket(e)
      PROVE  IInv'
  <2> DEFINE f == peer(e)
             S == sealedPkts[e]
             n == Cardinality(S)
  <2>1. /\ f \in Endpoints /\ Pair(aead[e], S, openedPNs[e], aead[f], sealedPkts[f], openedPNs[f])
        /\ IsFiniteSet(S) /\ n \in Nat /\ \A p \in S : p.pn < n
      BY Peers, FS_CardinalityType DEF IInv, PairOf, PNsCount
  <2>2. PICK a \in KeyPhase(aead[e]),
             ack \in {InvalidPacketNumber} \cup (IF openedPNs[e] = {} THEN {} ELSE {Max(openedPNs[e])}) :
             /\ aead' = [aead EXCEPT ![e] = Seal(a, n)]
             /\ sealedPkts' = [sealedPkts EXCEPT ![e] =
                   @ \cup {[pn |-> n, keyPhase |-> a.keyPhase, ack |-> ack]}]
      BY <1>1 DEF SendPacket
  <2> DEFINE new == [pn |-> n, keyPhase |-> a.keyPhase, ack |-> ack]
             SS == S \cup {new}
  <2>3. Pair(a, S, openedPNs[e], aead[f], sealedPkts[f], openedPNs[f])
      BY <2>1, RollKeepsPair DEF KeyPhase
  <2>4. ack \in openedPNs[e] \cup {InvalidPacketNumber}
    <3>1. openedPNs[e] \in SUBSET Nat
        BY DEF IInv, TypeOK
    <3>2. /\ IsFiniteSet(sealedPkts[f]) /\ Cardinality(sealedPkts[f]) \in Nat
          /\ \A p \in sealedPkts[f] : p.pn < Cardinality(sealedPkts[f])
        BY <2>1, FS_CardinalityType DEF IInv, PNsCount
    <3>3. \A m \in openedPNs[e] : m < Cardinality(sealedPkts[f])
        BY <2>1, <3>2 DEF Pair, Half, OpenedWereSealed
    <3>4. openedPNs[e] # {} => Max(openedPNs[e]) \in openedPNs[e]
        BY <3>1, <3>2, <3>3, MaxInSet
    <3> QED
        BY <2>2, <3>4
  <2>5. Pair(Seal(a, n), SS, openedPNs[e], aead[f], sealedPkts[f], openedPNs[f])
      BY <2>1, <2>3, <2>4, SealKeepsPair
  <2>6. IsFiniteSet(SS) /\ \A p \in SS : p.pn < Cardinality(SS)
    <3>1. new \notin S
        BY <2>1
    <3>2. IsFiniteSet(SS) /\ Cardinality(SS) = n + 1
        BY <2>1, <3>1, FS_AddElement
    <3>3. \A p \in S : p.pn \in Nat
        BY <2>1 DEF Pair, Typed, Packets
    <3>4. new.pn = n /\ n < n + 1
        BY <2>1
    <3>5. \A p \in S : p.pn < n + 1
        BY <2>1, <3>3
    <3> QED
        BY <3>2, <3>4, <3>5
  <2>7. /\ sealedPkts' = [sealedPkts EXCEPT ![e] = SS]
        /\ openedPNs' = [openedPNs EXCEPT ![e] = openedPNs[e]]
        /\ keyError' = [keyError EXCEPT ![e] = FALSE]
      BY <1>1, <2>2 DEF SendPacket, IInv, TypeOK, NoKeyError
  <2> HIDE DEF SS, n
  <2> QED
      BY <2>2, <2>5, <2>6, <2>7, StepOfOne
<1>2. ASSUME NEW e \in Endpoints, ReceivePacket(e)
      PROVE  IInv'
  <2> DEFINE f == peer(e)
             S == sealedPkts[e]
             O == openedPNs[e]
  <2>1. /\ f \in Endpoints /\ Pair(aead[e], S, O, aead[f], sealedPkts[f], openedPNs[f])
        /\ IsFiniteSet(S) /\ \A p \in S : p.pn < Cardinality(S)
      BY Peers DEF IInv, PairOf, PNsCount
  <2>2. PICK p \in sealedPkts[f],
             a \in {aead[e]} \cup (IF aead[e].prev /\ aead[e].dropTimer
                                   THEN {[aead[e] EXCEPT !.prev = FALSE, !.dropTimer = FALSE]}
                                   ELSE {}) :
             Received(e, p, open(a, p))
      BY <1>2, Zenon DEF ReceivePacket, Received
  <2>3. a = aead[e] \/ a = [aead[e] EXCEPT !.prev = FALSE, !.dropTimer = FALSE]
      BY <2>2
  <2>4. PICK o : o = open(a, p) /\ Received(e, p, o)
      BY <2>2
  <2> DEFINE ackHandled == o.res = "ok" /\ p.pn \notin O /\ p.ack # InvalidPacketNumber
             keys == IF ackHandled THEN SetLargestAcked(o.keys, p.ack) ELSE o.keys
             opened == IF o.res = "ok" THEN O \cup {p.pn} ELSE O
  <2>5. Pair(a, S, O, aead[f], sealedPkts[f], openedPNs[f])
      BY <2>1, <2>3, ExpireKeepsPair
  <2>6. /\ o.res # "KeyUpdateError"
        /\ Pair(o.keys, S, opened, aead[f], sealedPkts[f], openedPNs[f])
        /\ ackHandled => /\ ~ackedTooEarly(o.keys, p.ack)
                         /\ Pair(SetLargestAcked(o.keys, p.ack), S, opened, aead[f], sealedPkts[f], openedPNs[f])
      BY <2>4, <2>5, ReceiveKeepsPair
  <2>7. Pair(keys, S, opened, aead[f], sealedPkts[f], openedPNs[f])
      BY <2>6
  <2>8. /\ aead' = [aead EXCEPT ![e] = keys]
        /\ openedPNs' = [openedPNs EXCEPT ![e] = opened]
        /\ keyError' = [keyError EXCEPT ![e] = FALSE]
      BY <2>4, <2>6 DEF Received
  <2>9. sealedPkts' = [sealedPkts EXCEPT ![e] = S]
      BY <2>4 DEF Received, IInv, TypeOK
  <2> HIDE DEF keys, opened
  <2> QED
      BY <2>1, <2>7, <2>8, <2>9, StepOfOne
<1>3. ASSUME NEW e \in Endpoints, SetHandshakeConfirmed(e)
      PROVE  IInv'
  <2> DEFINE f == peer(e)
             k == [aead[e] EXCEPT !.handshakeConfirmed = TRUE]
  <2>1. /\ Pair(aead[e], sealedPkts[e], openedPNs[e], aead[f], sealedPkts[f], openedPNs[f])
        /\ IsFiniteSet(sealedPkts[e]) /\ \A p \in sealedPkts[e] : p.pn < Cardinality(sealedPkts[e])
      BY DEF IInv, PairOf, PNsCount
  <2>2. Pair(k, sealedPkts[e], openedPNs[e], aead[f], sealedPkts[f], openedPNs[f])
      BY <2>1, ConfirmKeepsPair
  <2>3. /\ aead' = [aead EXCEPT ![e] = k]
        /\ sealedPkts' = [sealedPkts EXCEPT ![e] = sealedPkts[e]]
        /\ openedPNs' = [openedPNs EXCEPT ![e] = openedPNs[e]]
        /\ keyError' = [keyError EXCEPT ![e] = FALSE]
      BY <1>3 DEF SetHandshakeConfirmed, IInv, TypeOK, NoKeyError
  <2> HIDE DEF k
  <2> QED
      BY <2>1, <2>2, <2>3, StepOfOne
<1>4. CASE UNCHANGED kuVars
    BY <1>4 DEF kuVars, IInv, TypeOK, PNsCount, NoKeyError, PairOf
<1> QED
    BY <1>1, <1>2, <1>3, <1>4 DEF KeysNext

\* Neither endpoint has sent or opened anything yet.
LEMMA InitInv ==
    ASSUME TwoEndpoints, KeysInit
    PROVE  IInv
<1> DEFINE a == newUpdatableAEAD
<1>1. a \in AEADs
    BY DEF newUpdatableAEAD, AEADs, PNs
<1>2. Pair(a, {}, {}, a, {}, {})
    BY <1>1 DEF newUpdatableAEAD, Pair, Typed, Half, SealedInOrder, OpenedWereSealed,
                AcksAreInPhase, AckedWasAcked, OnePhaseApart
<1>3. TypeOK /\ NoKeyError
    BY <1>1 DEF KeysInit, TypeOK, NoKeyError
<1>4. PNsCount
    BY FS_EmptySet DEF KeysInit, PNsCount
<1>5. \A e \in Endpoints : PairOf(e)
    BY <1>2, Peers DEF KeysInit, PairOf
<1> QED
    BY <1>3, <1>4, <1>5 DEF IInv

\* The invariant holds of every behaviour.
THEOREM Invariance == ASSUME TwoEndpoints PROVE KeysSpec => []IInv
<1>1. KeysInit => IInv
    BY InitInv
<1>2. IInv /\ [KeysNext]_kuVars => IInv'
    BY NextKeepsInv
<1> QED
    BY <1>1, <1>2, PTL DEF KeysSpec

\* updatable_aead.go: two endpoints that run this code never close a connection with
\* KEY_UPDATE_ERROR, and open every packet for which they still have the key, whoever updates when
\* and whatever the network does, for any number of packets and of key updates.
THEOREM UpdatesFitTogether == ASSUME TwoEndpoints PROVE KeysSpec => []KeysAreFound
<1>1. IInv => KeysAreFound
  <2> SUFFICES ASSUME IInv, NEW e \in Endpoints
               PROVE  /\ ~keyError[e]
                      /\ \A p \in sealedPkts[peer(e)] :
                            \/ open(aead[e], p).res = "ok"
                            \/ p.keyPhase < aead[e].keyPhase - 1
                            \/ p.keyPhase = aead[e].keyPhase - 1 /\ ~aead[e].prev
      BY DEF KeysAreFound
  <2>1. ~keyError[e]
      BY DEF IInv, NoKeyError
  <2>2. Pair(aead[e], sealedPkts[e], openedPNs[e],
             aead[peer(e)], sealedPkts[peer(e)], openedPNs[peer(e)])
      BY DEF IInv, PairOf
  <2> QED
      BY <2>1, <2>2, PairFindsKeys
<1> QED
    BY <1>1, Invariance, PTL

=============================================================================
