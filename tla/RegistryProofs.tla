---------------------------- MODULE RegistryProofs ----------------------------
(***************************************************************************)
(* Proofs about the three components that keep a registry of connections:  *)
(* the connection IDs and the packetHandlerMap they are entered in, the    *)
(* server with its queues of early packets and of accepted connections,    *)
(* and the HTTP/3 client's cache of connections.  Each has an inductive    *)
(* invariant (IDInv, ServerInv, ClientInv) that is preserved action by     *)
(* action.                                                                 *)
(***************************************************************************)
EXTENDS ConnectionIDs, HTTP3Client, Server, FiniteSetTheorems, SequenceTheorems, WellFoundedInduction, TLAPS

-----------------------------------------------------------------------------
(* Connection IDs (conn_id_manager.go, conn_id_generator.go, packet_handler_map.go). *)
\* Types.
IDType ==
    /\ highestSeq \in Nat /\ activeSeq \in Nat /\ highestRetired \in Nat
    /\ activeSrcConnIDs \in SUBSET Nat /\ cidQueue \in SUBSET Nat /\ toRetire \in SUBSET Nat
    /\ newFrames \in SUBSET [seq: Nat, prior: Nat]
    /\ cidPath \in SUBSET [dest: Nat, retire: Nat \cup {InitialID}]
    /\ retiring \in SUBSET Int

\* The manager's IDs are in order: the ones it retires lie below the one it uses, the
\* ones it keeps above, and no packet retires the ID it is sent to.
OrderInv ==
    /\ activeSeq <= highestSeq /\ highestRetired <= activeSeq
    /\ \A s \in cidQueue : activeSeq < s /\ s <= highestSeq
    /\ \A s \in toRetire : s < activeSeq
    /\ \A p \in cidPath : p.dest <= activeSeq /\ p.retire < p.dest
    /\ \A f \in newFrames : f.prior <= f.seq /\ f.seq <= highestSeq

\* The issuer still has every ID that the manager uses or may come to use, and never
\* more than the manager keeps.
IssuedInv ==
    /\ \A s \in Nat : (activeSeq <= s /\ s <= highestSeq) => s \in activeSrcConnIDs
    /\ \A s \in activeSrcConnIDs : s <= highestSeq
    /\ IsFiniteSet(activeSrcConnIDs)
    /\ Cardinality(activeSrcConnIDs) <= MaxActiveConnectionIDs

\* Open connection: the packetHandlerMap has the IDs in use and the ones with a timer,
\* and packets on their way use one of these.
HandlersInv ==
    /\ DOMAIN handlers = srcIDs \cup retiring
    /\ \A id \in DOMAIN handlers : handlers[id] = "conn"
    /\ srcIDs \cap retiring = {}
    /\ \A id \in retiring : id <= highestSeq
    /\ \A p \in cidPath : p.dest \in activeSrcConnIDs \cup retiring

\* The manager has the reset token of the ID in use, once there is one.
TokenInv ==
    /\ resetTokens = IF hasResetToken /\ ~dstClosed THEN {activeSeq} ELSE {}
    /\ ~cidHandshakeComplete => activeSeq = 0 /\ ~hasResetToken

IDInv ==
    /\ IDType /\ OrderInv /\ IssuedInv /\ TokenInv
    /\ ~srcClosed => HandlersInv
    /\ NoHandlerLeft
    /\ ~cidErr

-----------------------------------------------------------------------------
\* The first ID of a queue.
LEMMA MinOfQueue ==
    ASSUME NEW S \in SUBSET Nat, S # {}
    PROVE  Min(S) \in S /\ \A y \in S : Min(S) <= y
<1>1. PICK x \in S : \A y \in S : ~ <<y, x>> \in OpToRel(<, Nat)
    BY NatLessThanWellFounded, WFMin
<1>2. \A y \in S : ~(y < x)
    BY <1>1 DEF OpToRel
<1>3. \A y \in S : x <= y
    BY <1>2
<1> QED
    BY <1>3 DEF Min

\* The two cases of issuing after a retirement, and of none.
LEMMA NoIDs == ASSUME NEW h \in Nat PROVE (h + 1) .. (h + 0) = {}
OBVIOUS
\* Two IDs are issued one after the other.
LEMMA OneID == ASSUME NEW h \in Nat PROVE (h + 1) .. (h + 1) = {h + 1}
OBVIOUS

\* Steps of the issuer that keep its IDs and the manager.
LEMMA SourceStep ==
    ASSUME IDInv, UNCHANGED <<highestSeq, activeSrcConnIDs, newFrames, dstVars, cidErr>>,
           cidPath' \subseteq cidPath, retiring' \in SUBSET Int,
           ~srcClosed' => HandlersInv', NoHandlerLeft'
    PROVE  IDInv'
<1>1. UNCHANGED <<activeSeq, cidQueue, highestRetired, cidHandshakeComplete, resetTokens, hasResetToken,
                  toRetire, dstClosed>>
    BY DEF dstVars
<1>2. IDType'
    BY <1>1 DEF IDInv, IDType
<1>3. OrderInv'
    BY <1>1 DEF IDInv, OrderInv
<1>4. IssuedInv'
    BY <1>1 DEF IDInv, IssuedInv
<1>5. TokenInv'
    BY <1>1 DEF IDInv, TokenInv
<1>6. ~cidErr'
    BY DEF IDInv
<1> QED
    BY <1>2, <1>3, <1>4, <1>5, <1>6 DEF IDInv

\* SetMaxActiveConnIDs issues the IDs the peer has room for: the one of the handshake counts.
LEMMA SetMaxActiveConnIDsInv ==
    ASSUME IDInv, SetMaxActiveConnIDs
    PROVE  IDInv'
<1> DEFINE limit == IF MaxActiveConnectionIDs < MaxIssuedConnectionIDs THEN MaxActiveConnectionIDs
                    ELSE MaxIssuedConnectionIDs
<1> DEFINE n == limit - Cardinality(activeSrcConnIDs)
<1> DEFINE seqs == (highestSeq + 1) .. (highestSeq + n)
<1>1. highestSeq = 0 /\ activeSeq = 0 /\ ~srcClosed
    BY DEF SetMaxActiveConnIDs, IDInv, IDType, OrderInv
<1>2. activeSrcConnIDs = {0}
  <2>1. 0 \in activeSrcConnIDs
      BY <1>1 DEF IDInv, IssuedInv
  <2>2. \A s \in activeSrcConnIDs : s = 0
      BY <1>1 DEF IDInv, IssuedInv, IDType
  <2> QED
      BY <2>1, <2>2
<1>3. Cardinality(activeSrcConnIDs) = 1
    BY <1>2, FS_Singleton
<1>4. limit \in Nat /\ limit >= 1 /\ limit <= MaxActiveConnectionIDs /\ MaxActiveConnectionIDs \in Nat
    BY IDLimitAssumption
<1>5. n \in Nat /\ n = limit - 1
    BY <1>3, <1>4
<1>6. /\ highestSeq' = highestSeq + n
      /\ activeSrcConnIDs' = activeSrcConnIDs \cup seqs
      /\ handlers' = [id \in DOMAIN handlers \cup seqs |-> IF id \in seqs THEN "conn" ELSE handlers[id]]
      /\ newFrames' = newFrames \cup {[seq |-> s, prior |-> 0] : s \in seqs}
    BY DEF SetMaxActiveConnIDs, issueNewConnIDs
<1>7. UNCHANGED <<initialClientDest, retiring, srcClosed, cidPath, cidErr, activeSeq, cidQueue,
                  highestRetired, cidHandshakeComplete, resetTokens, hasResetToken, toRetire, dstClosed>>
    BY DEF SetMaxActiveConnIDs, dstVars
<1>8. seqs = 1 .. n /\ \A s \in seqs : s \in Int /\ ~(s <= 0)
    BY <1>1, <1>5
<1> HIDE DEF n
<1>9. IDType'
  <2>1. highestSeq' \in Nat /\ activeSrcConnIDs' \in SUBSET Nat
      BY <1>1, <1>2, <1>5, <1>6, <1>8
  <2>2. newFrames' \in SUBSET [seq: Nat, prior: Nat]
      BY <1>6, <1>8 DEF IDInv, IDType
  <2> QED
      BY <1>7, <2>1, <2>2 DEF IDInv, IDType
<1>10. OrderInv'
  <2>1. highestSeq' = n
      BY <1>1, <1>5, <1>6
  <2>2. \A f \in newFrames' : f.prior <= f.seq /\ f.seq <= highestSeq'
      BY <1>1, <1>5, <1>6, <1>8, <2>1 DEF IDInv, OrderInv, IDType
  <2>3. \A s \in cidQueue : FALSE
      BY <1>1 DEF IDInv, OrderInv, IDType
  <2> QED
      BY <1>1, <1>5, <1>7, <2>1, <2>2, <2>3 DEF IDInv, OrderInv
<1>11. IssuedInv'
  <2>1. activeSrcConnIDs' = 0 .. n /\ highestSeq' = n
      BY <1>1, <1>2, <1>5, <1>6, <1>8
  <2>2. IsFiniteSet(0 .. n) /\ Cardinality(0 .. n) = n + 1
    <3>1. 0 \in Int /\ n \in Int /\ ~(0 > n)
        BY <1>5
    <3>2. IsFiniteSet(0 .. n) /\ Cardinality(0 .. n) = (n - 0) + 1
        BY <3>1, FS_Interval, Zenon
    <3> QED
        BY <1>5, <3>2
  <2>3. n + 1 <= MaxActiveConnectionIDs
      BY <1>4, <1>5
  <2> QED
      BY <1>1, <1>5, <1>7, <2>1, <2>2, <2>3 DEF IssuedInv
<1>12. HandlersInv'
  <2>1. srcIDs' = srcIDs \cup seqs
      BY <1>6, <1>7 DEF srcIDs
  <2>2. HandlersInv
      BY <1>1 DEF IDInv
  <2>3. DOMAIN handlers' = srcIDs' \cup retiring'
      BY <1>6, <1>7, <2>1, <2>2 DEF HandlersInv
  <2>4. \A id \in DOMAIN handlers' : handlers'[id] = "conn"
      BY <1>6, <2>2 DEF HandlersInv
  <2>5. \A id \in retiring : id <= 0
      BY <1>1, <2>2 DEF HandlersInv
  <2>6. \A s \in seqs : s \notin retiring
      BY <1>8, <2>5
  <2>7. \A id \in retiring' : id <= highestSeq'
      BY <1>1, <1>5, <1>6, <1>7, <2>5 DEF IDInv, IDType
  <2>8. \A p \in cidPath' : p.dest \in activeSrcConnIDs' \cup retiring'
      BY <1>6, <1>7, <2>2 DEF HandlersInv
  <2> QED
      BY <1>7, <2>1, <2>2, <2>3, <2>4, <2>6, <2>7, <2>8 DEF HandlersInv
<1>13. TokenInv' /\ ~cidErr' /\ NoHandlerLeft'
    BY <1>1, <1>7 DEF IDInv, TokenInv, NoHandlerLeft
<1> QED
    BY <1>9, <1>10, <1>11, <1>12, <1>13 DEF IDInv

\* A packet is handled: Retire finds no error, gives the ID a timer and issues at most
\* one in its place.
LEMMA HandlePacketOfInv ==
    ASSUME IDInv, NEW p \in cidPath, HandlePacketOf(p)
    PROVE  IDInv'
<1> DEFINE seq == p.retire
<1>1. ~srcClosed /\ cidPath' = cidPath \ {p} /\ UNCHANGED <<initialClientDest, srcClosed, dstVars>>
    BY DEF HandlePacketOf
<1>2. HandlersInv
    BY <1>1 DEF IDInv
<1>3. /\ highestSeq \in Nat /\ activeSeq \in Nat /\ seq \in Int /\ p.dest \in Nat
      /\ seq < p.dest /\ p.dest <= activeSeq /\ activeSeq <= highestSeq
    BY DEF IDInv, IDType, OrderInv, InitialID
<1>4. CASE UNCHANGED <<highestSeq, activeSrcConnIDs, handlers, newFrames, retiring, cidErr>>
  <2>1. HandlersInv'
      BY <1>1, <1>2, <1>4 DEF HandlersInv, srcIDs
  <2> QED
      BY <1>1, <1>4, <2>1, SourceStep DEF IDInv, IDType, NoHandlerLeft
<1>5. ASSUME seq \in activeSrcConnIDs, NEW prior \in RetirePriorTos, prior <= highestSeq + 1,
             Retire(seq, p.dest, prior)
      PROVE  IDInv'
  <2> DEFINE n == IF isReplaced(seq) /\ highestSeq < MaxSeq THEN 1 ELSE 0
  <2> DEFINE seqs == (highestSeq + 1) .. (highestSeq + n)
  <2>1. ~(seq > highestSeq \/ (seq \in activeSrcConnIDs /\ seq = p.dest))
      BY <1>3
  <2>2. /\ retiring' = retiring \cup {seq} /\ UNCHANGED cidErr
        /\ highestSeq' = highestSeq + n
        /\ activeSrcConnIDs' = (activeSrcConnIDs \ {seq}) \cup seqs
        /\ handlers' = [id \in DOMAIN handlers \cup seqs |-> IF id \in seqs THEN "conn" ELSE handlers[id]]
        /\ newFrames' = newFrames \cup {[seq |-> s, prior |-> prior] : s \in seqs}
      BY <1>5, <2>1 DEF Retire, issueNewConnIDs
  <2>3. n \in {0, 1} /\ n \in Nat
      OBVIOUS
  <2> HIDE DEF n
  <2>4. \A s \in seqs : s \in Nat /\ s = highestSeq + 1 /\ s = highestSeq'
      BY <1>3, <2>2, <2>3
  <2>5. n = 1 => seqs = {highestSeq + 1}
      BY <1>3, OneID
  <2>6. n = 0 => seqs = {}
      BY <1>3, NoIDs
  <2> HIDE DEF seqs
  <2>7. highestSeq' \in Nat /\ highestSeq' >= highestSeq
      BY <1>3, <2>2, <2>3
  <2>8. UNCHANGED <<activeSeq, cidQueue, highestRetired, cidHandshakeComplete, resetTokens, hasResetToken,
                    toRetire, dstClosed>>
      BY <1>1 DEF dstVars
  <2>9. prior \in Nat
      BY IDBoundAssumption
  <2>10. seq \in Nat
      BY <1>5 DEF IDInv, IDType
  <2>11. IDType'
    <3>1. activeSrcConnIDs' \in SUBSET Nat /\ retiring' \in SUBSET Int
      <4>1. activeSrcConnIDs \in SUBSET Nat /\ retiring \in SUBSET Int
          BY DEF IDInv, IDType
      <4>2. activeSrcConnIDs' \in SUBSET Nat
          BY <2>2, <2>4, <4>1
      <4>3. retiring' \in SUBSET Int
        <5>1. retiring' = retiring \cup {seq}
            BY <2>2
        <5> QED
            BY <1>3, <4>1, <5>1
      <4> QED
          BY <4>2, <4>3
    <3>2. newFrames' \in SUBSET [seq: Nat, prior: Nat]
        BY <2>2, <2>4, <2>9 DEF IDInv, IDType
    <3> QED
        BY <1>1, <2>7, <2>8, <3>1, <3>2 DEF IDInv, IDType
  <2>12. OrderInv'
    <3>1. \A f \in newFrames' : f.prior <= f.seq /\ f.seq <= highestSeq'
      <4>1. \A f \in newFrames : f.seq \in Nat /\ f.prior <= f.seq /\ f.seq <= highestSeq
          BY DEF IDInv, IDType, OrderInv
      <4>2. \A f \in newFrames' : f \in newFrames \/ \E s \in seqs : f = [seq |-> s, prior |-> prior]
          BY <2>2
      <4>3. \A s \in seqs : prior <= s /\ s <= highestSeq'
          BY <1>5, <2>4, <2>7
      <4> QED
          BY <1>3, <2>7, <4>1, <4>2, <4>3
    <3>2. \A s \in cidQueue' : activeSeq' < s /\ s <= highestSeq'
        BY <1>3, <2>7, <2>8 DEF IDInv, IDType, OrderInv
    <3>3. activeSeq' <= highestSeq'
        BY <1>3, <2>7, <2>8
    <3> QED
        BY <1>1, <2>8, <3>1, <3>2, <3>3 DEF IDInv, OrderInv
  <2>13. IssuedInv'
    <3>1. \A s \in Nat : (activeSeq' <= s /\ s <= highestSeq') => s \in activeSrcConnIDs'
      <4> SUFFICES ASSUME NEW s \in Nat, activeSeq <= s, s <= highestSeq'
                   PROVE  s \in activeSrcConnIDs'
          BY <2>8
      <4>1. s # seq
          BY <1>3
      <4>2. s <= highestSeq \/ (n = 1 /\ s = highestSeq + 1)
          BY <1>3, <2>2, <2>3
      <4> QED
          BY <2>2, <2>5, <4>1, <4>2 DEF IDInv, IssuedInv
    <3>2. \A s \in activeSrcConnIDs' : s <= highestSeq'
      <4>1. \A s \in activeSrcConnIDs : s \in Nat /\ s <= highestSeq
          BY DEF IDInv, IDType, IssuedInv
      <4>2. \A s \in activeSrcConnIDs : s <= highestSeq'
          BY <1>3, <2>7, <4>1
      <4>3. \A s \in seqs : s <= highestSeq'
          BY <2>4, <2>7
      <4> QED
          BY <2>2, <4>2, <4>3
    <3>3. /\ IsFiniteSet(activeSrcConnIDs \ {seq})
          /\ Cardinality(activeSrcConnIDs \ {seq}) = Cardinality(activeSrcConnIDs) - 1
          /\ Cardinality(activeSrcConnIDs) \in Nat
        BY <1>5, FS_RemoveElement, FS_CardinalityType DEF IDInv, IssuedInv
    <3>4. CASE n = 0
      <4>1. activeSrcConnIDs' = activeSrcConnIDs \ {seq}
          BY <2>2, <2>6, <3>4
      <4>2. Cardinality(activeSrcConnIDs') <= MaxActiveConnectionIDs
          BY <3>3, <4>1, IDLimitAssumption DEF IDInv, IssuedInv
      <4> QED
          BY <3>1, <3>2, <3>3, <4>1, <4>2 DEF IssuedInv
    <3>5. CASE n = 1
      <4>1. activeSrcConnIDs' = (activeSrcConnIDs \ {seq}) \cup {highestSeq + 1}
          BY <2>2, <2>5, <3>5
      <4>2. highestSeq + 1 \notin activeSrcConnIDs \ {seq}
          BY <1>3 DEF IDInv, IssuedInv
      <4>3. IsFiniteSet(activeSrcConnIDs') /\ Cardinality(activeSrcConnIDs') = Cardinality(activeSrcConnIDs \ {seq}) + 1
          BY <3>3, <4>1, <4>2, FS_AddElement
      <4>4. Cardinality(activeSrcConnIDs') <= MaxActiveConnectionIDs
          BY <3>3, <4>3, IDLimitAssumption DEF IDInv, IssuedInv
      <4> QED
          BY <3>1, <3>2, <4>3, <4>4 DEF IssuedInv
    <3> QED
        BY <2>3, <3>4, <3>5
  <2>14. HandlersInv'
    <3>1. seq \notin retiring /\ seq # InitialID
        BY <1>2, <1>5, <2>10 DEF HandlersInv, srcIDs, InitialID
    <3>2. \A s \in seqs : s \notin retiring /\ s # InitialID /\ s # seq
        BY <1>2, <1>3, <2>4 DEF HandlersInv, InitialID, IDInv, IDType
    <3>3. srcIDs' = (srcIDs \ {seq}) \cup seqs
        BY <1>1, <2>2, <3>1 DEF srcIDs
    <3>4. seq \in srcIDs
        BY <1>5 DEF srcIDs
    <3>5. DOMAIN handlers' = srcIDs' \cup retiring'
      <4>1. DOMAIN handlers' = DOMAIN handlers \cup seqs
          BY <2>2
      <4> QED
          BY <1>2, <2>2, <3>3, <3>4, <4>1 DEF HandlersInv
    <3>6. \A id \in DOMAIN handlers' : handlers'[id] = "conn"
        BY <1>2, <2>2 DEF HandlersInv
    <3>7. srcIDs' \cap retiring' = {}
        BY <1>2, <2>2, <3>2, <3>3 DEF HandlersInv
    <3>8. \A id \in retiring' : id <= highestSeq'
        BY <1>2, <1>3, <2>2, <2>7 DEF HandlersInv, IDInv, IDType
    <3>9. \A q \in cidPath' : q.dest \in activeSrcConnIDs' \cup retiring'
        BY <1>1, <1>2, <2>2 DEF HandlersInv
    <3> QED
        BY <3>5, <3>6, <3>7, <3>8, <3>9 DEF HandlersInv
  <2>15. TokenInv' /\ ~cidErr' /\ NoHandlerLeft'
      BY <1>1, <2>2, <2>8 DEF IDInv, TokenInv, NoHandlerLeft
  <2> QED
      BY <2>11, <2>12, <2>13, <2>14, <2>15 DEF IDInv
<1>6. CASE p.dest \in DOMAIN handlers /\ handlers[p.dest] = "conn" /\ p.retire # InitialID
  <2>1. PICK prior \in RetirePriorTos : prior <= highestSeq + 1 /\ Retire(seq, p.dest, prior)
      BY <1>6 DEF HandlePacketOf
  <2>2. CASE seq \in activeSrcConnIDs
      BY <1>5, <2>1, <2>2
  <2>3. CASE seq \notin activeSrcConnIDs
    <3>1. ~(seq > highestSeq)
        BY <1>3
    <3> QED
        BY <1>4, <2>1, <2>3, <3>1 DEF Retire
  <2> QED
      BY <2>2, <2>3
<1> QED
    BY <1>4, <1>6 DEF HandlePacketOf

\* The client's own ID gets a timer.
LEMMA SrcHandshakeCompleteInv ==
    ASSUME IDInv, SrcHandshakeComplete
    PROVE  IDInv'
<1>1. /\ ~srcClosed /\ initialClientDest /\ ~initialClientDest' /\ retiring' = retiring \cup {InitialID}
      /\ UNCHANGED <<highestSeq, activeSrcConnIDs, handlers, srcClosed, newFrames, dstVars, cidPath, cidErr>>
    BY DEF SrcHandshakeComplete
<1>2. HandlersInv
    BY <1>1 DEF IDInv
<1>3. activeSrcConnIDs \in SUBSET Nat /\ highestSeq \in Nat
    BY DEF IDInv, IDType
<1>4. srcIDs' = activeSrcConnIDs /\ srcIDs = activeSrcConnIDs \cup {InitialID}
    BY <1>1 DEF srcIDs
<1>5. InitialID \notin activeSrcConnIDs /\ InitialID <= highestSeq
    BY <1>3 DEF InitialID
<1>6. HandlersInv'
    BY <1>1, <1>2, <1>4, <1>5 DEF HandlersInv
<1> QED
    BY <1>1, <1>6, SourceStep DEF IDInv, IDType, NoHandlerLeft, InitialID

\* A timer deletes an entry that no packet on its way uses.
LEMMA RetireTimerInv ==
    ASSUME IDInv, NEW id \in retiring, RetireTimer(id)
    PROVE  IDInv'
<1>1. /\ \A p \in cidPath : p.dest # id
      /\ retiring' = retiring \ {id}
      /\ handlers' = [i \in DOMAIN handlers \ {id} |-> handlers[i]]
      /\ UNCHANGED <<highestSeq, activeSrcConnIDs, initialClientDest, srcClosed, newFrames, dstVars, cidPath, cidErr>>
    BY DEF RetireTimer
<1>2. srcIDs' = srcIDs
    BY <1>1 DEF srcIDs
<1>3. ~srcClosed' => HandlersInv'
    BY <1>1, <1>2 DEF IDInv, HandlersInv
<1>4. NoHandlerLeft'
    BY <1>1 DEF IDInv, NoHandlerLeft
<1> QED
    BY <1>1, <1>3, <1>4, SourceStep DEF IDInv, IDType

\* A connection that ends deletes its entries, or replaces them and gives each a timer.
LEMMA CloseSourceInv ==
    ASSUME IDInv, NEW by \in {"destroy", "closedLocal", "closedRemote"}, CloseSource(by)
    PROVE  IDInv'
<1>1. /\ ~srcClosed /\ srcClosed'
      /\ UNCHANGED <<highestSeq, activeSrcConnIDs, initialClientDest, newFrames, dstVars, cidPath, cidErr>>
    BY DEF CloseSource
<1>2. DOMAIN handlers = srcIDs \cup retiring
    BY <1>1 DEF IDInv, HandlersInv
<1>3. CASE by = "destroy"
  <2>1. handlers' = [i \in DOMAIN handlers \ srcIDs |-> handlers[i]] /\ retiring' = retiring
      BY <1>3 DEF CloseSource
  <2>2. NoHandlerLeft'
      BY <1>2, <2>1 DEF NoHandlerLeft
  <2> QED
      BY <1>1, <2>1, <2>2, SourceStep DEF IDInv, IDType
<1>4. CASE by # "destroy"
  <2>1. /\ DOMAIN handlers' = DOMAIN handlers \cup srcIDs
        /\ retiring' = retiring \cup srcIDs
      BY <1>4 DEF CloseSource
  <2>2. NoHandlerLeft'
      BY <1>2, <2>1 DEF NoHandlerLeft
  <2>3. retiring' \in SUBSET Int
      BY <2>1 DEF IDInv, IDType, srcIDs, InitialID
  <2> QED
      BY <1>1, <2>2, <2>3, SourceStep
<1> QED
    BY <1>3, <1>4

-----------------------------------------------------------------------------
(* The manager *)

\* Steps of the manager: the ID it uses only grows, and packets are sent to IDs that the
\* issuer has.
LEMMA ManagerStep ==
    ASSUME IDInv, UNCHANGED srcVars, IDType', OrderInv', TokenInv', ~cidErr', activeSeq <= activeSeq',
           \A p \in cidPath' : p \in cidPath \/ p.dest \in activeSrcConnIDs
    PROVE  IDInv'
<1>1. UNCHANGED <<highestSeq, activeSrcConnIDs, initialClientDest, handlers, retiring, srcClosed, newFrames>>
    BY DEF srcVars
<1>2. activeSeq \in Nat /\ activeSeq' \in Nat
    BY DEF IDInv, IDType
<1>3. IssuedInv'
  <2>1. \A s \in Nat : activeSeq' <= s => activeSeq <= s
      BY <1>2
  <2> QED
      BY <1>1, <2>1 DEF IDInv, IssuedInv
<1>4. ~srcClosed' => HandlersInv'
    BY <1>1 DEF IDInv, HandlersInv, srcIDs
<1>5. NoHandlerLeft'
    BY <1>1 DEF IDInv, NoHandlerLeft
<1> QED
    BY <1>3, <1>4, <1>5 DEF IDInv

\* The queue never gets too long: the issuer has all its IDs and the one in use.
LEMMA QueueFits ==
    ASSUME IDInv, NEW Q \in SUBSET Nat, NEW a \in Nat, activeSeq <= a, a <= highestSeq,
           \A s \in Q : a < s /\ s <= highestSeq
    PROVE  ~(Cardinality(Q) >= MaxActiveConnectionIDs)
<1>1. activeSeq \in Nat /\ highestSeq \in Nat /\ MaxActiveConnectionIDs \in Nat
    BY IDLimitAssumption DEF IDInv, IDType
<1>2. Q \cup {a} \subseteq activeSrcConnIDs
    BY <1>1 DEF IDInv, IssuedInv
<1>3. IsFiniteSet(activeSrcConnIDs) /\ Cardinality(activeSrcConnIDs) <= MaxActiveConnectionIDs
    BY DEF IDInv, IssuedInv
<1>4. IsFiniteSet(Q \cup {a}) /\ Cardinality(Q \cup {a}) <= Cardinality(activeSrcConnIDs)
    BY <1>2, <1>3, FS_Subset
<1>5. IsFiniteSet(Q)
    BY <1>2, <1>3, FS_Subset
<1>6. a \notin Q
    OBVIOUS
<1>7. Cardinality(Q \cup {a}) = Cardinality(Q) + 1
    BY <1>5, <1>6, FS_AddElement
<1>8. Cardinality(Q) \in Nat /\ Cardinality(activeSrcConnIDs) \in Nat
    BY <1>3, <1>5, FS_CardinalityType
<1> QED
    BY <1>1, <1>3, <1>4, <1>7, <1>8

\* updateConnectionID goes on to a later ID and retires what lies below it.
LEMMA UpdateConnectionID ==
    ASSUME IDInv, ~dstClosed, NEW queue \in SUBSET Nat, queue # {},
           \A s \in queue : activeSeq < s /\ s <= highestSeq,
           NEW retired \in Nat, \A s \in queue : retired <= s,
           NEW frames \in SUBSET Nat, \A s \in frames : s < Min(queue),
           NEW sent, updateConnectionID(queue, retired, frames, sent)
    PROVE  /\ activeSeq' = Min(queue) /\ activeSeq' \in queue /\ activeSeq < activeSeq' /\ activeSeq' <= highestSeq
           /\ activeSeq' \in Nat /\ highestRetired' \in Nat /\ highestRetired' <= activeSeq'
           /\ cidQueue' \in SUBSET queue /\ \A s \in cidQueue' : activeSeq' < s /\ s <= highestSeq
           /\ toRetire' \in SUBSET Nat /\ \A s \in toRetire' : s < activeSeq'
           /\ hasResetToken' /\ resetTokens' = {activeSeq'}
<1> DEFINE m == Min(queue)
<1>1. m \in queue /\ \A y \in queue : m <= y
    BY MinOfQueue
<1>2. activeSeq \in Nat /\ m \in Nat
    BY <1>1 DEF IDInv, IDType
<1>3. /\ toRetire' = (frames \cup {activeSeq}) \ sent
      /\ highestRetired' = Larger(retired, activeSeq)
      /\ activeSeq' = m /\ cidQueue' = queue \ {m}
      /\ hasResetToken'
      /\ resetTokens' = (resetTokens \ (IF hasResetToken THEN {activeSeq} ELSE {})) \cup {m}
    BY DEF updateConnectionID
<1>4. \A s \in frames : s < m
    OBVIOUS
<1> HIDE DEF m
<1>5. activeSeq < m /\ m <= highestSeq /\ retired <= m
    BY <1>1
<1>6. highestRetired' \in Nat /\ highestRetired' <= m
    BY <1>2, <1>3, <1>5 DEF Larger
<1>7. \A s \in cidQueue' : m < s /\ s <= highestSeq
    BY <1>1, <1>2, <1>3
<1>8. toRetire' \in SUBSET Nat /\ \A s \in toRetire' : s < m
    BY <1>2, <1>3, <1>4, <1>5
<1>9. resetTokens' = {m}
    BY <1>3 DEF IDInv, TokenInv
<1>10. m = Min(queue)
    BY DEF m
<1> QED
    BY <1>1, <1>2, <1>3, <1>5, <1>6, <1>7, <1>8, <1>9, <1>10

\* Add: a frame that was overtaken is retired, one that asks for it moves the manager on.
LEMMA AddNewConnectionIDInv ==
    ASSUME IDInv, NEW f \in newFrames, AddNewConnectionID(f)
    PROVE  IDInv'
<1> DEFINE prior == f.prior > highestRetired
<1> DEFINE retired == IF prior THEN {s \in cidQueue : s < f.prior} ELSE {}
<1> DEFINE highest == IF prior THEN f.prior ELSE highestRetired
<1> DEFINE queue == (cidQueue \ retired) \cup (IF f.seq = activeSeq THEN {} ELSE {f.seq})
<1>1. /\ cidHandshakeComplete /\ ~dstClosed
      /\ UNCHANGED <<srcVars, cidHandshakeComplete, cidPath, dstClosed>>
      /\ cidErr' = (cidErr \/ Cardinality(cidQueue') >= MaxActiveConnectionIDs)
    BY DEF AddNewConnectionID
<1>2. /\ activeSeq \in Nat /\ highestSeq \in Nat /\ highestRetired \in Nat /\ f.seq \in Nat /\ f.prior \in Nat
      /\ f.prior <= f.seq /\ f.seq <= highestSeq /\ highestRetired <= activeSeq /\ activeSeq <= highestSeq
      /\ cidQueue \in SUBSET Nat /\ toRetire \in SUBSET Nat /\ \A s \in toRetire : s < activeSeq
      /\ \A s \in cidQueue : activeSeq < s /\ s <= highestSeq
    BY DEF IDInv, IDType, OrderInv
<1>3. UNCHANGED <<highestSeq, activeSrcConnIDs, newFrames, retiring>>
    BY <1>1 DEF srcVars
<1>4. ASSUME /\ activeSeq' \in Nat /\ activeSeq <= activeSeq' /\ activeSeq' <= highestSeq
             /\ highestRetired' \in Nat /\ highestRetired' <= activeSeq'
             /\ cidQueue' \in SUBSET Nat /\ \A s \in cidQueue' : activeSeq' < s /\ s <= highestSeq
             /\ toRetire' \in SUBSET Nat /\ \A s \in toRetire' : s < activeSeq',
             TokenInv'
      PROVE  IDInv'
  <2>1. ~(Cardinality(cidQueue') >= MaxActiveConnectionIDs)
      BY <1>4, QueueFits
  <2>2. ~cidErr
      BY DEF IDInv
  <2>3. ~cidErr'
      BY <1>1, <2>1, <2>2, Zenon
  <2>4. IDType'
      BY <1>1, <1>3, <1>4 DEF IDInv, IDType
  <2>5. \A p \in cidPath' : p.dest <= activeSeq' /\ p.retire < p.dest
      BY <1>1, <1>2, <1>4 DEF IDInv, IDType, OrderInv
  <2>6. OrderInv'
      BY <1>3, <1>4, <2>5 DEF IDInv, OrderInv
  <2> QED
      BY <1>1, <1>4, <2>3, <2>4, <2>6, ManagerStep
<1>5. CASE isOvertaken(f)
  <2>1. /\ toRetire' = toRetire \cup {f.seq}
        /\ UNCHANGED <<cidQueue, highestRetired, activeSeq, resetTokens, hasResetToken>>
      BY <1>5 DEF AddNewConnectionID
  <2>2. f.seq < activeSeq
      BY <1>2, <1>5 DEF isOvertaken
  <2>3. TokenInv'
      BY <1>1, <2>1 DEF IDInv, TokenInv
  <2>4. toRetire' \in SUBSET Nat /\ \A s \in toRetire' : s < activeSeq'
      BY <1>2, <2>1, <2>2
  <2>5. activeSeq <= activeSeq'
      BY <1>2, <2>1
  <2> QED
      BY <1>2, <1>4, <2>1, <2>3, <2>4, <2>5
<1>6. CASE ~isOvertaken(f) /\ f.seq # activeSeq /\ activeSeq < f.prior
  <2>1. updateConnectionID(queue, highest, toRetire \cup retired, {})
      BY <1>6 DEF AddNewConnectionID
  <2>2. highest = f.prior /\ retired = {s \in cidQueue : s < f.prior}
      BY <1>2, <1>6
  <2>3. queue = (cidQueue \ retired) \cup {f.seq}
      BY <1>6
  <2> HIDE DEF queue, highest, retired
  <2>4. queue \in SUBSET Nat /\ queue # {}
      BY <1>2, <2>3
  <2>5. \A s \in queue : activeSeq < s /\ s <= highestSeq
      BY <1>2, <1>6, <2>3
  <2>6. \A s \in queue : f.prior <= s
      BY <1>2, <2>2, <2>3
  <2>7. f.prior <= Min(queue) /\ Min(queue) \in Nat
      BY <2>4, <2>6, MinOfQueue
  <2>8. toRetire \cup retired \in SUBSET Nat /\ \A s \in toRetire \cup retired : s < Min(queue)
    <3>1. \A s \in toRetire \cup retired : s \in Nat /\ s < f.prior
        BY <1>2, <1>6, <2>2
    <3> DEFINE m == Min(queue)
    <3>2. f.prior <= m /\ m \in Nat
        BY <2>7
    <3> HIDE DEF m
    <3>3. \A s \in toRetire \cup retired : s < m
        BY <1>2, <3>1, <3>2
    <3> QED
        BY <3>1, <3>3 DEF m
  <2>9. highest \in Nat /\ \A s \in queue : highest <= s
      BY <1>2, <2>2, <2>6
  <2>10. /\ activeSeq' \in queue /\ activeSeq < activeSeq' /\ activeSeq' <= highestSeq
         /\ activeSeq' \in Nat /\ highestRetired' \in Nat /\ highestRetired' <= activeSeq'
         /\ cidQueue' \in SUBSET queue /\ \A s \in cidQueue' : activeSeq' < s /\ s <= highestSeq
         /\ toRetire' \in SUBSET Nat /\ \A s \in toRetire' : s < activeSeq'
         /\ hasResetToken' /\ resetTokens' = {activeSeq'}
    <3> DEFINE frames == toRetire \cup retired
    <3>1. frames \in SUBSET Nat /\ (\A s \in frames : s < Min(queue)) /\ updateConnectionID(queue, highest, frames, {})
        BY <2>1, <2>8
    <3> HIDE DEF frames
    <3> QED
        BY <1>1, <2>4, <2>5, <2>9, <3>1, UpdateConnectionID
  <2>11. TokenInv'
      BY <1>1, <2>10 DEF TokenInv
  <2>12. activeSeq <= activeSeq'
      BY <1>2, <2>10
  <2> QED
      BY <1>4, <2>4, <2>10, <2>11, <2>12
<1>7. CASE ~isOvertaken(f) /\ ~(f.seq # activeSeq /\ activeSeq < f.prior)
  <2>1. /\ toRetire' = toRetire \cup retired /\ highestRetired' = highest /\ cidQueue' = queue
        /\ UNCHANGED <<activeSeq, resetTokens, hasResetToken>>
      BY <1>7 DEF AddNewConnectionID
  <2>2. f.prior <= activeSeq
      BY <1>2, <1>7
  <2>3. retired = {}
    <3>1. \A s \in cidQueue : ~(s < f.prior)
        BY <1>2, <2>2
    <3> QED
        BY <3>1
  <2>4. highest \in Nat /\ highest <= activeSeq
      BY <1>2, <2>2
  <2>5. f.seq >= activeSeq
      BY <1>2, <1>7 DEF isOvertaken
  <2>6. queue \in SUBSET Nat /\ \A s \in queue : activeSeq < s /\ s <= highestSeq
    <3>1. queue = cidQueue \cup (IF f.seq = activeSeq THEN {} ELSE {f.seq})
        BY <2>3
    <3>2. f.seq # activeSeq => activeSeq < f.seq
        BY <1>2, <2>5
    <3> HIDE DEF queue
    <3> QED
        BY <1>2, <3>1, <3>2
  <2> HIDE DEF queue, highest, retired
  <2>7. TokenInv'
      BY <1>1, <2>1 DEF IDInv, TokenInv
  <2>8. activeSeq <= activeSeq' /\ activeSeq' <= highestSeq
      BY <1>2, <2>1
  <2> QED
      BY <1>2, <1>4, <2>1, <2>3, <2>4, <2>6, <2>7, <2>8
<1> QED
    BY <1>5, <1>6, <1>7

\* The handshake completes: the first ID gets its reset token.
LEMMA DstHandshakeCompleteInv ==
    ASSUME IDInv, DstHandshakeComplete
    PROVE  IDInv'
<1>1. /\ ~cidHandshakeComplete /\ ~dstClosed /\ cidHandshakeComplete'
      /\ hasResetToken' /\ resetTokens' = resetTokens \cup {0}
      /\ UNCHANGED <<srcVars, activeSeq, cidQueue, highestRetired, toRetire, cidPath, cidErr, dstClosed>>
    BY DEF DstHandshakeComplete
<1>2. UNCHANGED <<highestSeq, newFrames, retiring, activeSrcConnIDs>>
    BY <1>1 DEF srcVars
<1>3. activeSeq = 0 /\ resetTokens = {}
    BY <1>1 DEF IDInv, TokenInv
<1>4. TokenInv'
    BY <1>1, <1>3 DEF TokenInv
<1>5. IDType' /\ OrderInv' /\ ~cidErr'
    BY <1>1, <1>2 DEF IDInv, IDType, OrderInv
<1> QED
    BY <1>1, <1>3, <1>4, <1>5, ManagerStep

\* A packet is sent to the ID in use, which the issuer has; it retires an ID below.
LEMMA PackPacketToInv ==
    ASSUME IDInv, NEW changes \in BOOLEAN, PackPacketTo(changes)
    PROVE  IDInv'
<1>1. /\ ~dstClosed /\ (changes => shouldUpdateConnID)
      /\ UNCHANGED <<srcVars, cidHandshakeComplete, cidErr, dstClosed>>
    BY DEF PackPacketTo
<1>2. UNCHANGED <<highestSeq, newFrames, retiring, activeSrcConnIDs>>
    BY <1>1 DEF srcVars
<1>3. /\ activeSeq \in Nat /\ highestSeq \in Nat /\ highestRetired \in Nat
      /\ highestRetired <= activeSeq /\ activeSeq <= highestSeq
      /\ cidQueue \in SUBSET Nat /\ toRetire \in SUBSET Nat /\ \A s \in toRetire : s < activeSeq
      /\ \A s \in cidQueue : activeSeq < s /\ s <= highestSeq
    BY DEF IDInv, IDType, OrderInv
<1>4. PICK frame \in {IF changes THEN activeSeq ELSE InitialID} \cup toRetire :
         /\ cidPath' = cidPath \cup {[dest |-> IF changes THEN Min(cidQueue) ELSE activeSeq, retire |-> frame]}
         /\ IF changes THEN updateConnectionID(cidQueue, highestRetired, toRetire, {frame})
            ELSE /\ toRetire' = toRetire \ {frame}
                 /\ UNCHANGED <<activeSeq, cidQueue, highestRetired, resetTokens, hasResetToken>>
    BY DEF PackPacketTo
<1>5. ASSUME /\ activeSeq' \in Nat /\ activeSeq <= activeSeq' /\ activeSeq' <= highestSeq
             /\ highestRetired' \in Nat /\ highestRetired' <= activeSeq'
             /\ cidQueue' \in SUBSET Nat /\ \A s \in cidQueue' : activeSeq' < s /\ s <= highestSeq
             /\ toRetire' \in SUBSET Nat /\ \A s \in toRetire' : s < activeSeq',
             TokenInv',
             cidPath' = cidPath \cup {[dest |-> activeSeq', retire |-> frame]},
             frame \in Nat \cup {InitialID}, frame < activeSeq'
      PROVE  IDInv'
  <2>1. ~cidErr'
      BY <1>1 DEF IDInv
  <2> DEFINE a == activeSeq'
  <2>2. a \in Nat /\ activeSeq <= a /\ a <= highestSeq
      BY <1>5
  <2>3. \A p \in cidPath' : p \in cidPath \/ (p.dest = a /\ p.retire = frame /\ p \in [dest: Nat, retire: Nat \cup {InitialID}])
      BY <1>5
  <2>4. frame < a /\ cidPath' \in SUBSET [dest: Nat, retire: Nat \cup {InitialID}]
      BY <1>5, <2>3 DEF IDInv, IDType
  <2>5. IDType'
      BY <1>2, <1>5, <2>4 DEF IDInv, IDType
  <2>6. \A p \in cidPath' : p.dest <= a /\ p.retire < p.dest
    <3>1. \A p \in cidPath : p.dest \in Nat /\ p.dest <= activeSeq /\ p.retire < p.dest
        BY DEF IDInv, IDType, OrderInv
    <3> HIDE DEF a
    <3> QED
        BY <1>3, <1>5, <2>2, <2>3, <2>4, <3>1
  <2>7. OrderInv'
      BY <1>2, <1>5, <2>6 DEF IDInv, OrderInv
  <2>8. a \in activeSrcConnIDs
      BY <2>2 DEF IDInv, IssuedInv
  <2>9. \A p \in cidPath' : p \in cidPath \/ p.dest \in activeSrcConnIDs
      BY <2>3, <2>8
  <2> QED
      BY <1>1, <1>5, <2>1, <2>5, <2>7, <2>9, ManagerStep
<1>6. CASE changes
  <2>1. cidQueue # {} /\ cidHandshakeComplete
      BY <1>1, <1>6 DEF shouldUpdateConnID
  <2>2. updateConnectionID(cidQueue, highestRetired, toRetire, {frame})
      BY <1>4, <1>6
  <2>3. Min(cidQueue) \in cidQueue
      BY <1>3, <2>1, MinOfQueue
  <2>4. \A s \in toRetire : s < Min(cidQueue)
    <3> DEFINE m == Min(cidQueue)
    <3>1. m \in Nat /\ activeSeq < m
        BY <1>3, <2>3
    <3> HIDE DEF m
    <3>2. \A s \in toRetire : s < m
        BY <1>3, <3>1
    <3> QED
        BY <3>2 DEF m
  <2>5. \A s \in cidQueue : highestRetired <= s
      BY <1>3
  <2>6. /\ activeSeq' = Min(cidQueue) /\ activeSeq' \in cidQueue /\ activeSeq < activeSeq' /\ activeSeq' <= highestSeq
        /\ activeSeq' \in Nat /\ highestRetired' \in Nat /\ highestRetired' <= activeSeq'
        /\ cidQueue' \in SUBSET cidQueue /\ \A s \in cidQueue' : activeSeq' < s /\ s <= highestSeq
        /\ toRetire' \in SUBSET Nat /\ \A s \in toRetire' : s < activeSeq'
        /\ hasResetToken' /\ resetTokens' = {activeSeq'}
      BY <1>1, <1>3, <2>1, <2>2, <2>4, <2>5, UpdateConnectionID
  <2>7. TokenInv'
      BY <1>1, <2>1, <2>6 DEF TokenInv
  <2>8. frame \in Nat /\ frame <= activeSeq
      BY <1>3, <1>4, <1>6
  <2>9. activeSeq <= activeSeq' /\ frame < activeSeq'
      BY <1>3, <2>6, <2>8
  <2>10. cidPath' = cidPath \cup {[dest |-> activeSeq', retire |-> frame]}
      BY <1>4, <1>6, <2>6
  <2>11. cidQueue' \in SUBSET Nat
      BY <1>3, <2>6
  <2> QED
      BY <1>5, <2>6, <2>7, <2>8, <2>9, <2>10, <2>11
<1>7. CASE ~changes
  <2>1. /\ toRetire' = toRetire \ {frame}
        /\ UNCHANGED <<activeSeq, cidQueue, highestRetired, resetTokens, hasResetToken>>
        /\ cidPath' = cidPath \cup {[dest |-> activeSeq', retire |-> frame]}
      BY <1>4, <1>7
  <2>2. frame \in Nat \cup {InitialID} /\ frame < activeSeq'
      BY <1>3, <1>4, <1>7, <2>1 DEF InitialID
  <2>3. TokenInv'
      BY <1>1, <2>1 DEF IDInv, TokenInv
  <2>4. activeSeq <= activeSeq'
      BY <1>3, <2>1
  <2> QED
      BY <1>3, <1>5, <2>1, <2>2, <2>3, <2>4
<1> QED
    BY <1>6, <1>7

\* The frame of a lost packet is queued again.
LEMMA LosePacketInv ==
    ASSUME IDInv, NEW p \in cidPath, LosePacket(p)
    PROVE  IDInv'
<1>1. /\ cidPath' = cidPath \ {p}
      /\ toRetire' = IF p.retire # InitialID THEN toRetire \cup {p.retire} ELSE toRetire
      /\ UNCHANGED <<srcVars, activeSeq, cidQueue, highestRetired, cidHandshakeComplete, resetTokens,
                     hasResetToken, cidErr, dstClosed>>
    BY DEF LosePacket
<1>2. UNCHANGED <<highestSeq, newFrames, retiring, activeSrcConnIDs>>
    BY <1>1 DEF srcVars
<1>3. toRetire' \in SUBSET Nat /\ \A s \in toRetire' : s < activeSeq
  <2>1. p.retire # InitialID => p.retire \in Nat
      BY DEF IDInv, IDType
  <2>2. p.retire < activeSeq
      BY DEF IDInv, IDType, OrderInv, InitialID
  <2> QED
      BY <1>1, <2>1, <2>2 DEF IDInv, IDType, OrderInv
<1>4. IDType' /\ OrderInv' /\ TokenInv' /\ ~cidErr'
    BY <1>1, <1>2, <1>3 DEF IDInv, IDType, OrderInv, TokenInv
<1>5. activeSeq <= activeSeq'
    BY <1>1 DEF IDInv, IDType
<1> QED
    BY <1>1, <1>4, <1>5, ManagerStep

\* The manager takes its reset token back.
LEMMA CloseManagerInv ==
    ASSUME IDInv, CloseManager
    PROVE  IDInv'
<1>1. /\ ~dstClosed /\ dstClosed'
      /\ resetTokens' = IF hasResetToken THEN resetTokens \ {activeSeq} ELSE resetTokens
      /\ UNCHANGED <<srcVars, activeSeq, cidQueue, highestRetired, cidHandshakeComplete, hasResetToken,
                     toRetire, cidPath, cidErr>>
    BY DEF CloseManager
<1>2. UNCHANGED <<highestSeq, newFrames, retiring, activeSrcConnIDs>>
    BY <1>1 DEF srcVars
<1>3. IDType' /\ OrderInv' /\ TokenInv' /\ ~cidErr'
    BY <1>1, <1>2 DEF IDInv, IDType, OrderInv, TokenInv
<1>4. activeSeq <= activeSeq'
    BY <1>1 DEF IDInv, IDType
<1> QED
    BY <1>1, <1>3, <1>4, ManagerStep

-----------------------------------------------------------------------------
\* A new connection.
LEMMA IDInitInv == IDInit => IDInv
<1> SUFFICES ASSUME IDInit PROVE IDInv
    OBVIOUS
<1>1. IDType /\ OrderInv /\ TokenInv /\ NoHandlerLeft /\ ~cidErr
    BY DEF IDInit, IDType, OrderInv, TokenInv, NoHandlerLeft
<1>2. IssuedInv
  <2>1. IsFiniteSet({0}) /\ Cardinality({0}) = 1
      BY FS_Singleton
  <2>2. activeSrcConnIDs = {0} /\ activeSeq = 0 /\ highestSeq = 0
      BY DEF IDInit
  <2>3. Cardinality(activeSrcConnIDs) <= MaxActiveConnectionIDs
      BY <2>1, <2>2, IDLimitAssumption
  <2> QED
      BY <2>1, <2>2, <2>3 DEF IssuedInv
<1>3. HandlersInv
  <2>1. srcIDs = {0, InitialID} /\ retiring = {} /\ cidPath = {} /\ handlers = [id \in {0, InitialID} |-> "conn"]
      BY DEF IDInit, srcIDs
  <2> QED
      BY <2>1 DEF HandlersInv
<1> QED
    BY <1>1, <1>2, <1>3 DEF IDInv

\* Every step of either end.
LEMMA IDNextInv == IDInv /\ [IDNext]_cidVars => IDInv'
<1> SUFFICES ASSUME IDInv, [IDNext]_cidVars PROVE IDInv'
    OBVIOUS
<1>1. CASE SetMaxActiveConnIDs
    BY <1>1, SetMaxActiveConnIDsInv
<1>2. CASE SrcHandshakeComplete
    BY <1>2, SrcHandshakeCompleteInv
<1>3. CASE DstHandshakeComplete
    BY <1>3, DstHandshakeCompleteInv
<1>4. CASE CloseManager
    BY <1>4, CloseManagerInv
<1>5. CASE \E p \in cidPath : HandlePacketOf(p) \/ LosePacket(p)
    BY <1>5, HandlePacketOfInv, LosePacketInv
<1>6. CASE \E id \in retiring : RetireTimer(id)
    BY <1>6, RetireTimerInv
<1>7. CASE \E by \in {"destroy", "closedLocal", "closedRemote"} : CloseSource(by)
    BY <1>7, CloseSourceInv
<1>8. CASE \E f \in newFrames : AddNewConnectionID(f)
    BY <1>8, AddNewConnectionIDInv
<1>9. CASE \E changes \in BOOLEAN : PackPacketTo(changes)
    BY <1>9, PackPacketToInv
<1>10. CASE UNCHANGED cidVars
  <2>1. UNCHANGED srcVars /\ UNCHANGED dstVars /\ UNCHANGED <<cidPath, cidErr>>
      BY <1>10 DEF cidVars
  <2>2. UNCHANGED <<highestSeq, activeSrcConnIDs, initialClientDest, handlers, retiring, srcClosed, newFrames>>
      BY <2>1 DEF srcVars
  <2>3. (~srcClosed' => HandlersInv') /\ NoHandlerLeft' /\ retiring' \in SUBSET Int
      BY <2>1, <2>2 DEF IDInv, IDType, HandlersInv, srcIDs, NoHandlerLeft
  <2> QED
      BY <2>1, <2>2, <2>3, SourceStep
<1> QED
    BY <1>1, <1>2, <1>3, <1>4, <1>5, <1>6, <1>7, <1>8, <1>9, <1>10 DEF IDNext

\* Packets find their connection and neither side sees an error, for any limits and any
\* number of packets on their way.
THEOREM PacketsReachConnection == IDSpec => []PacketsAreRouted
<1>1. IDInv => PacketsAreRouted
  <2> SUFFICES ASSUME IDInv PROVE PacketsAreRouted
      OBVIOUS
  <2>1. ~cidErr /\ NoHandlerLeft
      BY DEF IDInv
  <2>2. resetTokens = IF hasResetToken /\ ~dstClosed THEN {activeSeq} ELSE {}
      BY DEF IDInv, TokenInv
  <2>3. activeSeq \in activeSrcConnIDs
      BY DEF IDInv, IDType, OrderInv, IssuedInv
  <2>4. ASSUME ~srcClosed, NEW p \in cidPath
        PROVE  p.dest \in DOMAIN handlers /\ handlers[p.dest] = "conn"
      BY <2>4 DEF IDInv, HandlersInv, srcIDs
  <2> QED
      BY <2>1, <2>2, <2>3, <2>4 DEF PacketsAreRouted
<1> QED
    BY <1>1, IDInitInv, IDNextInv, PTL DEF IDSpec

-----------------------------------------------------------------------------
(* The server (server.go, transport.go).                                   *)
PacketRec == [id: ClientIDs, type: PacketTypes, token: Tokens, at: Nat \ {0}]
ConnRec == [id: ClientIDs, st: {"handshake", "ready", "closed"}, waiter: {"wait", "refuse", "enqueue", "done"}, asked: BOOLEAN]

ServerType ==
    /\ srvPackets \in Seq(PacketRec) /\ srvConns \in Seq(ConnRec)
    /\ connQueue \in Seq(Nat)
    /\ srvClock \in Nat \ {0}
    /\ tMutex \in Closers \cup {"free"} /\ closeMx \in Closers \cup {"free"}
    /\ closerPC \in [Closers -> {"start", "waitConns", "lock", "waitRun", "closed", "onClose", "waitListen", "done"}]

\* Early packets wait in few queues, and a cleanup is due no later than the first expires.
Early(queues, next) ==
    /\ IsFiniteSet(DOMAIN queues) /\ Cardinality(DOMAIN queues) <= Max0RTTQueues
    /\ queues \in [DOMAIN queues -> [packets: Nat, expiration: Nat]]
    /\ next \in Nat
    /\ \A id \in DOMAIN queues : 1 <= next /\ next <= queues[id].expiration

\* Transport.mutex is held from the start of Transport.close to its end, and by nothing else
\* that waits; closeMx is held by a call that waits for the server's run loop.
LocksInv ==
    \A c \in Closers :
      /\ tMutex = c <=> (c # "listener" /\ closerPC[c] \in {"waitConns", "lock", "waitRun", "closed"})
      /\ closeMx = c <=> closerPC[c] = "waitRun"
      /\ c = "listener" => closerPC[c] \notin {"waitConns", "lock", "closed"}
      /\ c # "listener" => closerPC[c] # "onClose"

ServerInv ==
    /\ ServerType
    /\ Early(zeroRTTQueues, nextZeroRTTCleanup)
    /\ \A id \in DOMAIN zeroRTTQueues : id \notin DOMAIN srvHandlers
    /\ NoConnForgotten
    /\ LocksInv

\* Locks are taken in one order: a call that holds closeMx waits for the run loop only, and one
\* that waits for Transport.mutex holds nothing (transport.go close, server.go close).
LocksAreOrdered ==
    /\ \A c \in Closers : closerPC[c] \in {"start", "onClose"} => tMutex # c /\ closeMx # c
    /\ closeMx # "free" => closerPC[closeMx] = "waitRun"
    /\ tMutex # "free" => closerPC[tMutex] \in {"waitConns", "lock", "waitRun", "closed"}

-----------------------------------------------------------------------------
(* Queues of early packets *)

\* Fewer queues.
LEMMA EarlyShrinks ==
    ASSUME NEW q, NEW n, Early(q, n), NEW S \in SUBSET DOMAIN q
    PROVE  Early(Restrict(q, S), n) /\ DOMAIN Restrict(q, S) = S
<1>1. DOMAIN Restrict(q, S) = S /\ \A id \in S : Restrict(q, S)[id] = q[id]
    BY DEF Restrict
<1>2. IsFiniteSet(S) /\ Cardinality(S) <= Cardinality(DOMAIN q)
    BY FS_Subset DEF Early
<1>3. Cardinality(S) \in Nat /\ Cardinality(DOMAIN q) \in Nat
    BY <1>2, FS_CardinalityType DEF Early
<1>4. Cardinality(S) <= Max0RTTQueues
    BY <1>2, <1>3, EarlyDataAssumption DEF Early
<1>5. Restrict(q, S) \in [S -> [packets: Nat, expiration: Nat]]
    BY DEF Early, Restrict
<1> QED
    BY <1>1, <1>2, <1>4, <1>5 DEF Early

\* cleanupZeroRTTQueues leaves the time at which the next queue expires.
LEMMA CleanupKeepsEarly ==
    ASSUME NEW q, NEW n, Early(q, n), NEW now \in Nat,
           NEW c, c = cleanupZeroRTTQueues([queues |-> q, next |-> n], now)
    PROVE  Early(c.queues, c.next) /\ DOMAIN c.queues \subseteq DOMAIN q
<1> DEFINE kept == {id \in DOMAIN q : q[id].expiration > now}
<1> DEFINE times == {q[id].expiration : id \in kept}
<1> DEFINE next == IF kept = {} THEN 0 ELSE CHOOSE t \in times : \A id \in kept : t <= q[id].expiration
<1>1. CASE nextZeroRTTCleanup = 0 \/ now <= nextZeroRTTCleanup
  <2>1. c.queues = q /\ c.next = n
      BY <1>1 DEF cleanupZeroRTTQueues
  <2> QED
      BY <2>1
<1>2. CASE ~(nextZeroRTTCleanup = 0 \/ now <= nextZeroRTTCleanup)
  <2>1. c.queues = Restrict(q, kept) /\ c.next = next
      BY <1>2 DEF cleanupZeroRTTQueues
  <2>2. kept \in SUBSET DOMAIN q
      OBVIOUS
  <2>3. Early(Restrict(q, kept), n) /\ DOMAIN Restrict(q, kept) = kept
    <3> HIDE DEF kept
    <3> QED
        BY <2>2, EarlyShrinks
  <2>4. \A id \in kept : q[id].expiration \in Nat /\ 1 <= q[id].expiration
      BY DEF Early
  <2>5. ASSUME kept # {} PROVE next \in times /\ \A id \in kept : next <= q[id].expiration
    <3>1. times \subseteq Nat /\ times # {}
        BY <2>4, <2>5
    <3> HIDE DEF times
    <3>2. PICK x \in times : \A y \in times : ~ <<y, x>> \in OpToRel(<, Nat)
        BY <3>1, NatLessThanWellFounded, WFMin
    <3>3. \A y \in times : ~(y < x)
        BY <3>1, <3>2 DEF OpToRel
    <3>4. \A y \in times : x <= y
        BY <3>1, <3>3
    <3>5. \A id \in kept : x <= q[id].expiration
        BY <3>4 DEF times
    <3>6. next = CHOOSE t \in times : \A id \in kept : t <= q[id].expiration
        BY <2>5
    <3> HIDE DEF next, kept
    <3> QED
        BY <3>5, <3>6
  <2>6. next \in Nat
    <3>1. CASE kept = {}
        BY <3>1
    <3>2. CASE kept # {}
        BY <2>4, <2>5, <3>2
    <3> QED
        BY <3>1, <3>2
  <2>7. \A id \in kept : 1 <= next /\ next <= q[id].expiration
      BY <2>4, <2>5
  <2> HIDE DEF kept, next
  <2>8. \A id \in kept : Restrict(q, kept)[id] = q[id]
      BY DEF Restrict
  <2>9. Early(Restrict(q, kept), next)
      BY <2>3, <2>6, <2>7, <2>8 DEF Early
  <2> QED
      BY <2>1, <2>2, <2>3, <2>9
<1> QED
    BY <1>1, <1>2

\* A packet is handled: the queues it leaves are cleaned up.
LEMMA SetQueuesKeepsEarly ==
    ASSUME NEW q, NEW n, Early(q, n), NEW now \in Nat, setQueues([queues |-> q, next |-> n], now),
           \A id \in DOMAIN q : id \notin DOMAIN srvHandlers'
    PROVE  Early(zeroRTTQueues', nextZeroRTTCleanup') /\ \A id \in DOMAIN zeroRTTQueues' : id \notin DOMAIN srvHandlers'
<1> DEFINE c == cleanupZeroRTTQueues([queues |-> q, next |-> n], now)
<1>1. zeroRTTQueues' = c.queues /\ nextZeroRTTCleanup' = c.next
    BY DEF setQueues
<1> HIDE DEF c
<1>2. Early(c.queues, c.next) /\ DOMAIN c.queues \subseteq DOMAIN q
    BY CleanupKeepsEarly DEF c
<1> QED
    BY <1>1, <1>2

\* handle0RTTPacket queues a packet while there is no connection for it.
LEMMA Handle0RTTKeepsEarly ==
    ASSUME ServerInv, NEW p \in PacketRec, p.type = "0RTT"
    PROVE  \E q, n : /\ handle0RTTPacket(p) = [queues |-> q, next |-> n] /\ Early(q, n)
                     /\ \A id \in DOMAIN q : id \notin DOMAIN srvHandlers
<1> DEFINE expiration == p.at + Max0RTTQueueingDuration
<1>1. Early(zeroRTTQueues, nextZeroRTTCleanup) /\ \A id \in DOMAIN zeroRTTQueues : id \notin DOMAIN srvHandlers
    BY DEF ServerInv
<1>2. expiration \in Nat /\ expiration >= 1
    BY EarlyDataAssumption DEF PacketRec
<1> HIDE DEF expiration
<1>3. CASE p.id \in DOMAIN srvHandlers
    BY <1>1, <1>3 DEF handle0RTTPacket
<1>4. CASE p.id \notin DOMAIN srvHandlers /\ p.id \in DOMAIN zeroRTTQueues
  <2> DEFINE q == [zeroRTTQueues EXCEPT ![p.id].packets = IF @ < Max0RTTQueueLen THEN @ + 1 ELSE @]
  <2>1. handle0RTTPacket(p) = [queues |-> q, next |-> nextZeroRTTCleanup]
      BY <1>4 DEF handle0RTTPacket
  <2>2. /\ DOMAIN q = DOMAIN zeroRTTQueues
        /\ q \in [DOMAIN zeroRTTQueues -> [packets: Nat, expiration: Nat]]
        /\ \A id \in DOMAIN q : q[id].expiration = zeroRTTQueues[id].expiration
      BY <1>1, <1>4 DEF Early
  <2> HIDE DEF q
  <2>3. Early(q, nextZeroRTTCleanup)
      BY <1>1, <2>2 DEF Early
  <2> QED
      BY <1>1, <2>1, <2>2, <2>3
<1>5. CASE /\ p.id \notin DOMAIN srvHandlers /\ p.id \notin DOMAIN zeroRTTQueues
           /\ Cardinality(DOMAIN zeroRTTQueues) >= Max0RTTQueues
    BY <1>1, <1>5 DEF handle0RTTPacket
<1>6. CASE /\ p.id \notin DOMAIN srvHandlers /\ p.id \notin DOMAIN zeroRTTQueues
           /\ ~(Cardinality(DOMAIN zeroRTTQueues) >= Max0RTTQueues)
  <2> DEFINE q == [id \in DOMAIN zeroRTTQueues \cup {p.id} |->
                     IF id = p.id THEN [packets |-> 1, expiration |-> expiration] ELSE zeroRTTQueues[id]]
  <2> DEFINE n == earlier(nextZeroRTTCleanup, expiration)
  <2>1. handle0RTTPacket(p) = [queues |-> q, next |-> n]
      BY <1>6 DEF handle0RTTPacket, expiration
  <2>2. DOMAIN q = DOMAIN zeroRTTQueues \cup {p.id}
      OBVIOUS
  <2>3. q \in [DOMAIN q -> [packets: Nat, expiration: Nat]]
      BY <1>1, <1>2 DEF Early
  <2>4. /\ q[p.id].expiration = expiration
        /\ \A id \in DOMAIN zeroRTTQueues : q[id] = zeroRTTQueues[id]
      BY <1>6
  <2> HIDE DEF q
  <2>5. /\ n \in Nat /\ n <= expiration
        /\ 1 <= n
        /\ \A id \in DOMAIN zeroRTTQueues : n <= zeroRTTQueues[id].expiration
    <3>1. nextZeroRTTCleanup \in Nat
        BY <1>1 DEF Early
    <3>2. \A id \in DOMAIN zeroRTTQueues : /\ 1 <= nextZeroRTTCleanup /\ nextZeroRTTCleanup <= zeroRTTQueues[id].expiration
                                           /\ zeroRTTQueues[id].expiration \in Nat
        BY <1>1 DEF Early
    <3> QED
        BY <1>2, <3>1, <3>2 DEF earlier
  <2>6. IsFiniteSet(DOMAIN q) /\ Cardinality(DOMAIN q) = Cardinality(DOMAIN zeroRTTQueues) + 1
      BY <1>1, <1>6, <2>2, FS_AddElement DEF Early
  <2>7. Cardinality(DOMAIN zeroRTTQueues) \in Nat
      BY <1>1, FS_CardinalityType DEF Early
  <2>8. Cardinality(DOMAIN q) <= Max0RTTQueues
      BY <1>6, <2>6, <2>7, EarlyDataAssumption
  <2> HIDE DEF n
  <2>9. Early(q, n)
      BY <2>2, <2>3, <2>4, <2>5, <2>6, <2>8 DEF Early
  <2> QED
      BY <1>1, <1>6, <2>1, <2>2, <2>9
<1> QED
    BY <1>3, <1>4, <1>5, <1>6

-----------------------------------------------------------------------------
(* What a step may leave alone *)

\* What a step that leaves a part of the state alone keeps.
LEMMA EarlyStays ==
    ASSUME ServerInv, UNCHANGED earlyVars, DOMAIN srvHandlers' \subseteq DOMAIN srvHandlers
    PROVE  /\ Early(zeroRTTQueues', nextZeroRTTCleanup')
           /\ \A id \in DOMAIN zeroRTTQueues' : id \notin DOMAIN srvHandlers'
BY DEF ServerInv, earlyVars

LEMMA LocksStay ==
    ASSUME ServerInv, UNCHANGED <<tMutex, closeMx, closerPC>>
    PROVE  LocksInv'
BY DEF ServerInv, LocksInv

LEMMA ConnsStay ==
    ASSUME ServerInv, UNCHANGED <<srvConns, connQueue, accepted>>
    PROVE  NoConnForgotten'
BY DEF ServerInv, NoConnForgotten, Conns, isLive

\* One connection changes.
LEMMA ConnUpdated ==
    ASSUME ServerInv, NEW n \in Conns, NEW v \in ConnRec, updConn(n, v),
           Range(connQueue) \cup accepted \subseteq Range(connQueue') \cup accepted',
           (v.waiter = "done" /\ v.st # "closed") => n \in Range(connQueue') \cup accepted'
    PROVE  srvConns' \in Seq(ConnRec) /\ NoConnForgotten'
<1>1. srvConns \in Seq(ConnRec) /\ srvConns' = [srvConns EXCEPT ![n] = v] /\ n \in 1 .. Len(srvConns)
    BY DEF ServerInv, ServerType, updConn, Conns
<1>2. /\ srvConns' \in Seq(ConnRec) /\ Len(srvConns') = Len(srvConns) /\ srvConns'[n] = v
      /\ \A m \in 1 .. Len(srvConns) : m # n => srvConns'[m] = srvConns[m]
  <2> HIDE DEF ConnRec
  <2> QED
      BY <1>1
<1>3. NoConnForgotten'
    BY <1>2 DEF ServerInv, NoConnForgotten, Conns, isLive
<1> QED
    BY <1>2, <1>3

\* The members of a queue that grows, or shrinks at its head.
LEMMA RangeOfAppend ==
    ASSUME NEW q \in Seq(Nat), NEW n \in Nat
    PROVE  Append(q, n) \in Seq(Nat) /\ Range(q) \subseteq Range(Append(q, n)) /\ n \in Range(Append(q, n))
<1>1. /\ Append(q, n) \in Seq(Nat) /\ DOMAIN Append(q, n) = 1 .. Len(q) + 1 /\ DOMAIN q = 1 .. Len(q)
      /\ \A i \in 1 .. Len(q) : Append(q, n)[i] = q[i]
      /\ Append(q, n)[Len(q) + 1] = n
    OBVIOUS
<1>2. Len(q) \in Nat
    OBVIOUS
<1>3. Range(q) \subseteq Range(Append(q, n))
    BY <1>1, <1>2 DEF Range
<1>4. Len(q) + 1 \in DOMAIN Append(q, n)
    BY <1>1, <1>2
<1> QED
    BY <1>1, <1>3, <1>4 DEF Range

LEMMA RangeOfTail ==
    ASSUME NEW q \in Seq(Nat), q # <<>>
    PROVE  Tail(q) \in Seq(Nat) /\ Head(q) \in Nat /\ Range(q) \subseteq Range(Tail(q)) \cup {Head(q)}
<1>1. /\ Tail(q) \in Seq(Nat) /\ Head(q) = q[1] /\ DOMAIN Tail(q) = 1 .. Len(q) - 1 /\ DOMAIN q = 1 .. Len(q)
      /\ \A i \in 1 .. Len(q) - 1 : Tail(q)[i] = q[i + 1]
      /\ Len(q) \in Nat /\ Len(q) >= 1 /\ Head(q) \in Nat
    OBVIOUS
<1>2. \A i \in DOMAIN q : i = 1 \/ (i - 1 \in DOMAIN Tail(q) /\ q[i] = Tail(q)[i - 1])
    BY <1>1
<1> QED
    BY <1>1, <1>2 DEF Range

-----------------------------------------------------------------------------
(* The socket *)

\* A packet arrives at the Transport.
LEMMA TransportHandlePacketInv ==
    ASSUME ServerInv, NEW id \in ClientIDs, NEW type \in PacketTypes, NEW tok \in Tokens,
           TransportHandlePacket(id, type, tok)
    PROVE  ServerInv'
<1>1. /\ UNCHANGED <<zeroRTTQueues, nextZeroRTTCleanup, srvConns, srvHandlers, connQueue, accepted, tMutex, closeMx,
                     closerPC, srvClock>>
      /\ UNCHANGED earlyVars
    BY DEF TransportHandlePacket, earlyVars, connVars, acceptVars, closeVars
<1>2. srvPackets' \in Seq(PacketRec)
  <2> DEFINE p == [id |-> id, type |-> type, token |-> tok, at |-> srvClock]
  <2>1. p \in PacketRec
      BY DEF PacketRec, ServerInv, ServerType
  <2>2. srvPackets' \in {srvPackets, Append(srvPackets, p)}
      BY DEF TransportHandlePacket
  <2>3. srvPackets \in Seq(PacketRec)
      BY DEF ServerInv, ServerType
  <2> HIDE DEF p, PacketRec
  <2> QED
      BY <2>1, <2>2, <2>3
<1>3. ServerType'
    BY <1>1, <1>2 DEF ServerInv, ServerType
<1> QED
    BY <1>1, <1>3, EarlyStays, LocksStay, ConnsStay DEF ServerInv

\* Steps that change neither queues, connections nor locks.
LEMMA OtherStep ==
    ASSUME ServerInv, UNCHANGED <<srvPackets, earlyVars, srvConns, connQueue, accepted, tMutex, closeMx, closerPC>>,
           DOMAIN srvHandlers' \subseteq DOMAIN srvHandlers, srvClock' \in Nat \ {0}
    PROVE  ServerInv'
<1>1. ServerType'
    BY DEF ServerInv, ServerType
<1> QED
    BY <1>1, EarlyStays, LocksStay, ConnsStay DEF ServerInv

\* Steps that touch neither connections nor early packets.
LEMMA RunSendQueueInv == ASSUME ServerInv, NEW r \in Replies, RunSendQueue(r) PROVE ServerInv'
<1>1. UNCHANGED <<srvPackets, earlyVars, srvConns, connQueue, accepted, tMutex, closeMx, closerPC, srvHandlers, srvClock>>
    BY DEF RunSendQueue, connVars, acceptVars, closeVars
<1> QED
    BY <1>1, OtherStep DEF ServerInv, ServerType

LEMMA SrvTickInv == ASSUME ServerInv, SrvTick PROVE ServerInv'
<1>1. UNCHANGED <<srvPackets, earlyVars, srvConns, connQueue, accepted, tMutex, closeMx, closerPC, srvHandlers>>
    BY DEF SrvTick, sockVars, connVars, acceptVars, closeVars
<1>2. srvClock' \in Nat \ {0}
    BY DEF SrvTick, ServerInv, ServerType
<1> QED
    BY <1>1, <1>2, OtherStep

LEMMA ServerRunEndsInv == ASSUME ServerInv, ServerRunEnds PROVE ServerInv'
<1>1. UNCHANGED <<srvPackets, earlyVars, srvConns, connQueue, accepted, tMutex, closeMx, closerPC, srvHandlers, srvClock>>
    BY DEF ServerRunEnds, sockVars, connVars, acceptVars
<1> QED
    BY <1>1, OtherStep DEF ServerInv, ServerType

LEMMA ListenReturnsInv == ASSUME ServerInv, ListenReturns PROVE ServerInv'
<1>1. UNCHANGED <<srvPackets, earlyVars, srvConns, connQueue, accepted, tMutex, closeMx, closerPC, srvHandlers, srvClock>>
    BY DEF ListenReturns, CloseUnchanged, closeVars, acceptVars
<1> QED
    BY <1>1, OtherStep DEF ServerInv, ServerType

-----------------------------------------------------------------------------
(* The run loop *)

\* A new connection is one that its goroutine waits for.
LEMMA ConnAdded ==
    ASSUME ServerInv, NEW id \in ClientIDs, UNCHANGED <<connQueue, accepted>>,
           srvConns' = Append(srvConns, [id |-> id, st |-> "handshake", waiter |-> "wait", asked |-> FALSE])
    PROVE  srvConns' \in Seq(ConnRec) /\ NoConnForgotten'
<1> DEFINE v == [id |-> id, st |-> "handshake", waiter |-> "wait", asked |-> FALSE]
<1>1. v \in ConnRec /\ v.waiter = "wait" /\ srvConns \in Seq(ConnRec) /\ srvConns' = Append(srvConns, v)
    BY DEF ConnRec, ServerInv, ServerType
<1>2. /\ srvConns' \in Seq(ConnRec) /\ Len(srvConns') = Len(srvConns) + 1 /\ srvConns'[Len(srvConns) + 1] = v
      /\ \A m \in 1 .. Len(srvConns) : srvConns'[m] = srvConns[m]
      /\ Len(srvConns) \in Nat
  <2> HIDE DEF ConnRec, v
  <2> QED
      BY <1>1
<1> HIDE DEF v
<1>3. \A m \in 1 .. Len(srvConns') : m \in 1 .. Len(srvConns) \/ m = Len(srvConns) + 1
    BY <1>2
<1>4. NoConnForgotten'
  <2> SUFFICES ASSUME NEW m \in 1 .. Len(srvConns'), srvConns'[m].waiter = "done", srvConns'[m].st # "closed"
               PROVE  m \in Range(connQueue') \cup accepted'
      BY DEF NoConnForgotten, Conns, isLive
  <2>1. m \in 1 .. Len(srvConns)
      BY <1>1, <1>2, <1>3
  <2> QED
      BY <1>2, <2>1 DEF ServerInv, NoConnForgotten, Conns, isLive
<1> QED
    BY <1>2, <1>4

\* handleInitialImpl drops, refuses or retries, or creates a connection and gives it the early
\* packets of its client.
LEMMA HandleInitialFacts ==
    ASSUME ServerInv, NEW p \in PacketRec, handleInitialImpl(p), UNCHANGED <<connQueue, accepted>>
    PROVE  /\ srvConns' \in Seq(ConnRec) /\ NoConnForgotten'
           /\ Early(zeroRTTQueues', nextZeroRTTCleanup')
           /\ \A id \in DOMAIN zeroRTTQueues' : id \notin DOMAIN srvHandlers'
<1>1. /\ Early(zeroRTTQueues, nextZeroRTTCleanup) /\ \A id \in DOMAIN zeroRTTQueues : id \notin DOMAIN srvHandlers
      /\ srvConns \in Seq(ConnRec)
    BY DEF ServerInv, ServerType
<1>2. p.at \in Nat /\ p.id \in ClientIDs
    BY DEF PacketRec
<1>3. CASE p.id \in DOMAIN srvHandlers \/ p.token = "expiredRetry"
  <2>1. /\ setQueues([queues |-> zeroRTTQueues, next |-> nextZeroRTTCleanup], p.at)
        /\ UNCHANGED <<srvConns, srvHandlers>>
      BY <1>3 DEF handleInitialImpl
  <2> QED
      BY <1>1, <1>2, <2>1, SetQueuesKeepsEarly, ConnsStay
<1>4. CASE ~(p.id \in DOMAIN srvHandlers \/ p.token = "expiredRetry")
  <2> DEFINE q == without0RTT(zeroRTTQueues, p.id)
  <2>1. /\ setQueues([queues |-> q, next |-> nextZeroRTTCleanup], p.at)
        /\ \/ UNCHANGED <<srvConns, srvHandlers>>
           \/ /\ srvConns' = Append(srvConns, [id |-> p.id, st |-> "handshake", waiter |-> "wait", asked |-> FALSE])
              /\ srvHandlers' = [id \in DOMAIN srvHandlers \cup {p.id} |->
                                   IF id = p.id THEN Len(srvConns) + 1 ELSE srvHandlers[id]]
      BY <1>4 DEF handleInitialImpl
  <2>2. Early(q, nextZeroRTTCleanup) /\ DOMAIN q = DOMAIN zeroRTTQueues \ {p.id}
    <3>1. DOMAIN zeroRTTQueues \ {p.id} \in SUBSET DOMAIN zeroRTTQueues
        OBVIOUS
    <3> QED
        BY <1>1, <3>1, EarlyShrinks DEF without0RTT
  <2> HIDE DEF q
  <2>3. DOMAIN srvHandlers' \subseteq DOMAIN srvHandlers \cup {p.id}
      BY <2>1
  <2>4. \A id \in DOMAIN q : id \notin DOMAIN srvHandlers'
      BY <1>1, <2>2, <2>3
  <2>5. srvConns' \in Seq(ConnRec) /\ NoConnForgotten'
      BY <1>1, <1>2, <2>1, ConnsStay, ConnAdded
  <2> QED
      BY <1>2, <2>1, <2>2, <2>4, <2>5, SetQueuesKeepsEarly
<1> QED
    BY <1>3, <1>4

\* The run loop of the server handles a packet.
LEMMA ServerRunInv == ASSUME ServerInv, ServerRun PROVE ServerInv'
<1> DEFINE p == Head(srvPackets)
<1>1. /\ srvPackets # <<>> /\ srvPackets' = Tail(srvPackets)
      /\ UNCHANGED <<connQueue, accepted, tMutex, closeMx, closerPC, srvClock>>
    BY DEF ServerRun, acceptVars
<1>2. p \in PacketRec /\ srvPackets' \in Seq(PacketRec)
  <2>1. srvPackets \in Seq(PacketRec)
      BY DEF ServerInv, ServerType
  <2> HIDE DEF PacketRec
  <2> QED
      BY <1>1, <2>1
<1>3. p.type \in PacketTypes /\ p.at \in Nat
    BY <1>2 DEF PacketRec
<1> HIDE DEF p
<1>4. /\ srvConns' \in Seq(ConnRec) /\ NoConnForgotten'
      /\ Early(zeroRTTQueues', nextZeroRTTCleanup')
      /\ \A id \in DOMAIN zeroRTTQueues' : id \notin DOMAIN srvHandlers'
  <2>1. CASE p.type = "Initial"
    <3>1. handleInitialImpl(p)
        BY <2>1 DEF ServerRun, p
    <3> QED
        BY <1>1, <1>2, <3>1, HandleInitialFacts
  <2>2. CASE p.type = "0RTT"
    <3>1. setQueues(handle0RTTPacket(p), p.at) /\ UNCHANGED <<srvConns, srvHandlers>>
        BY <2>2 DEF ServerRun, p
    <3>2. PICK q, n : /\ handle0RTTPacket(p) = [queues |-> q, next |-> n] /\ Early(q, n)
                      /\ \A id \in DOMAIN q : id \notin DOMAIN srvHandlers
        BY <1>2, <2>2, Handle0RTTKeepsEarly
    <3>3. setQueues([queues |-> q, next |-> n], p.at) /\ \A id \in DOMAIN q : id \notin DOMAIN srvHandlers'
        BY <3>1, <3>2
    <3> QED
        BY <1>1, <1>3, <3>1, <3>2, <3>3, SetQueuesKeepsEarly, ConnsStay DEF ServerInv, ServerType
  <2>3. CASE p.type \notin {"Initial", "0RTT"}
    <3>1. /\ setQueues([queues |-> zeroRTTQueues, next |-> nextZeroRTTCleanup], p.at)
          /\ UNCHANGED <<srvConns, srvHandlers>>
        BY <2>3 DEF ServerRun, p
    <3> QED
        BY <1>1, <1>3, <3>1, SetQueuesKeepsEarly, ConnsStay DEF ServerInv, ServerType
  <2> QED
      BY <2>1, <2>2, <2>3
<1>5. ServerType'
    BY <1>1, <1>2, <1>4 DEF ServerInv, ServerType
<1> QED
    BY <1>1, <1>4, <1>5, LocksStay DEF ServerInv

-----------------------------------------------------------------------------
(* Connections *)

\* What all steps of connections leave alone.
LEMMA SrvConnStep ==
    ASSUME ServerInv, ConnUnchanged, DOMAIN srvHandlers' \subseteq DOMAIN srvHandlers,
           srvConns' \in Seq(ConnRec), connQueue' \in Seq(Nat), NoConnForgotten'
    PROVE  ServerInv'
<1>1. UNCHANGED <<srvPackets, earlyVars, tMutex, closeMx, closerPC, srvClock>>
    BY DEF ConnUnchanged, sockVars, closeVars
<1>2. ServerType'
    BY <1>1 DEF ServerInv, ServerType
<1> QED
    BY <1>1, <1>2, EarlyStays, LocksStay DEF ServerInv

\* A connection that exists.
LEMMA ConnFacts ==
    ASSUME ServerInv, NEW n \in Conns
    PROVE  srvConns[n] \in ConnRec /\ n \in Nat /\ connQueue \in Seq(Nat)
<1>1. srvConns \in Seq(ConnRec) /\ n \in 1 .. Len(srvConns) /\ connQueue \in Seq(Nat)
    BY DEF ServerInv, ServerType, Conns
<1> HIDE DEF ConnRec
<1> QED
    BY <1>1

\* Steps of a connection.
LEMMA ConnReadyInv == ASSUME ServerInv, NEW n \in Conns, ConnReady(n) PROVE ServerInv'
<1> DEFINE v == [srvConns[n] EXCEPT !.st = "ready"]
<1>1. updConn(n, v) /\ ConnUnchanged /\ UNCHANGED <<srvHandlers, connQueue, accepted>> /\ srvConns[n].st = "handshake"
    BY DEF ConnReady, acceptVars
<1>2. v \in ConnRec /\ v.waiter = srvConns[n].waiter
    BY ConnFacts DEF ConnRec
<1>3. v.waiter = "done" => n \in Range(connQueue') \cup accepted'
    BY <1>1, <1>2 DEF ServerInv, NoConnForgotten, isLive
<1> HIDE DEF v
<1> QED
    BY <1>1, <1>2, <1>3, ConnFacts, ConnUpdated, SrvConnStep

LEMMA ConnEndsInv == ASSUME ServerInv, NEW n \in Conns, ConnEnds(n) PROVE ServerInv'
<1> DEFINE v == [srvConns[n] EXCEPT !.st = "closed"]
<1>1. updConn(n, v) /\ ConnUnchanged /\ UNCHANGED <<srvHandlers, connQueue, accepted>>
    BY DEF ConnEnds, acceptVars
<1>2. v \in ConnRec /\ v.st = "closed"
    BY ConnFacts DEF ConnRec
<1> HIDE DEF v
<1> QED
    BY <1>1, <1>2, ConnFacts, ConnUpdated, SrvConnStep

LEMMA HandlerDeletedInv == ASSUME ServerInv, NEW id \in DOMAIN srvHandlers, HandlerDeleted(id) PROVE ServerInv'
<1>1. /\ ConnUnchanged /\ UNCHANGED <<srvConns, connQueue, accepted>>
      /\ srvHandlers' = Restrict(srvHandlers, DOMAIN srvHandlers \ {id})
    BY DEF HandlerDeleted, acceptVars
<1>2. DOMAIN srvHandlers' \subseteq DOMAIN srvHandlers
    BY <1>1 DEF Restrict
<1> QED
    BY <1>1, <1>2, ConnsStay, SrvConnStep DEF ServerInv, ServerType

\* The goroutine of a connection ends with it in the accept queue, refused, or ended.
LEMMA WaitForConnInv == ASSUME ServerInv, NEW n \in Conns, WaitForConn(n) PROVE ServerInv'
<1> DEFINE c == srvConns[n]
<1>1. ConnUnchanged /\ UNCHANGED <<srvHandlers, accepted>>
    BY DEF WaitForConn
<1>2. c \in ConnRec /\ n \in Nat /\ connQueue \in Seq(Nat)
    BY ConnFacts
<1>3. ASSUME NEW v \in ConnRec, updConn(n, v), UNCHANGED connQueue, v.waiter # "done" \/ v.st = "closed"
      PROVE  ServerInv'
    BY <1>1, <1>2, <1>3, ConnUpdated, SrvConnStep
<1>4. CASE updConn(n, [c EXCEPT !.waiter = "refuse", !.asked = TRUE]) /\ UNCHANGED connQueue
  <2> DEFINE v == [c EXCEPT !.waiter = "refuse", !.asked = TRUE]
  <2>1. v \in ConnRec /\ v.waiter # "done"
      BY <1>2 DEF ConnRec
  <2> HIDE DEF c
  <2> QED
      BY <1>3, <1>4, <2>1
<1>5. CASE c.st = "closed" /\ updConn(n, [c EXCEPT !.waiter = "done"]) /\ UNCHANGED connQueue
  <2> DEFINE v == [c EXCEPT !.waiter = "done"]
  <2>1. v \in ConnRec /\ v.st = "closed"
      BY <1>2, <1>5 DEF ConnRec
  <2> HIDE DEF c
  <2> QED
      BY <1>3, <1>5, <2>1
<1>6. CASE updConn(n, [c EXCEPT !.waiter = "enqueue"]) /\ UNCHANGED connQueue
  <2> DEFINE v == [c EXCEPT !.waiter = "enqueue"]
  <2>1. v \in ConnRec /\ v.waiter # "done"
      BY <1>2 DEF ConnRec
  <2> HIDE DEF c
  <2> QED
      BY <1>3, <1>6, <2>1
<1>7. CASE updConn(n, [c EXCEPT !.waiter = "done"]) /\ connQueue' = Append(connQueue, n)
  <2> DEFINE v == [c EXCEPT !.waiter = "done"]
  <2>1. v \in ConnRec
      BY <1>2 DEF ConnRec
  <2>2. connQueue' \in Seq(Nat) /\ Range(connQueue) \subseteq Range(connQueue') /\ n \in Range(connQueue')
      BY <1>2, <1>7, RangeOfAppend
  <2>3. updConn(n, v)
      BY <1>7
  <2> HIDE DEF c, v
  <2>4. Range(connQueue) \cup accepted \subseteq Range(connQueue') \cup accepted' /\ n \in Range(connQueue') \cup accepted'
      BY <1>1, <2>2
  <2> QED
      BY <1>1, <2>1, <2>2, <2>3, <2>4, ConnUpdated, SrvConnStep
<1>8. CASE updConn(n, queueFull(c)) /\ UNCHANGED connQueue
  <2>1. queueFull(c) \in ConnRec /\ queueFull(c).waiter # "done"
      BY <1>2 DEF ConnRec, queueFull
  <2> HIDE DEF c
  <2> QED
      BY <1>3, <1>8, <2>1
<1> QED
    BY <1>4, <1>5, <1>6, <1>7, <1>8 DEF WaitForConn

\* The application accepts.
LEMMA AcceptInv == ASSUME ServerInv, Accept PROVE ServerInv'
<1>1. /\ ConnUnchanged /\ UNCHANGED <<srvConns, srvHandlers>> /\ connQueue # <<>>
      /\ accepted' = accepted \cup {Head(connQueue)} /\ connQueue' = Tail(connQueue)
    BY DEF Accept
<1>2. connQueue' \in Seq(Nat) /\ Range(connQueue) \subseteq Range(connQueue') \cup {Head(connQueue)}
    BY <1>1, RangeOfTail DEF ServerInv, ServerType
<1>3. Range(connQueue) \cup accepted \subseteq Range(connQueue') \cup accepted'
    BY <1>1, <1>2
<1>4. NoConnForgotten'
    BY <1>1, <1>3 DEF ServerInv, NoConnForgotten, Conns, isLive
<1> QED
    BY <1>1, <1>2, <1>4, SrvConnStep DEF ServerInv, ServerType

-----------------------------------------------------------------------------
(* Closing *)

\* What all steps of a close call leave alone.
LEMMA CloserStep ==
    ASSUME ServerInv, CloseUnchanged,
           srvConns' \in Seq(ConnRec), NoConnForgotten', LocksInv',
           tMutex' \in Closers \cup {"free"}, closeMx' \in Closers \cup {"free"},
           closerPC' \in [Closers -> {"start", "waitConns", "lock", "waitRun", "closed", "onClose", "waitListen", "done"}]
    PROVE  ServerInv'
<1>1. UNCHANGED <<srvPackets, earlyVars, srvHandlers, connQueue, accepted, srvClock>>
    BY DEF CloseUnchanged, acceptVars
<1>2. ServerType'
    BY <1>1, SMTT(60) DEF ServerInv, ServerType
<1> QED
    BY <1>1, <1>2, EarlyStays DEF ServerInv

\* The connections are asked to end, and nothing else happens to them.
LEMMA ConnsAsked ==
    ASSUME ServerInv, UNCHANGED <<connQueue, accepted>>, NEW S,
           srvConns' = [n \in Conns |-> IF n \in S THEN [srvConns[n] EXCEPT !.asked = TRUE] ELSE srvConns[n]]
    PROVE  srvConns' \in Seq(ConnRec) /\ NoConnForgotten'
<1>1. \A n \in Conns : srvConns[n] \in ConnRec
    BY ConnFacts
<1>2. \A n \in Conns : /\ srvConns'[n] \in ConnRec /\ srvConns'[n].st = srvConns[n].st
                       /\ srvConns'[n].waiter = srvConns[n].waiter
    BY <1>1 DEF ConnRec
<1>3. DOMAIN srvConns' = 1 .. Len(srvConns) /\ Len(srvConns) \in Nat
    BY DEF Conns, ServerInv, ServerType
<1>4. srvConns' \in Seq(ConnRec) /\ Len(srvConns') = Len(srvConns)
  <2>1. srvConns' \in [1 .. Len(srvConns) -> ConnRec]
      BY <1>2, <1>3 DEF Conns
  <2> HIDE DEF ConnRec
  <2> QED
      BY <1>3, <2>1
<1>5. NoConnForgotten'
    BY <1>2, <1>4 DEF ServerInv, NoConnForgotten, Conns, isLive
<1> QED
    BY <1>4, <1>5

\* A close call goes on, with the locks it has then.
LEMMA GoesTo ==
    ASSUME ServerInv, NEW c \in Closers, CloseUnchanged,
           NEW at \in {"waitConns", "lock", "waitRun", "closed", "onClose", "waitListen", "done"}, goTo(c, at),
           tMutex' \in Closers \cup {"free"}, closeMx' \in Closers \cup {"free"},
           \A x \in Closers : x # c => (tMutex' = x <=> tMutex = x) /\ (closeMx' = x <=> closeMx = x),
           tMutex' = c <=> (c # "listener" /\ at \in {"waitConns", "lock", "waitRun", "closed"}),
           closeMx' = c <=> at = "waitRun",
           c = "listener" => at \notin {"waitConns", "lock", "closed"},
           c # "listener" => at # "onClose",
           srvConns' \in Seq(ConnRec), NoConnForgotten'
    PROVE  ServerInv'
<1>1. closerPC \in [Closers -> {"start", "waitConns", "lock", "waitRun", "closed", "onClose", "waitListen", "done"}]
    BY DEF ServerInv, ServerType
<1>2. /\ closerPC' \in [Closers -> {"start", "waitConns", "lock", "waitRun", "closed", "onClose", "waitListen", "done"}]
      /\ closerPC'[c] = at /\ \A x \in Closers : x # c => closerPC'[x] = closerPC[x]
    BY <1>1 DEF goTo
<1>3. LocksInv'
  <2> SUFFICES ASSUME NEW x \in Closers
               PROVE  /\ tMutex' = x <=> (x # "listener" /\ closerPC'[x] \in {"waitConns", "lock", "waitRun", "closed"})
                      /\ closeMx' = x <=> closerPC'[x] = "waitRun"
                      /\ x = "listener" => closerPC'[x] \notin {"waitConns", "lock", "closed"}
                      /\ x # "listener" => closerPC'[x] # "onClose"
      BY DEF LocksInv
  <2>1. CASE x = c
      BY <1>2, <2>1
  <2>2. CASE x # c
      BY <1>2, <2>2 DEF ServerInv, LocksInv
  <2> QED
      BY <2>1, <2>2
<1> QED
    BY <1>2, <1>3, CloserStep

\* The steps of the Close calls.
LEMMA CloseStepInv == ASSUME ServerInv, NEW c \in Closers, CloseStep(c) PROVE ServerInv'
<1>1. /\ tMutex \in Closers \cup {"free"} /\ closeMx \in Closers \cup {"free"} /\ srvConns \in Seq(ConnRec)
      /\ "free" \notin Closers
    BY DEF ServerInv, ServerType, Closers
<1>2. /\ tMutex = c <=> (c # "listener" /\ closerPC[c] \in {"waitConns", "lock", "waitRun", "closed"})
      /\ closeMx = c <=> closerPC[c] = "waitRun"
      /\ c = "listener" => closerPC[c] \notin {"waitConns", "lock", "closed"}
      /\ c # "listener" => closerPC[c] # "onClose"
    BY DEF ServerInv, LocksInv
<1>3. CloseUnchanged
    BY DEF CloseStep, TransportCloseStart, TransportConnsEnded, ServerCloseStart, ServerCloseEnd, TransportCloseEnd,
           CloseServer, CloseReturns
<1>4. UNCHANGED <<connQueue, accepted>>
    BY <1>3 DEF CloseUnchanged, acceptVars
<1>5. UNCHANGED srvConns => (srvConns' \in Seq(ConnRec) /\ NoConnForgotten')
    BY <1>1, <1>4, ConnsStay
<1>6. CASE TransportCloseStart(c)
  <2>1. closerPC[c] = "start" /\ c # "listener" /\ tMutex = "free" /\ UNCHANGED closeMx
      BY <1>6 DEF TransportCloseStart
  <2>2. CASE tClosed
    <3>1. goTo(c, "waitListen") /\ UNCHANGED <<tMutex, srvConns>>
        BY <1>6, <2>2 DEF TransportCloseStart
    <3> QED
        BY <1>1, <1>2, <1>3, <1>5, <2>1, <3>1, GoesTo
  <2>3. CASE ~tClosed
    <3> DEFINE S == {n \in Conns : isLive(n) /\ ~mapClosed}
    <3>1. /\ tMutex' = c /\ goTo(c, "waitConns")
          /\ srvConns' = [n \in Conns |-> IF n \in S THEN [srvConns[n] EXCEPT !.asked = TRUE] ELSE srvConns[n]]
        BY <1>6, <2>3 DEF TransportCloseStart
    <3> HIDE DEF S
    <3>2. srvConns' \in Seq(ConnRec) /\ NoConnForgotten'
        BY <1>4, <3>1, ConnsAsked
    <3> QED
        BY <1>1, <1>2, <1>3, <2>1, <3>1, <3>2, GoesTo
  <2> QED
      BY <2>2, <2>3
<1>7. CASE TransportConnsEnded(c)
  <2>1. /\ closerPC[c] = "waitConns" /\ UNCHANGED <<tMutex, closeMx, srvConns>>
        /\ goTo(c, "lock") \/ goTo(c, "closed")
      BY <1>7 DEF TransportConnsEnded
  <2> QED
      BY <1>1, <1>2, <1>3, <1>5, <2>1, GoesTo
<1>8. CASE ServerCloseStart(c)
  <2>1. /\ closerPC[c] = (IF c = "listener" THEN "start" ELSE "lock") /\ closeMx = "free"
        /\ UNCHANGED <<tMutex, srvConns>>
      BY <1>8 DEF ServerCloseStart
  <2>2. CASE errorChan
    <3>1. goTo(c, IF c = "listener" THEN "done" ELSE "closed") /\ UNCHANGED closeMx
        BY <1>8, <2>2 DEF ServerCloseStart
    <3>2. CASE c = "listener"
        BY <1>1, <1>2, <1>3, <1>5, <2>1, <3>1, <3>2, GoesTo
    <3>3. CASE c # "listener"
        BY <1>1, <1>2, <1>3, <1>5, <2>1, <3>1, <3>3, GoesTo
    <3> QED
        BY <3>2, <3>3
  <2>3. CASE ~errorChan
    <3>1. goTo(c, "waitRun") /\ closeMx' = c
        BY <1>8, <2>3 DEF ServerCloseStart
    <3> QED
        BY <1>1, <1>2, <1>3, <1>5, <2>1, <3>1, GoesTo
  <2> QED
      BY <2>2, <2>3
<1>9. CASE ServerCloseEnd(c)
  <2>1. /\ closerPC[c] = "waitRun" /\ closeMx' = "free" /\ UNCHANGED <<tMutex, srvConns>>
        /\ goTo(c, IF c = "listener" THEN "onClose" ELSE "closed")
      BY <1>9 DEF ServerCloseEnd, notifyOnClose
  <2>2. CASE c = "listener"
      BY <1>1, <1>2, <1>3, <1>5, <2>1, <2>2, GoesTo
  <2>3. CASE c # "listener"
      BY <1>1, <1>2, <1>3, <1>5, <2>1, <2>3, GoesTo
  <2> QED
      BY <2>2, <2>3
<1>10. CASE TransportCloseEnd(c)
  <2>1. closerPC[c] = "closed" /\ tMutex' = "free" /\ UNCHANGED <<closeMx, srvConns>> /\ goTo(c, "waitListen")
      BY <1>10 DEF TransportCloseEnd
  <2> QED
      BY <1>1, <1>2, <1>3, <1>5, <2>1, GoesTo
<1>11. CASE CloseServer(c)
  <2>1. /\ closerPC[c] = "onClose" /\ tMutex = "free" /\ UNCHANGED <<tMutex, closeMx, srvConns>>
        /\ goTo(c, "waitListen") \/ goTo(c, "done")
      BY <1>11 DEF CloseServer
  <2> QED
      BY <1>1, <1>2, <1>3, <1>5, <2>1, GoesTo
<1>12. CASE CloseReturns(c)
  <2>1. closerPC[c] = "waitListen" /\ UNCHANGED <<tMutex, closeMx, srvConns>> /\ goTo(c, "done")
      BY <1>12 DEF CloseReturns
  <2> QED
      BY <1>1, <1>2, <1>3, <1>5, <2>1, GoesTo
<1> QED
    BY <1>6, <1>7, <1>8, <1>9, <1>10, <1>11, <1>12 DEF CloseStep

-----------------------------------------------------------------------------
\* A new server.
LEMMA ServerInitInv == ServerInit => ServerInv
<1> SUFFICES ASSUME ServerInit PROVE ServerInv
    OBVIOUS
<1>1. ServerType
    BY DEF ServerInit, ServerType, Closers
<1>2. DOMAIN zeroRTTQueues = {} /\ zeroRTTQueues = <<>> /\ nextZeroRTTCleanup = 0
    BY DEF ServerInit
<1>3. IsFiniteSet({}) /\ Cardinality({}) = 0
    BY FS_EmptySet
<1>4. Cardinality(DOMAIN zeroRTTQueues) <= Max0RTTQueues
    BY <1>2, <1>3, EarlyDataAssumption
<1>5. Early(zeroRTTQueues, nextZeroRTTCleanup)
    BY <1>2, <1>3, <1>4 DEF Early
<1>6. NoConnForgotten
    BY DEF ServerInit, NoConnForgotten, Conns
<1>7. LocksInv
    BY DEF ServerInit, LocksInv, Closers
<1> QED
    BY <1>1, <1>2, <1>5, <1>6, <1>7 DEF ServerInv

\* Every step.
LEMMA ServerNextInv == ServerInv /\ [ServerNext]_srvVars => ServerInv'
<1> SUFFICES ASSUME ServerInv, [ServerNext]_srvVars PROVE ServerInv'
    OBVIOUS
<1>1. CASE \E id \in ClientIDs, type \in PacketTypes, tok \in Tokens :
              (type = "Initial" \/ tok = "none") /\ TransportHandlePacket(id, type, tok)
    BY <1>1, TransportHandlePacketInv
<1>2. CASE \E r \in Replies : RunSendQueue(r)
    BY <1>2, RunSendQueueInv
<1>3. CASE SrvTick \/ ServerRun \/ ServerRunEnds \/ Accept \/ ListenReturns
    BY <1>3, SrvTickInv, ServerRunInv, ServerRunEndsInv, AcceptInv, ListenReturnsInv
<1>4. CASE \E n \in Conns : ConnReady(n) \/ ConnEnds(n) \/ WaitForConn(n)
    BY <1>4, ConnReadyInv, ConnEndsInv, WaitForConnInv
<1>5. CASE \E id \in DOMAIN srvHandlers : HandlerDeleted(id)
    BY <1>5, HandlerDeletedInv
<1>6. CASE \E c \in Closers : CloseStep(c)
    BY <1>6, CloseStepInv
<1>7. CASE UNCHANGED srvVars
  <2>1. UNCHANGED <<srvPackets, earlyVars, srvConns, srvHandlers, connQueue, accepted, tMutex, closeMx, closerPC, srvClock>>
      BY <1>7 DEF srvVars, sockVars, connVars, acceptVars, closeVars
  <2> QED
      BY <2>1, OtherStep DEF ServerInv, ServerType
<1> QED
    BY <1>1, <1>2, <1>3, <1>4, <1>5, <1>6, <1>7 DEF ServerNext

\* What follows from the invariant.
LEMMA ServerImplies == ServerInv => NoConnForgotten /\ EarlyDataExpires /\ LocksAreOrdered
<1> SUFFICES ASSUME ServerInv PROVE EarlyDataExpires /\ LocksAreOrdered
    BY DEF ServerInv
<1>1. EarlyDataExpires
  <2>1. \A id \in DOMAIN zeroRTTQueues : nextZeroRTTCleanup \in 1 .. zeroRTTQueues[id].expiration
      BY DEF ServerInv, Early
  <2> QED
      BY <2>1 DEF ServerInv, Early, EarlyDataExpires
<1>2. LocksAreOrdered
    BY DEF ServerInv, ServerType, LocksInv, LocksAreOrdered, Closers
<1> QED
    BY <1>1, <1>2

\* server.go: for any number of connections, one that completed its handshake is on its way to the
\* application, refused or ended, whenever the server or the Transport is closed.
THEOREM NoConnectionForgotten == ServerSpec => []NoConnForgotten
BY ServerInitInv, ServerNextInv, ServerImplies, PTL DEF ServerSpec

\* server.go handle0RTTPacket and cleanupZeroRTTQueues: for any number of queues and packets, the
\* queued early packets stay within Max0RTTQueues and a cleanup is due no later than the first expires.
THEOREM EarlyPacketsExpire == ServerSpec => []EarlyDataExpires
BY ServerInitInv, ServerNextInv, ServerImplies, PTL DEF ServerSpec

\* transport.go and server.go: the close calls of a listener, a Transport and a failing socket take
\* Transport.mutex before closeMx, and a call that waits for either holds neither.
THEOREM CloseCallsOrderLocks == ServerSpec => []LocksAreOrdered
BY ServerInitInv, ServerNextInv, ServerImplies, PTL DEF ServerSpec

-----------------------------------------------------------------------------
(* The HTTP/3 client (http3/roundtrip.go, http3/client.go).                *)
ClientRec ==
    [dial: {"idle", "dialing", "failed", "done"}, conn: {"none", "early", "ready", "timeout", "closed"},
     complete: BOOLEAN, receivedSettings: BOOLEAN, useCount: Nat]
ReqRec ==
    [pc: {"start", "dialOnce", "dialing", "handshake", "settings", "open", "do", "failed", "error", "response",
          "panicked"},
     cl: Nat, isReused: BOOLEAN, timeout: BOOLEAN, get0RTT: BOOLEAN, checkSettings: BOOLEAN]

\* The requests that have a client and have not returned.
UsersIn(rq, c) == {r \in Requests : rq[r].cl = c /\ rq[r].pc \notin {"failed", "response"}}

\* Requests that are under way have a client.
ClientOfRequest ==
    \A r \in Requests : /\ req[r].cl <= Len(clients)
                        /\ req[r].pc \notin {"start", "failed"} => req[r].cl >= 1

\* No request that uses a client is missing from its count.
UseInv == \A c \in 1 .. Len(clients) : Cardinality(UsersIn(req, c)) <= clients[c].useCount

ClientInv == RequestsTypeOK /\ ClientOfRequest /\ UseInv /\ FailedClientIsRemoved

\* A client that CloseIdleConnections finds idle is used by no request (http3/roundtrip.go).
IdleClientIsUnused ==
    cached # NoClient /\ clients[cached].useCount = 0 =>
       \A r \in Requests : req[r].cl = cached => req[r].pc \in {"failed", "response"}

-----------------------------------------------------------------------------
\* What a step starts from.
LEMMA ClientFacts ==
    ASSUME ClientInv
    PROVE  /\ clients \in Seq(ClientRec) /\ cached \in 0 .. Len(clients) /\ Len(clients) \in Nat
           /\ req \in [Requests -> ReqRec] /\ ctx \in [Requests -> {"open", "canceled", "deadline"}]
           /\ \A r \in Requests : req[r].cl <= Len(clients)
           /\ \A r \in Requests : req[r].pc \notin {"start", "failed"} => req[r].cl \in 1 .. Len(clients)
           /\ \A c \in 1 .. Len(clients) : clients[c] \in ClientRec
           /\ FailedClientIsRemoved
<1>1. /\ clients \in Seq(ClientRec) /\ cached \in 0 .. Len(clients)
      /\ req \in [Requests -> ReqRec] /\ ctx \in [Requests -> {"open", "canceled", "deadline"}]
    BY DEF ClientInv, RequestsTypeOK, ClientRec, ReqRec
<1>2. \A r \in Requests : req[r].cl \in Nat
    BY <1>1 DEF ReqRec
<1> HIDE DEF ClientRec, ReqRec
<1>3. Len(clients) \in Nat /\ \A c \in 1 .. Len(clients) : clients[c] \in ClientRec
    BY <1>1
<1>4. \A r \in Requests : req[r].cl <= Len(clients) /\ (req[r].pc \notin {"start", "failed"} => req[r].cl >= 1)
    BY DEF ClientInv, ClientOfRequest
<1>5. \A r \in Requests : req[r].pc \notin {"start", "failed"} => req[r].cl \in 1 .. Len(clients)
    BY <1>2, <1>3, <1>4
<1> QED
    BY <1>1, <1>3, <1>4, <1>5 DEF ClientInv

\* The count of a client that no request starts to use.
LEMMA FewerUsers ==
    ASSUME NEW rq, NEW rp, NEW c, NEW n \in Nat, Cardinality(UsersIn(rq, c)) <= n,
           UsersIn(rp, c) \subseteq UsersIn(rq, c)
    PROVE  Cardinality(UsersIn(rp, c)) <= n
<1>1. IsFiniteSet(UsersIn(rq, c))
    BY RequestsAssumption, FS_Subset DEF UsersIn
<1>2. /\ IsFiniteSet(UsersIn(rp, c)) /\ Cardinality(UsersIn(rp, c)) <= Cardinality(UsersIn(rq, c))
    BY <1>1, FS_Subset
<1>3. Cardinality(UsersIn(rp, c)) \in Nat /\ Cardinality(UsersIn(rq, c)) \in Nat
    BY <1>1, <1>2, FS_CardinalityType
<1> QED
    BY <1>2, <1>3

\* One request returns.
LEMMA OneUserLess ==
    ASSUME NEW rq, NEW rp, NEW c, NEW n \in Nat, Cardinality(UsersIn(rq, c)) <= n,
           NEW r \in UsersIn(rq, c), UsersIn(rp, c) = UsersIn(rq, c) \ {r}
    PROVE  n - 1 \in Nat /\ Cardinality(UsersIn(rp, c)) <= n - 1
<1>1. IsFiniteSet(UsersIn(rq, c))
    BY RequestsAssumption, FS_Subset DEF UsersIn
<1>2. /\ IsFiniteSet(UsersIn(rp, c)) /\ Cardinality(UsersIn(rp, c)) = Cardinality(UsersIn(rq, c)) - 1
    BY <1>1, FS_RemoveElement
<1>3. Cardinality(UsersIn(rp, c)) \in Nat /\ Cardinality(UsersIn(rq, c)) \in Nat
    BY <1>1, <1>2, FS_CardinalityType
<1> QED
    BY <1>2, <1>3

\* One request takes the client.
LEMMA OneUserMore ==
    ASSUME NEW rq, NEW rp, NEW c, NEW n \in Nat, Cardinality(UsersIn(rq, c)) <= n,
           NEW r, UsersIn(rp, c) \subseteq UsersIn(rq, c) \cup {r}
    PROVE  Cardinality(UsersIn(rp, c)) <= n + 1
<1>1. IsFiniteSet(UsersIn(rq, c))
    BY RequestsAssumption, FS_Subset DEF UsersIn
<1>2. /\ IsFiniteSet(UsersIn(rq, c) \cup {r})
      /\ Cardinality(UsersIn(rq, c) \cup {r}) <= Cardinality(UsersIn(rq, c)) + 1
  <2>1. CASE r \in UsersIn(rq, c)
    <3>1. UsersIn(rq, c) \cup {r} = UsersIn(rq, c)
        BY <2>1
    <3>2. Cardinality(UsersIn(rq, c)) \in Nat
        BY <1>1, FS_CardinalityType
    <3> DEFINE n1 == Cardinality(UsersIn(rq, c))
    <3>3. n1 <= n1 + 1
      <4> HIDE DEF n1
      <4>1. n1 \in Nat
          BY <3>2 DEF n1
      <4> QED
          BY <4>1
    <3> QED
        BY <1>1, <3>1, <3>3
  <2>2. CASE r \notin UsersIn(rq, c)
      BY SMTT(60), <1>1, <2>2, FS_AddElement, FS_CardinalityType
  <2> QED
      BY <2>1, <2>2
<1>3. Cardinality(UsersIn(rp, c)) <= Cardinality(UsersIn(rq, c) \cup {r}) /\ IsFiniteSet(UsersIn(rp, c))
    BY <1>2, FS_Subset
<1>4. /\ Cardinality(UsersIn(rp, c)) \in Nat /\ Cardinality(UsersIn(rq, c)) \in Nat
      /\ Cardinality(UsersIn(rq, c) \cup {r}) \in Nat
    BY <1>1, <1>2, <1>3, FS_CardinalityType
<1> QED
    BY <1>2, <1>3, <1>4

\* A step of one request or client that changes no count and no request's client.
LEMMA QuietStep ==
    ASSUME ClientInv,
           clients' \in Seq(ClientRec), Len(clients') = Len(clients),
           \A c \in 1 .. Len(clients) : clients'[c].useCount = clients[c].useCount,
           cached' \in {cached, NoClient},
           req' \in [Requests -> ReqRec], ctx' \in [Requests -> {"open", "canceled", "deadline"}],
           \A r \in Requests : /\ req'[r].cl = req[r].cl
                               /\ req[r].pc \in {"failed", "response"} => req'[r].pc \in {"failed", "response"}
                               /\ req'[r].pc \notin {"start", "failed"} => req[r].pc \notin {"start", "failed"},
           FailedClientIsRemoved'
    PROVE  ClientInv'
<1>1. RequestsTypeOK'
    BY ClientFacts DEF RequestsTypeOK, ClientRec, ReqRec, NoClient
<1>2. ClientOfRequest'
    BY DEF ClientInv, ClientOfRequest
<1>3. UseInv'
  <2> SUFFICES ASSUME NEW c \in 1 .. Len(clients)
               PROVE  Cardinality(UsersIn(req', c)) <= clients[c].useCount
      BY DEF UseInv
  <2>1. UsersIn(req', c) \subseteq UsersIn(req, c)
      BY DEF UsersIn
  <2>2. Cardinality(UsersIn(req, c)) <= clients[c].useCount /\ clients[c].useCount \in Nat
      BY ClientFacts DEF ClientInv, UseInv, ClientRec
  <2> QED
      BY <2>1, <2>2, FewerUsers
<1> QED
    BY <1>1, <1>2, <1>3 DEF ClientInv

\* A field of a client is set.
LEMMA SetClient ==
    ASSUME NEW s \in Seq(ClientRec), NEW c \in 1 .. Len(s), NEW v \in ClientRec
    PROVE  /\ [s EXCEPT ![c] = v] \in Seq(ClientRec) /\ Len([s EXCEPT ![c] = v]) = Len(s)
           /\ [s EXCEPT ![c] = v][c] = v
           /\ \A d \in 1 .. Len(s) : d # c => [s EXCEPT ![c] = v][d] = s[d]
<1> HIDE DEF ClientRec
<1> QED
    OBVIOUS

-----------------------------------------------------------------------------
(* Connections *)

\* A connection changes its state or receives SETTINGS: requests, counts and dials stay.
LEMMA ClientConnStep ==
    ASSUME ClientInv, NEW c \in 1 .. Len(clients), NEW v \in ClientRec,
           clients' = [clients EXCEPT ![c] = v], v.useCount = clients[c].useCount, v.dial = clients[c].dial,
           cached' \in {cached, NoClient}, UNCHANGED <<req, ctx>>
    PROVE  ClientInv'
<1>1. /\ clients' \in Seq(ClientRec) /\ Len(clients') = Len(clients) /\ clients'[c] = v
      /\ \A d \in 1 .. Len(clients) : d # c => clients'[d] = clients[d]
    BY ClientFacts, SetClient
<1>2. \A d \in 1 .. Len(clients) : clients'[d].useCount = clients[d].useCount /\ clients'[d].dial = clients[d].dial
    BY <1>1
<1>3. FailedClientIsRemoved'
  <2>1. cached' # NoClient => cached' = cached /\ cached \in 1 .. Len(clients)
      BY ClientFacts DEF NoClient
  <2> QED
      BY <1>2, <2>1, ClientFacts DEF FailedClientIsRemoved
<1>4. req' \in [Requests -> ReqRec] /\ ctx' \in [Requests -> {"open", "canceled", "deadline"}]
    BY ClientFacts
<1> QED
    BY <1>1, <1>2, <1>3, <1>4, QuietStep

\* The connection changes, the requests and their counts do not.
LEMMA CompleteHandshakeInv == ASSUME ClientInv, CompleteHandshake PROVE ClientInv'
<1>1. PICK c \in 1 .. Len(clients) :
         clients' = [clients EXCEPT ![c] = [clients[c] EXCEPT !.conn = "ready", !.complete = TRUE]]
    BY ZenonT(60) DEF CompleteHandshake
<1> DEFINE v == [clients[c] EXCEPT !.conn = "ready", !.complete = TRUE]
<1>2. v \in ClientRec /\ v.useCount = clients[c].useCount /\ v.dial = clients[c].dial
    BY ClientFacts DEF ClientRec
<1> QED
    BY <1>1, <1>2, ClientConnStep DEF CompleteHandshake

LEMMA ReceiveSettingsInv == ASSUME ClientInv, ReceiveSettings PROVE ClientInv'
<1>1. PICK c \in 1 .. Len(clients) :
         clients' = [clients EXCEPT ![c] = [clients[c] EXCEPT !.receivedSettings = TRUE]]
    BY DEF ReceiveSettings
<1> DEFINE v == [clients[c] EXCEPT !.receivedSettings = TRUE]
<1>2. v \in ClientRec /\ v.useCount = clients[c].useCount /\ v.dial = clients[c].dial
    BY ClientFacts DEF ClientRec
<1> QED
    BY <1>1, <1>2, ClientConnStep DEF ReceiveSettings

LEMMA FailConnectionInv == ASSUME ClientInv, FailConnection PROVE ClientInv'
<1>1. PICK c \in 1 .. Len(clients), how \in {"timeout", "closed"} :
         clients' = [clients EXCEPT ![c] = [clients[c] EXCEPT !.conn = how]]
    BY DEF FailConnection
<1> DEFINE v == [clients[c] EXCEPT !.conn = how]
<1>2. v \in ClientRec /\ v.useCount = clients[c].useCount /\ v.dial = clients[c].dial
    BY ClientFacts DEF ClientRec
<1> QED
    BY <1>1, <1>2, ClientConnStep DEF FailConnection

\* The transport is closed and with it every connection: no dial and no count changes.
LEMMA CloseTransport ==
    ASSUME ClientInv, cached' = NoClient, UNCHANGED <<req, ctx>>,
           clients' = [c \in 1 .. Len(clients) |-> closeClient(c)[c]]
    PROVE  ClientInv'
<1>1. ASSUME NEW c \in 1 .. Len(clients)
      PROVE  closeClient(c)[c] \in ClientRec /\ closeClient(c)[c].useCount = clients[c].useCount
  <2> DEFINE v == [clients[c] EXCEPT !.conn = "closed"]
  <2>1. clients[c] \in ClientRec
      BY ClientFacts
  <2>2. v \in ClientRec /\ v.useCount = clients[c].useCount
      BY <2>1 DEF ClientRec
  <2>3. closeClient(c)[c] \in {v, clients[c]}
      BY ClientFacts DEF closeClient
  <2> QED
      BY <2>1, <2>2, <2>3
<1>2. Len(clients) \in Nat
    BY ClientFacts
<1>3. /\ clients' \in Seq(ClientRec) /\ Len(clients') = Len(clients)
      /\ \A c \in 1 .. Len(clients) : clients'[c] = closeClient(c)[c]
  <2> HIDE DEF ClientRec
  <2> QED
      BY <1>1, <1>2
<1>4. FailedClientIsRemoved'
    BY DEF FailedClientIsRemoved
<1> QED
    BY <1>1, <1>3, <1>4, ClientFacts, QuietStep

\* The cached client is given up, its connection perhaps closed.
LEMMA GiveUpClient ==
    ASSUME ClientInv, cached' = NoClient, UNCHANGED <<req, ctx>>,
           clients' = clients \/ (cached # NoClient /\ clients' = closeClient(cached))
    PROVE  ClientInv'
<1>1. CASE clients' = clients
  <2>1. FailedClientIsRemoved'
      BY DEF FailedClientIsRemoved
  <2> QED
      BY <1>1, <2>1, ClientFacts, QuietStep
<1>2. CASE clients' # clients
  <2> DEFINE v == [clients[cached] EXCEPT !.conn = "closed"]
  <2>1. cached \in 1 .. Len(clients)
      BY <1>2, ClientFacts DEF NoClient
  <2>2. v \in ClientRec /\ v.useCount = clients[cached].useCount /\ v.dial = clients[cached].dial
      BY <2>1, ClientFacts DEF ClientRec
  <2>3. clients' = [clients EXCEPT ![cached] = v]
      BY <1>2 DEF closeClient
  <2> QED
      BY <2>1, <2>2, <2>3, ClientConnStep
<1> QED
    BY <1>1, <1>2

-----------------------------------------------------------------------------
(* Requests *)

\* A request goes from one of its states to another, and its client stays.
LEMMA RequestStep ==
    ASSUME ClientInv, NEW r \in Requests, NEW v \in ReqRec, req' = [req EXCEPT ![r] = v],
           v.cl = req[r].cl, req[r].pc \notin {"start", "failed", "response", "error"},
           v.pc \notin {"start", "failed"},
           UNCHANGED <<clients, cached, ctx>>,
           (cached # NoClient /\ req[r].cl = cached /\ clients[cached].dial = "failed" /\ req[r].pc = "dialOnce")
             => v.pc \in {"dialOnce", "error"}
    PROVE  ClientInv'
<1>1. /\ req' \in [Requests -> ReqRec] /\ req'[r] = v
      /\ \A x \in Requests : x # r => req'[x] = req[x]
  <2> HIDE DEF ReqRec
  <2> QED
      BY ClientFacts
<1>2. FailedClientIsRemoved'
  <2> SUFFICES ASSUME cached # NoClient, clients[cached].dial = "failed"
               PROVE  \E x \in Requests : req'[x].cl = cached /\ req'[x].pc \in {"dialOnce", "error"}
      BY DEF FailedClientIsRemoved
  <2>1. PICK x \in Requests : req[x].cl = cached /\ req[x].pc \in {"dialOnce", "error"}
      BY ClientFacts DEF FailedClientIsRemoved
  <2> QED
      BY <1>1, <2>1
<1>3. \A x \in Requests : /\ req'[x].cl = req[x].cl
                          /\ req[x].pc \in {"failed", "response"} => req'[x].pc \in {"failed", "response"}
                          /\ req'[x].pc \notin {"start", "failed"} => req[x].pc \notin {"start", "failed"}
    BY <1>1
<1>4. /\ clients' \in Seq(ClientRec) /\ Len(clients') = Len(clients)
      /\ \A c \in 1 .. Len(clients) : clients'[c].useCount = clients[c].useCount
      /\ ctx' \in [Requests -> {"open", "canceled", "deadline"}]
    BY ClientFacts
<1> QED
    BY <1>1, <1>2, <1>3, <1>4, QuietStep

\* An error of a request is one of its states.
LEMMA FailsFacts ==
    ASSUME ClientInv, NEW r \in Requests, NEW isTimeout \in BOOLEAN
    PROVE  LET v == [req[r] EXCEPT !.pc = "error", !.timeout = errorOf(r, isTimeout)]
           IN  v \in ReqRec /\ v.cl = req[r].cl /\ v.pc = "error" /\ fails(r, isTimeout) = [req EXCEPT ![r] = v]
<1>1. errorOf(r, isTimeout) \in BOOLEAN
    BY DEF errorOf
<1>2. req[r] \in ReqRec
    BY ClientFacts
<1> QED
    BY <1>1, <1>2 DEF fails, ReqRec

\* A context that ends changes no client.
LEMMA EndContextInv == ASSUME ClientInv, EndContext PROVE ClientInv'
<1>1. PICK r \in Requests, how \in {"canceled", "deadline"} : ctx' = [ctx EXCEPT ![r] = how]
    BY DEF EndContext
<1>2. UNCHANGED <<clients, cached, req>>
    BY DEF EndContext
<1>3. ctx' \in [Requests -> {"open", "canceled", "deadline"}]
    BY <1>1, ClientFacts
<1>4. FailedClientIsRemoved'
    BY <1>2, ClientFacts DEF FailedClientIsRemoved
<1> QED
    BY <1>2, <1>3, <1>4, ClientFacts, QuietStep

\* A request and its client change together.
LEMMA DialStep ==
    ASSUME ClientInv, NEW r \in Requests, NEW v \in ClientRec, NEW w \in ReqRec,
           req[r].pc \in {"dialOnce", "dialing"},
           clients' = [clients EXCEPT ![req[r].cl] = v], v.useCount = clients[req[r].cl].useCount,
           req' = [req EXCEPT ![r] = w], w.cl = req[r].cl, w.pc \notin {"start", "failed"},
           v.dial = "failed" => w.pc = "error",
           UNCHANGED <<cached, ctx>>
    PROVE  ClientInv'
<1> DEFINE c == req[r].cl
<1>1. c \in 1 .. Len(clients)
    BY ClientFacts
<1>2. /\ clients' \in Seq(ClientRec) /\ Len(clients') = Len(clients) /\ clients'[c] = v
      /\ \A d \in 1 .. Len(clients) : d # c => clients'[d] = clients[d]
    BY <1>1, ClientFacts, SetClient
<1>3. /\ req' \in [Requests -> ReqRec] /\ req'[r] = w
      /\ \A x \in Requests : x # r => req'[x] = req[x]
  <2> HIDE DEF ReqRec
  <2> QED
      BY ClientFacts
<1>4. \A d \in 1 .. Len(clients) : clients'[d].useCount = clients[d].useCount
    BY <1>2
<1>5. FailedClientIsRemoved'
  <2> SUFFICES ASSUME cached # NoClient, clients'[cached].dial = "failed"
               PROVE  \E x \in Requests : req'[x].cl = cached /\ req'[x].pc \in {"dialOnce", "error"}
      BY DEF FailedClientIsRemoved
  <2>1. CASE cached = c
      BY <1>2, <1>3, <2>1
  <2>2. CASE cached # c
    <3>1. cached \in 1 .. Len(clients)
        BY ClientFacts DEF NoClient
    <3>2. clients[cached].dial = "failed"
        BY <1>2, <2>2, <3>1
    <3>3. PICK x \in Requests : req[x].cl = cached /\ req[x].pc \in {"dialOnce", "error"}
        BY <3>2, ClientFacts DEF FailedClientIsRemoved
    <3>4. x # r
        BY <2>2, <3>3
    <3> QED
        BY <1>3, <3>3, <3>4
  <2> QED
      BY <2>1, <2>2
<1>6. \A x \in Requests : /\ req'[x].cl = req[x].cl
                          /\ req[x].pc \in {"failed", "response"} => req'[x].pc \in {"failed", "response"}
                          /\ req'[x].pc \notin {"start", "failed"} => req[x].pc \notin {"start", "failed"}
    BY <1>3
<1>7. cached' \in {cached, NoClient} /\ ctx' \in [Requests -> {"open", "canceled", "deadline"}]
    BY ClientFacts
<1> QED
    BY <1>2, <1>3, <1>4, <1>5, <1>6, <1>7, QuietStep

\* A request returns and the use count of its client goes down.
LEMMA ReturnStep ==
    ASSUME ClientInv, NEW r \in Requests, NEW w \in ReqRec,
           req[r].cl \in 1 .. Len(clients), req[r].pc \notin {"failed", "response"},
           req' = [req EXCEPT ![r] = w], w.cl = req[r].cl, w.pc \in {"failed", "response"},
           clients' = [clients EXCEPT ![req[r].cl].useCount = @ - 1],
           cached' \in {cached, NoClient}, UNCHANGED ctx,
           req[r].pc \in {"dialOnce", "error"} => cached' = NoClient
    PROVE  ClientInv'
<1> DEFINE c == req[r].cl
<1> DEFINE v == [clients[c] EXCEPT !.useCount = @ - 1]
<1>1. /\ req' \in [Requests -> ReqRec] /\ req'[r] = w
      /\ \A x \in Requests : x # r => req'[x] = req[x]
  <2> HIDE DEF ReqRec
  <2> QED
      BY ClientFacts
<1>2. clients[c] \in ClientRec /\ clients[c].useCount \in Nat /\ Cardinality(UsersIn(req, c)) <= clients[c].useCount
    BY ClientFacts DEF ClientInv, UseInv, ClientRec
<1>3. r \in UsersIn(req, c) /\ UsersIn(req', c) = UsersIn(req, c) \ {r}
    BY <1>1 DEF UsersIn
<1>4. clients[c].useCount - 1 \in Nat /\ Cardinality(UsersIn(req', c)) <= clients[c].useCount - 1
    BY <1>2, <1>3, OneUserLess
<1>5. v \in ClientRec /\ v.useCount = clients[c].useCount - 1 /\ v.dial = clients[c].dial
    BY <1>2, <1>4 DEF ClientRec
<1>6. /\ clients' \in Seq(ClientRec) /\ Len(clients') = Len(clients) /\ clients'[c] = v
      /\ \A d \in 1 .. Len(clients) : d # c => clients'[d] = clients[d]
  <2>1. clients' = [clients EXCEPT ![c] = v]
      OBVIOUS
  <2> HIDE DEF v
  <2> QED
      BY <1>5, <2>1, ClientFacts, SetClient
<1>7. RequestsTypeOK'
    BY <1>1, <1>6, ClientFacts DEF RequestsTypeOK, ClientRec, ReqRec, NoClient
<1>8. ClientOfRequest'
    BY <1>1, <1>6 DEF ClientInv, ClientOfRequest
<1>9. UseInv'
  <2> SUFFICES ASSUME NEW d \in 1 .. Len(clients)
               PROVE  Cardinality(UsersIn(req', d)) <= clients'[d].useCount
      BY <1>6 DEF UseInv
  <2>1. CASE d = c
      BY <1>4, <1>5, <1>6, <2>1
  <2>2. CASE d # c
    <3>1. UsersIn(req', d) \subseteq UsersIn(req, d)
        BY <1>1 DEF UsersIn
    <3>2. Cardinality(UsersIn(req, d)) <= clients[d].useCount /\ clients[d].useCount \in Nat
        BY ClientFacts DEF ClientInv, UseInv, ClientRec
    <3> QED
        BY <1>6, <2>2, <3>1, <3>2, FewerUsers
  <2> QED
      BY <2>1, <2>2
<1>10. FailedClientIsRemoved'
  <2> SUFFICES ASSUME cached' # NoClient, clients'[cached'].dial = "failed"
               PROVE  \E x \in Requests : req'[x].cl = cached' /\ req'[x].pc \in {"dialOnce", "error"}
      BY DEF FailedClientIsRemoved
  <2>1. cached' = cached /\ cached \in 1 .. Len(clients)
      BY ClientFacts DEF NoClient
  <2>2. clients[cached].dial = "failed"
      BY <1>5, <1>6, <2>1
  <2>3. PICK x \in Requests : req[x].cl = cached /\ req[x].pc \in {"dialOnce", "error"}
      BY <2>1, <2>2, ClientFacts DEF FailedClientIsRemoved
  <2>4. x # r
      BY <2>3
  <2> QED
      BY <1>1, <2>1, <2>3, <2>4
<1> QED
    BY <1>7, <1>8, <1>9, <1>10 DEF ClientInv

\* getClient counts the request that takes the client.
LEMMA getClientInv == ASSUME ClientInv, NEW r \in Requests, getClient(r) PROVE ClientInv'
<1>1. req[r].pc = "start" /\ UNCHANGED ctx
    BY DEF getClient
<1>2. CASE cached = NoClient
  <2> DEFINE n == Len(clients) + 1
  <2> DEFINE w == [req[r] EXCEPT !.pc = "dialOnce", !.cl = n, !.isReused = FALSE]
  <2>1. clients' = Append(clients, newClient) /\ cached' = n /\ req' = [req EXCEPT ![r] = w]
      BY <1>2 DEF getClient
  <2>2. newClient \in ClientRec /\ newClient.dial = "idle" /\ newClient.useCount = 1
      BY DEF newClient, ClientRec
  <2>3. /\ clients' \in Seq(ClientRec) /\ Len(clients') = n /\ clients'[n] = newClient
        /\ \A d \in 1 .. Len(clients) : clients'[d] = clients[d]
    <3> HIDE DEF ClientRec
    <3> QED
        BY <2>1, <2>2, ClientFacts
  <2>4. w \in ReqRec /\ w.pc = "dialOnce" /\ w.cl = n /\ n \in Nat /\ n >= 1
    <3>1. n \in Nat /\ n >= 1 /\ req[r] \in ReqRec
        BY ClientFacts
    <3> HIDE DEF n
    <3> QED
        BY <3>1 DEF ReqRec
  <2>5. /\ req' \in [Requests -> ReqRec] /\ req'[r] = w
        /\ \A x \in Requests : x # r => req'[x] = req[x]
    <3> HIDE DEF ReqRec, w
    <3> QED
        BY <2>1, <2>4, ClientFacts
  <2>6. RequestsTypeOK'
    <3>1. cached' \in 0 .. Len(clients')
        BY <2>1, <2>3, ClientFacts
    <3> QED
        BY <1>1, <2>3, <2>5, <3>1, ClientFacts DEF RequestsTypeOK, ClientRec, ReqRec
  <2>7. \A x \in Requests : req[x].cl \in Nat /\ req[x].cl <= Len(clients)
      BY ClientFacts DEF ReqRec
  <2>8. ClientOfRequest'
    <3> SUFFICES ASSUME NEW x \in Requests
                 PROVE  req'[x].cl <= n /\ (req'[x].pc \notin {"start", "failed"} => req'[x].cl >= 1)
        BY <2>3 DEF ClientOfRequest
    <3>1. CASE x = r
      <4> HIDE DEF n, w
      <4> QED
          BY <2>4, <2>5, <3>1
    <3>2. CASE x # r
        BY <2>5, <2>7, <3>2, ClientFacts DEF ClientInv, ClientOfRequest
    <3> QED
        BY <3>1, <3>2
  <2>9. UseInv'
    <3> SUFFICES ASSUME NEW d \in 1 .. n
                 PROVE  Cardinality(UsersIn(req', d)) <= clients'[d].useCount
        BY <2>3 DEF UseInv
    <3>1. CASE d = n
      <4>1. UsersIn(req, d) = {}
          BY <2>7, <3>1, ClientFacts DEF UsersIn
      <4>2. Cardinality(UsersIn(req, d)) <= 0
          BY <4>1, FS_EmptySet
      <4>3. UsersIn(req', d) \subseteq UsersIn(req, d) \cup {r}
          BY <2>5 DEF UsersIn
      <4>4. Cardinality(UsersIn(req', d)) <= 0 + 1
          BY <4>2, <4>3, OneUserMore
      <4> QED
          BY <2>2, <2>3, <3>1, <4>4
    <3>2. CASE d # n
      <4>1. d \in 1 .. Len(clients)
          BY <3>2, ClientFacts
      <4>2. UsersIn(req', d) \subseteq UsersIn(req, d)
          BY <2>4, <2>5, <3>2 DEF UsersIn
      <4>3. Cardinality(UsersIn(req, d)) <= clients[d].useCount /\ clients[d].useCount \in Nat
          BY <4>1, ClientFacts DEF ClientInv, UseInv, ClientRec
      <4> QED
          BY <2>3, <4>1, <4>2, <4>3, FewerUsers
    <3> QED
        BY <3>1, <3>2
  <2>10. FailedClientIsRemoved'
      BY <2>1, <2>2, <2>3 DEF FailedClientIsRemoved
  <2> QED
      BY <2>6, <2>8, <2>9, <2>10 DEF ClientInv
<1>3. CASE cached # NoClient
  <2> DEFINE v == [clients[cached] EXCEPT !.useCount = @ + 1]
  <2> DEFINE w == [req[r] EXCEPT !.pc = "dialOnce", !.cl = cached, !.isReused = clients[cached].complete]
  <2>1. clients' = [clients EXCEPT ![cached] = v] /\ cached' = cached /\ req' = [req EXCEPT ![r] = w]
      BY <1>3 DEF getClient
  <2>2. cached \in 1 .. Len(clients) /\ cached \in Nat
      BY <1>3, ClientFacts DEF NoClient
  <2>3. v \in ClientRec /\ v.dial = clients[cached].dial /\ v.useCount = clients[cached].useCount + 1
        /\ clients[cached].useCount \in Nat /\ clients[cached].complete \in BOOLEAN
    <3>1. clients[cached] \in ClientRec
        BY <2>2, ClientFacts
    <3> QED
        BY <3>1 DEF ClientRec
  <2>4. /\ clients' \in Seq(ClientRec) /\ Len(clients') = Len(clients) /\ clients'[cached] = v
        /\ \A d \in 1 .. Len(clients) : d # cached => clients'[d] = clients[d]
    <3> HIDE DEF v
    <3> QED
        BY <2>1, <2>2, <2>3, ClientFacts, SetClient
  <2>5. w \in ReqRec /\ w.pc = "dialOnce" /\ w.cl = cached
      BY <2>2, <2>3, ClientFacts, ZenonT(60) DEF ReqRec
  <2>6. /\ req' \in [Requests -> ReqRec] /\ req'[r] = w
        /\ \A x \in Requests : x # r => req'[x] = req[x]
    <3> HIDE DEF ReqRec, w
    <3> QED
        BY <2>1, <2>5, ClientFacts
  <2>7. RequestsTypeOK'
      BY <1>1, <2>1, <2>4, <2>6, ClientFacts DEF RequestsTypeOK, ClientRec, ReqRec
  <2>8. ClientOfRequest'
    <3> HIDE DEF w
    <3>1. cached <= Len(clients) /\ cached >= 1
        BY <2>2
    <3>2. \A x \in Requests : req[x].cl <= Len(clients) /\ (req[x].pc \notin {"start", "failed"} => req[x].cl >= 1)
        BY DEF ClientInv, ClientOfRequest
    <3> QED
        BY <2>4, <2>5, <2>6, <3>1, <3>2 DEF ClientOfRequest
  <2>9. UseInv'
    <3> SUFFICES ASSUME NEW d \in 1 .. Len(clients)
                 PROVE  Cardinality(UsersIn(req', d)) <= clients'[d].useCount
        BY <2>4 DEF UseInv
    <3>1. Cardinality(UsersIn(req, d)) <= clients[d].useCount /\ clients[d].useCount \in Nat
        BY ClientFacts DEF ClientInv, UseInv, ClientRec
    <3>2. CASE d = cached
      <4>1. UsersIn(req', d) \subseteq UsersIn(req, d) \cup {r}
          BY <2>6 DEF UsersIn
      <4>2. Cardinality(UsersIn(req', d)) <= clients[d].useCount + 1
          BY <3>1, <4>1, OneUserMore
      <4> QED
          BY <2>3, <2>4, <3>2, <4>2
    <3>3. CASE d # cached
      <4>1. UsersIn(req', d) \subseteq UsersIn(req, d)
          BY <2>5, <2>6, <3>3 DEF UsersIn
      <4> QED
          BY <2>4, <3>1, <3>3, <4>1, FewerUsers
    <3> QED
        BY <3>2, <3>3
  <2>10. FailedClientIsRemoved'
    <3> SUFFICES ASSUME clients'[cached].dial = "failed"
                 PROVE  \E x \in Requests : req'[x].cl = cached /\ req'[x].pc \in {"dialOnce", "error"}
        BY <2>1 DEF FailedClientIsRemoved
    <3> QED
        BY <2>5, <2>6
  <2> QED
      BY <2>7, <2>8, <2>9, <2>10 DEF ClientInv
<1> QED
    BY <1>2, <1>3

\* A request that RoundTripOpt turns away.
LEMMA RefuseRequestInv == ASSUME ClientInv, NEW r \in Requests, RefuseRequest(r) PROVE ClientInv'
<1> DEFINE w == [req[r] EXCEPT !.pc = "failed"]
<1>1. req[r].pc = "start" /\ req' = [req EXCEPT ![r] = w] /\ UNCHANGED <<cached, ctx>>
    BY DEF RefuseRequest
<1>2. w \in ReqRec /\ w.pc = "failed" /\ w.cl = req[r].cl /\ req[r].cl \in Nat
    BY ClientFacts DEF ReqRec
<1> HIDE DEF w
<1>3. CASE req[r].cl # NoClient
  <2>1. req[r].cl \in 1 .. Len(clients)
      BY <1>2, <1>3, ClientFacts DEF NoClient
  <2>2. clients' = [clients EXCEPT ![req[r].cl].useCount = @ - 1]
      BY <1>3 DEF RefuseRequest
  <2> QED
      BY <1>1, <1>2, <2>1, <2>2, ReturnStep
<1>4. CASE req[r].cl = NoClient
  <2>1. UNCHANGED clients
      BY <1>4 DEF RefuseRequest
  <2>2. /\ req' \in [Requests -> ReqRec] /\ req'[r] = w
        /\ \A x \in Requests : x # r => req'[x] = req[x]
    <3> HIDE DEF ReqRec
    <3> QED
        BY <1>1, <1>2, ClientFacts
  <2>3. FailedClientIsRemoved'
      BY <1>1, <2>1, <2>2, ClientFacts DEF FailedClientIsRemoved
  <2>4. \A x \in Requests : /\ req'[x].cl = req[x].cl
                            /\ req[x].pc \in {"failed", "response"} => req'[x].pc \in {"failed", "response"}
                            /\ req'[x].pc \notin {"start", "failed"} => req[x].pc \notin {"start", "failed"}
      BY <1>1, <1>2, <2>2
  <2> QED
      BY <1>1, <2>1, <2>2, <2>3, <2>4, ClientFacts, QuietStep
<1> QED
    BY <1>3, <1>4

\* Requests that go on without touching clients.
LEMMA GoOn ==
    ASSUME ClientInv, NEW r \in Requests, NEW pc \in {"handshake", "settings", "open", "do", "panicked"},
           req' = [req EXCEPT ![r].pc = pc], req[r].pc \notin {"start", "failed", "response", "error"},
           req[r].pc = "dialOnce" => clients[req[r].cl].dial # "failed",
           UNCHANGED <<clients, cached, ctx>>
    PROVE  ClientInv'
<1> DEFINE w == [req[r] EXCEPT !.pc = pc]
<1>1. w \in ReqRec /\ w.pc = pc /\ w.cl = req[r].cl
    BY ClientFacts, ZenonT(60) DEF ReqRec
<1>2. req' = [req EXCEPT ![r] = w]
    OBVIOUS
<1>3. (cached # NoClient /\ req[r].cl = cached /\ clients[cached].dial = "failed" /\ req[r].pc = "dialOnce")
         => w.pc \in {"dialOnce", "error"}
    OBVIOUS
<1>4. w.pc \notin {"start", "failed"}
    BY <1>1
<1> HIDE DEF w
<1> QED
    BY <1>1, <1>2, <1>3, <1>4, RequestStep

\* A request fails and goes on to the error handling.
LEMMA FailsStep ==
    ASSUME ClientInv, NEW r \in Requests, NEW isTimeout \in BOOLEAN, req' = fails(r, isTimeout),
           req[r].pc \notin {"start", "failed", "response", "error"}, UNCHANGED <<clients, cached, ctx>>
    PROVE  ClientInv'
<1> DEFINE w == [req[r] EXCEPT !.pc = "error", !.timeout = errorOf(r, isTimeout)]
<1>1. w \in ReqRec /\ w.pc = "error" /\ w.cl = req[r].cl /\ req' = [req EXCEPT ![r] = w]
    BY FailsFacts
<1> HIDE DEF w
<1> QED
    BY <1>1, RequestStep

\* dialOnce: one request dials, the others wait for it.
LEMMA DialOnceInv == ASSUME ClientInv, NEW r \in Requests, DialOnce(r) PROVE ClientInv'
<1> DEFINE c == req[r].cl
<1>1. req[r].pc = "dialOnce" /\ UNCHANGED <<cached, ctx>>
    BY DEF DialOnce
<1>2. c \in 1 .. Len(clients)
    BY <1>1, ClientFacts
<1>3. CASE clients[c].dial = "idle"
  <2> DEFINE v == [clients[c] EXCEPT !.dial = "dialing"]
  <2> DEFINE w == [req[r] EXCEPT !.pc = "dialing"]
  <2>1. clients' = [clients EXCEPT ![c] = v] /\ req' = [req EXCEPT ![r] = w]
      BY <1>3 DEF DialOnce
  <2>2. v \in ClientRec /\ v.useCount = clients[c].useCount /\ v.dial = "dialing"
      BY <1>2, ClientFacts DEF ClientRec
  <2>3. w \in ReqRec /\ w.cl = req[r].cl /\ w.pc = "dialing"
      BY ClientFacts DEF ReqRec
  <2> HIDE DEF v, w
  <2> QED
      BY <1>1, <2>1, <2>2, <2>3, DialStep
<1>4. CASE clients[c].dial = "done"
  <2>1. UNCHANGED clients /\ req' = [req EXCEPT ![r].pc = afterDial(r)]
      BY <1>4 DEF DialOnce
  <2>2. afterDial(r) \in {"handshake", "settings", "open", "do"}
      BY DEF afterDial
  <2> QED
      BY <1>1, <1>4, <2>1, <2>2, GoOn
<1>5. CASE clients[c].dial = "failed"
  <2>1. PICK isTimeout \in BOOLEAN : req' = fails(r, isTimeout)
      BY <1>5 DEF DialOnce
  <2>2. UNCHANGED clients
      BY <1>5, SMTT(60) DEF DialOnce
  <2> QED
      BY <1>1, <2>1, <2>2, FailsStep
<1> QED
    BY <1>3, <1>4, <1>5 DEF DialOnce

\* The dial fails or succeeds.
LEMMA DialInv == ASSUME ClientInv, NEW r \in Requests, Dial(r) PROVE ClientInv'
<1> DEFINE c == req[r].cl
<1>1. req[r].pc = "dialing" /\ UNCHANGED <<cached, ctx>>
    BY DEF Dial
<1>2. c \in 1 .. Len(clients)
    BY <1>1, ClientFacts
<1>5. CASE req' = [req EXCEPT ![r].pc = "panicked"] /\ UNCHANGED clients
    BY <1>1, <1>5, GoOn
<1>3. ASSUME NEW early \in BOOLEAN,
             clients' = [clients EXCEPT ![c].dial = "done", ![c].conn = IF early THEN "early" ELSE "ready",
                                        ![c].complete = ~early],
             req' = [req EXCEPT ![r].pc = afterDial(r)]
      PROVE  ClientInv'
  <2> DEFINE v == [clients[c] EXCEPT !.dial = "done", !.conn = IF early THEN "early" ELSE "ready", !.complete = ~early]
  <2> DEFINE w == [req[r] EXCEPT !.pc = afterDial(r)]
  <2>1. clients' = [clients EXCEPT ![c] = v] /\ req' = [req EXCEPT ![r] = w]
      BY <1>3
  <2>2. v \in ClientRec /\ v.useCount = clients[c].useCount /\ v.dial = "done"
      BY <1>2, ClientFacts, ZenonT(60) DEF ClientRec
  <2>3. w \in ReqRec /\ w.cl = req[r].cl /\ w.pc \notin {"start", "failed"}
      BY ClientFacts DEF ReqRec, afterDial
  <2> HIDE DEF v, w
  <2> QED
      BY <1>1, <2>1, <2>2, <2>3, DialStep
<1>4. ASSUME NEW isTimeout \in BOOLEAN, clients' = [clients EXCEPT ![c].dial = "failed"], req' = fails(r, isTimeout)
      PROVE  ClientInv'
  <2> DEFINE v == [clients[c] EXCEPT !.dial = "failed"]
  <2> DEFINE w == [req[r] EXCEPT !.pc = "error", !.timeout = errorOf(r, isTimeout)]
  <2>1. clients' = [clients EXCEPT ![c] = v]
      BY <1>4
  <2>2. v \in ClientRec /\ v.useCount = clients[c].useCount
      BY <1>2, ClientFacts DEF ClientRec
  <2>3. w \in ReqRec /\ w.cl = req[r].cl /\ w.pc = "error" /\ req' = [req EXCEPT ![r] = w]
      BY <1>4, FailsFacts
  <2> HIDE DEF v, w
  <2> QED
      BY <1>1, <2>1, <2>2, <2>3, DialStep
<1> QED
    BY <1>3, <1>4, <1>5, ZenonT(60) DEF Dial

\* The steps of a request on a connection.
LEMMA AwaitHandshakeInv == ASSUME ClientInv, NEW r \in Requests, AwaitHandshake(r) PROVE ClientInv'
<1>1. req[r].pc = "handshake" /\ UNCHANGED <<clients, cached, ctx>>
    BY DEF AwaitHandshake
<1>2. req' = [req EXCEPT ![r].pc = "settings"] \/ req' = fails(r, FALSE)
    BY DEF AwaitHandshake
<1> QED
    BY <1>1, <1>2, GoOn, FailsStep

LEMMA CheckSettingsInv == ASSUME ClientInv, NEW r \in Requests, CheckSettings(r) PROVE ClientInv'
<1>1. req[r].pc = "settings" /\ UNCHANGED <<clients, cached, ctx>>
    BY DEF CheckSettings
<1>2. req' = [req EXCEPT ![r].pc = "open"] \/ req' = fails(r, FALSE) \/ req' = fails(r, clients[req[r].cl].conn = "timeout")
    BY DEF CheckSettings
<1> QED
    BY <1>1, <1>2, GoOn, FailsStep

LEMMA OpenStreamInv == ASSUME ClientInv, NEW r \in Requests, OpenStream(r) PROVE ClientInv'
<1>1. req[r].pc = "open" /\ UNCHANGED <<clients, cached, ctx>>
    BY DEF OpenStream
<1>2. req' = [req EXCEPT ![r].pc = "do"] \/ req' = fails(r, clients[req[r].cl].conn = "timeout")
    BY DEF OpenStream
<1> QED
    BY <1>1, <1>2, GoOn, FailsStep

LEMMA DoRequestInv == ASSUME ClientInv, NEW r \in Requests, DoRequest(r) PROVE ClientInv'
<1>1. req[r].pc = "do" /\ UNCHANGED <<cached, ctx>>
    BY DEF DoRequest
<1>2. CASE req' = [req EXCEPT ![r].pc = "response"] /\ clients' = [clients EXCEPT ![req[r].cl].useCount = @ - 1]
  <2> DEFINE w == [req[r] EXCEPT !.pc = "response"]
  <2>1. w \in ReqRec /\ w.cl = req[r].cl /\ w.pc = "response" /\ req' = [req EXCEPT ![r] = w]
      BY <1>2, ClientFacts DEF ReqRec
  <2>2. req[r].cl \in 1 .. Len(clients)
      BY <1>1, ClientFacts
  <2> HIDE DEF w
  <2> QED
      BY <1>1, <1>2, <2>1, <2>2, ReturnStep
<1>3. CASE req' = fails(r, clients[req[r].cl].conn = "timeout") /\ UNCHANGED clients
    BY <1>1, <1>3, FailsStep
<1> QED
    BY <1>2, <1>3 DEF DoRequest

\* An error removes the cached client, whichever it is.
LEMMA HandleErrorInv == ASSUME ClientInv, NEW r \in Requests, HandleError(r) PROVE ClientInv'
<1> DEFINE w == [req[r] EXCEPT !.pc = IF isRetried(r) THEN "start" ELSE "failed", !.timeout = FALSE]
<1>1. req[r].pc = "error" /\ cached' = NoClient /\ UNCHANGED ctx /\ req' = [req EXCEPT ![r] = w]
    BY DEF HandleError, removesClient
<1>2. w \in ReqRec /\ w.cl = req[r].cl /\ w.pc = IF isRetried(r) THEN "start" ELSE "failed"
    BY ClientFacts DEF ReqRec
<1> HIDE DEF w
<1>3. CASE isRetried(r)
  <2>1. UNCHANGED clients /\ w.pc = "start"
      BY <1>2, <1>3 DEF HandleError
  <2>2. /\ req' \in [Requests -> ReqRec] /\ req'[r] = w
        /\ \A x \in Requests : x # r => req'[x] = req[x]
    <3> HIDE DEF ReqRec
    <3> QED
        BY <1>1, <1>2, ClientFacts
  <2>3. FailedClientIsRemoved'
      BY <1>1 DEF FailedClientIsRemoved
  <2>4. \A x \in Requests : /\ req'[x].cl = req[x].cl
                            /\ req[x].pc \in {"failed", "response"} => req'[x].pc \in {"failed", "response"}
                            /\ req'[x].pc \notin {"start", "failed"} => req[x].pc \notin {"start", "failed"}
      BY <1>1, <1>2, <2>1, <2>2
  <2> QED
      BY <1>1, <2>1, <2>2, <2>3, <2>4, ClientFacts, QuietStep
<1>4. CASE ~isRetried(r)
  <2>1. clients' = [clients EXCEPT ![req[r].cl].useCount = @ - 1] /\ w.pc = "failed"
      BY <1>2, <1>4 DEF HandleError
  <2>2. req[r].cl \in 1 .. Len(clients)
      BY <1>1, ClientFacts
  <2> QED
      BY <1>1, <1>2, <2>1, <2>2, ReturnStep
<1> QED
    BY <1>3, <1>4

-----------------------------------------------------------------------------
\* No client, no request.
LEMMA ClientInitInv == ClientInit => ClientInv
<1> SUFFICES ASSUME ClientInit PROVE ClientInv
    OBVIOUS
<1>1. PICK kind \in [Requests -> Kinds] :
        req = [r \in Requests |-> [pc |-> "start", cl |-> NoClient, isReused |-> FALSE, timeout |-> FALSE,
                                   get0RTT |-> kind[r].get0RTT, checkSettings |-> kind[r].checkSettings]]
    BY DEF ClientInit
<1>2. \A r \in Requests : kind[r] \in [get0RTT: BOOLEAN, checkSettings: BOOLEAN]
    BY RequestsAssumption
<1>3. req \in [Requests -> ReqRec] /\ \A r \in Requests : req[r].pc = "start" /\ req[r].cl = 0
    BY <1>1, <1>2 DEF ReqRec, NoClient
<1>4. clients = <<>> /\ cached = 0 /\ Len(clients) = 0 /\ ctx = [r \in Requests |-> "open"]
    BY DEF ClientInit, NoClient
<1>5. RequestsTypeOK
    BY <1>3, <1>4 DEF RequestsTypeOK, ReqRec
<1>6. ClientOfRequest /\ UseInv /\ FailedClientIsRemoved
    BY <1>3, <1>4 DEF ClientOfRequest, UseInv, FailedClientIsRemoved, NoClient
<1> QED
    BY <1>5, <1>6 DEF ClientInv

\* Every step of every request and of the connection.
LEMMA ClientNextInv == ClientInv /\ [ClientNext]_h3cVars => ClientInv'
<1> SUFFICES ASSUME ClientInv, [ClientNext]_h3cVars PROVE ClientInv'
    OBVIOUS
<1>1. CASE CompleteHandshake
    BY <1>1, CompleteHandshakeInv
<1>2. CASE ReceiveSettings
    BY <1>2, ReceiveSettingsInv
<1>3. CASE FailConnection
    BY <1>3, FailConnectionInv
<1>4. CASE EndContext
    BY <1>4, EndContextInv
<1>5. CASE \E r \in Requests : RoundTrip(r)
    BY <1>5, getClientInv, RefuseRequestInv, DialOnceInv, DialInv, AwaitHandshakeInv, CheckSettingsInv,
       OpenStreamInv, DoRequestInv, HandleErrorInv DEF RoundTrip
<1>6. CASE CloseIdleConnections
    BY <1>6, GiveUpClient DEF CloseIdleConnections
<1>7. CASE Close
    BY <1>7, GiveUpClient, CloseTransport DEF Close
<1>8. CASE UNCHANGED h3cVars
  <2>1. UNCHANGED <<clients, cached, req, ctx>>
      BY <1>8 DEF h3cVars
  <2>2. FailedClientIsRemoved'
      BY <2>1, ClientFacts DEF FailedClientIsRemoved
  <2> QED
      BY <2>1, <2>2, ClientFacts, QuietStep
<1> QED
    BY <1>1, <1>2, <1>3, <1>4, <1>5, <1>6, <1>7, <1>8 DEF ClientNext

\* The invariant and what it implies.
LEMMA ClientImplies == ClientInv => RequestsTypeOK /\ FailedClientIsRemoved /\ IdleClientIsUnused
<1> SUFFICES ASSUME ClientInv PROVE IdleClientIsUnused
    BY DEF ClientInv
<1> SUFFICES ASSUME cached # NoClient, clients[cached].useCount = 0, NEW r \in Requests, req[r].cl = cached,
                    req[r].pc \notin {"failed", "response"}
             PROVE  FALSE
    BY DEF IdleClientIsUnused
<1>1. cached \in 1 .. Len(clients)
    BY ClientFacts DEF NoClient
<1>2. r \in UsersIn(req, cached)
    BY DEF UsersIn
<1>3. IsFiniteSet(UsersIn(req, cached))
    BY RequestsAssumption, FS_Subset DEF UsersIn
<1>4. Cardinality(UsersIn(req, cached)) <= 0
    BY <1>1 DEF ClientInv, UseInv
<1>5. Cardinality(UsersIn(req, cached)) \in Nat /\ Cardinality(UsersIn(req, cached)) # 0
    BY <1>2, <1>3, FS_CardinalityType, FS_EmptySet
<1> QED
    BY <1>4, <1>5

\* http3/roundtrip.go and client.go: the cache, the clients and the requests keep their types through
\* every interleaving of requests, failed dials and CloseIdleConnections.
THEOREM ClientTypeCorrect == ClientSpec => []ClientTypeOK
<1>1. ClientSpec => []RequestsTypeOK
    BY ClientInitInv, ClientNextInv, ClientImplies, PTL DEF ClientSpec
<1>2. ClientSpec => []TripperTypeOK
  <2>1. ClientInit => TripperTypeOK
      BY ZenonT(60) DEF ClientInit, TripperTypeOK
  <2>2. TripperTypeOK /\ [ClientNext]_h3cVars => TripperTypeOK'
      BY ZenonT(60) DEF TripperTypeOK, ClientNext, h3cVars, CompleteHandshake, ReceiveSettings, FailConnection, EndContext,
             RoundTrip, getClient, RefuseRequest, DialOnce, Dial, AwaitHandshake, CheckSettings, OpenStream,
             DoRequest, HandleError, CloseIdleConnections, Close
  <2> QED
      BY <2>1, <2>2, PTL DEF ClientSpec
<1> QED
    BY <1>1, <1>2, PTL DEF ClientTypeOK

\* http3/roundtrip.go: for any number of requests, a client whose dial failed does not stay in the
\* cache once the requests that saw the failure have handled it.
THEOREM FailedClientsLeave == ClientSpec => []FailedClientIsRemoved
BY ClientInitInv, ClientNextInv, ClientImplies, PTL DEF ClientSpec

\* http3/roundtrip.go: for any number of requests, CloseIdleConnections never closes a connection
\* that a request uses: useCount counts every one of them.
THEOREM IdleClientsAreUnused == ClientSpec => []IdleClientIsUnused
BY ClientInitInv, ClientNextInv, ClientImplies, PTL DEF ClientSpec
=============================================================================
