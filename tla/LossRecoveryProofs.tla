------------------------- MODULE LossRecoveryProofs -------------------------
(***************************************************************************)
(* Proofs about what is sent again and what is acknowledged.               *)
(*                                                                         *)
(* StreamTransfer: no chunk of a stream that is not FEC protected is       *)
(* forgotten, for any number of chunks and packets and whatever the path   *)
(* loses or reorders.  (For a protected stream it is: see                  *)
(* MCStreamTransferFEC.)                                                   *)
(*                                                                         *)
(* AckExchange: the ranges of received_packet_history.go are exactly the   *)
(* packets handled that were not confirmed yet, and an ACK is scheduled    *)
(* for them.                                                               *)
(***************************************************************************)
EXTENDS StreamTransfer, AckExchange, FiniteSetTheorems, SequenceTheorems, WellFoundedInduction, TLAPS

Plain == ~FECProtected

\* The chunks sent so far.
Sent == 1 .. (nextChunk - 1)

\* Types, and what a packet carries: a chunk that was sent, no symbol, no REPAIR frame.
Shape ==
    /\ nextChunk \in 1 .. (NumChunks + 1)
    /\ packets \in Seq(Packet)
    /\ \A pn \in DOMAIN packets : /\ packets[pn].chunk \in Sent \cup {None}
                                  /\ packets[pn].symbol = None /\ packets[pn].repair = None
    /\ repairQueue = <<>> /\ symbols = <<>>
    /\ received \subseteq DOMAIN packets /\ lost \subseteq DOMAIN packets
    /\ delivered \subseteq Chunks

\* What the sent packet handler keeps.
HandlerInv ==
    /\ largestAcked \in 0 .. Len(packets)
    /\ numProbesToSend \in Nat
    /\ lossTimer \in BOOLEAN

\* What has arrived was handed to the receive stream.
ReceivedInv == \A pn \in received : packets[pn].chunk # None => packets[pn].chunk \in delivered

\* A stream in state st, of which the packets left are neither acknowledged nor
\* declared lost: TransferIsTracked in the midst of an action.
Tracked(st, left) ==
    /\ st \in [rtx : Seq(Sent), out : Nat, pings : Nat]
    /\ left \subseteq DOMAIN packets
    /\ st.out = Cardinality({pn \in left : packets[pn].chunk # None})
    /\ \A c \in Sent : \/ c \in delivered
                       \/ \E i \in DOMAIN st.rtx : st.rtx[i] = c
                       \/ \E pn \in left : packets[pn].chunk = c

IInv == Shape /\ HandlerInv /\ ReceivedInv /\ Tracked(StreamState, outstanding)

-----------------------------------------------------------------------------
\* Packet numbers are finitely many natural numbers.
LEMMA PacketNumbers ==
    ASSUME Shape, NEW pns, pns \subseteq DOMAIN packets
    PROVE  /\ pns \subseteq Nat
           /\ IsFiniteSet(pns) /\ Cardinality(pns) \in Nat
<1>1. DOMAIN packets = 1 .. Len(packets) /\ Len(packets) \in Nat
    BY DEF Shape
<1>2. IsFiniteSet(1 .. Len(packets))
    BY <1>1, FS_Interval
<1>3. IsFiniteSet(pns)
    BY <1>1, <1>2, FS_Subset
<1> QED
    BY <1>1, <1>3, FS_CardinalityType

\* inOrder lists every packet of a set.
LEMMA InOrderListsAll ==
    ASSUME NEW S, S \subseteq Nat, IsFiniteSet(S), NEW q \in inOrder(S)
    PROVE  /\ DOMAIN q = 1 .. Cardinality(S) /\ Cardinality(S) \in Nat
           /\ \A i \in DOMAIN q : q[i] \in S
           /\ \A x \in S : \E i \in DOMAIN q : q[i] = x
<1> DEFINE n == Cardinality(S)
<1>1. n \in Nat
    BY FS_CardinalityType
<1>2. q \in [1 .. n -> S] /\ \A i, j \in 1 .. n : i < j => q[i] < q[j]
    BY DEF inOrder
<1>3. IsFiniteSet(1 .. n) /\ Cardinality(1 .. n) = n
  <2> HIDE DEF n
  <2>1. IsFiniteSet(1 .. n) /\ Cardinality(1 .. n) = IF 1 > n THEN 0 ELSE n - 1 + 1
      BY <1>1, FS_Interval
  <2> QED
      BY <1>1, <2>1
<1> HIDE DEF n
<1>4. ASSUME NEW i \in 1 .. n, NEW j \in 1 .. n, q[i] = q[j] PROVE i = j
  <2>1. q[i] \in Nat /\ q[j] \in Nat
      BY <1>2
  <2> QED
      BY <1>1, <1>2, <1>4, <2>1
<1>5. q \in Injection(1 .. n, S)
    BY <1>2, <1>4 DEF Injection, IsInjective
<1>6. Cardinality(1 .. n) = Cardinality(S)
    BY <1>3 DEF n
<1>7. q \in Surjection(1 .. n, S)
    BY <1>5, <1>6, FS_Injection
<1> QED
    BY <1>1, <1>2, <1>7 DEF Surjection, n

\* Taking packets out of a set takes their frames out of the count.
LEMMA CountWithout ==
    ASSUME Shape, NEW left, left \subseteq DOMAIN packets, NEW pns, pns \subseteq left
    PROVE  Cardinality({pn \in left \ pns : packets[pn].chunk # None})
             = Cardinality({pn \in left : packets[pn].chunk # None})
                 - Cardinality({pn \in pns : packets[pn].chunk # None})
<1> DEFINE S == {pn \in left : packets[pn].chunk # None}
           T == {pn \in pns : packets[pn].chunk # None}
<1>1. {pn \in left \ pns : packets[pn].chunk # None} = S \ T /\ S \cap T = T /\ S \subseteq DOMAIN packets
    OBVIOUS
<1>2. IsFiniteSet(S)
    BY <1>1, PacketNumbers
<1> HIDE DEF S, T
<1>3. Cardinality(S \ T) = Cardinality(S) - Cardinality(S \cap T)
    BY <1>2, FS_Difference
<1> QED
    BY <1>1, <1>3 DEF S, T

-----------------------------------------------------------------------------
\* OnLost: what a lost packet carried is in the retransmission queue.
LEMMA OnLostTracked ==
    ASSUME Plain, Shape, NEW st, NEW left, Tracked(st, left),
           NEW pns, pns \subseteq left, NEW after \in OnLost(st, pns)
    PROVE  Tracked(after, left \ pns)
<1> DEFINE frames == {pn \in pns : packets[pn].chunk # None}
<1>1. withStreamFrame(pns) = frames
    BY DEF withStreamFrame, Plain
<1>2. PICK q \in inOrder(frames) :
        after = [rtx   |-> st.rtx \o [i \in DOMAIN q |-> packets[q[i]].chunk],
                 out   |-> st.out - Cardinality(frames),
                 pings |-> st.pings + Cardinality({pn \in pns : packets[pn].ping})]
    BY <1>1 DEF OnLost
<1>3. /\ st.rtx \in Seq(Sent) /\ st.out \in Nat /\ st.pings \in Nat
      /\ left \subseteq DOMAIN packets /\ pns \subseteq DOMAIN packets
    BY DEF Tracked
<1>4. /\ frames \subseteq Nat /\ IsFiniteSet(frames) /\ Cardinality(frames) \in Nat
      /\ Cardinality({pn \in pns : packets[pn].ping}) \in Nat
  <2>1. frames \subseteq DOMAIN packets /\ {pn \in pns : packets[pn].ping} \subseteq DOMAIN packets
      BY <1>3
  <2> HIDE DEF frames
  <2> QED
      BY <2>1, PacketNumbers
<1> DEFINE chunks == [i \in DOMAIN q |-> packets[q[i]].chunk]
<1>5. /\ DOMAIN q = 1 .. Cardinality(frames)
      /\ \A i \in DOMAIN q : q[i] \in frames
      /\ \A x \in frames : \E i \in DOMAIN q : q[i] = x
  <2> HIDE DEF frames
  <2> QED
      BY ZenonT(60), <1>4, InOrderListsAll
<1>6. chunks \in Seq(Sent) /\ Len(chunks) = Cardinality(frames)
  <2>1. \A pn \in frames : packets[pn].chunk \in Sent
      BY <1>3 DEF Shape
  <2>2. \A i \in DOMAIN q : packets[q[i]].chunk \in Sent
      BY <1>5, <2>1
  <2>3. chunks \in [1 .. Cardinality(frames) -> Sent]
    <3> HIDE DEF frames
    <3> QED
        BY <1>5, <2>2
  <2> HIDE DEF chunks, frames
  <2> QED
      BY <1>4, <2>3
<1>7. \A pn \in frames : \E i \in 1 .. Len(chunks) : chunks[i] = packets[pn].chunk
    BY <1>5, <1>6
<1>8. after.rtx = st.rtx \o chunks /\ after.out = st.out - Cardinality(frames)
      /\ after.pings = st.pings + Cardinality({pn \in pns : packets[pn].ping})
    BY <1>2
<1> HIDE DEF chunks, frames
<1>9. /\ after.rtx \in Seq(Sent) /\ Len(after.rtx) = Len(st.rtx) + Len(chunks)
      /\ \A i \in 1 .. Len(st.rtx) : after.rtx[i] = st.rtx[i]
      /\ \A i \in 1 .. Len(chunks) : after.rtx[Len(st.rtx) + i] = chunks[i]
  <2> DEFINE a == st.rtx
             c == after.rtx
  <2>1. a \in Seq(Sent) /\ chunks \in Seq(Sent) /\ c = a \o chunks
      BY <1>3, <1>6, <1>8
  <2> HIDE DEF a, c
  <2>2. c \in Seq(Sent) /\ Len(c) = Len(a) + Len(chunks)
      BY <2>1
  <2>3. \A i \in 1 .. Len(a) : c[i] = a[i]
      BY <2>1
  <2>4. \A i \in 1 .. Len(chunks) : c[Len(a) + i] = chunks[i]
      BY <2>1
  <2> QED
      BY <2>2, <2>3, <2>4 DEF a, c
<1>10. \A i \in 1 .. Len(st.rtx) : \E j \in DOMAIN after.rtx : after.rtx[j] = st.rtx[i]
  <2> SUFFICES ASSUME NEW i \in 1 .. Len(st.rtx)
               PROVE  i \in DOMAIN after.rtx /\ after.rtx[i] = st.rtx[i]
      BY Zenon
  <2>1. DOMAIN after.rtx = 1 .. Len(after.rtx) /\ Len(st.rtx) \in Nat /\ Len(chunks) \in Nat
      BY <1>3, <1>6, <1>9
  <2> QED
      BY <1>9, <2>1
<1>11. ASSUME NEW pn \in frames PROVE \E j \in DOMAIN after.rtx : after.rtx[j] = packets[pn].chunk
  <2>1. PICK i \in 1 .. Len(chunks) : chunks[i] = packets[pn].chunk
      BY <1>7
  <2>2. Len(st.rtx) + i \in DOMAIN after.rtx
      BY <1>3, <1>6, <1>9
  <2> QED
      BY <1>9, <2>1, <2>2
<1>12. after.out = Cardinality({pn \in left \ pns : packets[pn].chunk # None})
  <2>1. Cardinality({pn \in left \ pns : packets[pn].chunk # None})
          = Cardinality({pn \in left : packets[pn].chunk # None}) - Cardinality(frames)
      BY <1>3, CountWithout DEF frames
  <2>2. st.out = Cardinality({pn \in left : packets[pn].chunk # None})
      BY DEF Tracked
  <2> QED
      BY <1>8, <2>1, <2>2
<1>13. after.out \in Nat
  <2>1. left \ pns \subseteq DOMAIN packets
      BY <1>3
  <2>2. {pn \in left \ pns : packets[pn].chunk # None} \subseteq DOMAIN packets
      BY <2>1
  <2> QED
      BY <1>12, <2>2, PacketNumbers
<1>14. after \in [rtx : Seq(Sent), out : Nat, pings : Nat]
  <2>1. after.pings \in Nat
      BY <1>3, <1>4, <1>8
  <2>2. after = [rtx |-> after.rtx, out |-> after.out, pings |-> after.pings]
      BY <1>2
  <2> QED
      BY <1>9, <1>13, <2>1, <2>2
<1>15. ASSUME NEW c \in Sent, c \notin delivered,
              ~ \E i \in DOMAIN after.rtx : after.rtx[i] = c
       PROVE  \E pn \in left \ pns : packets[pn].chunk = c
  <2>1. ~ \E i \in DOMAIN st.rtx : st.rtx[i] = c
      BY <1>3, <1>10, <1>15
  <2>2. PICK pn \in left : packets[pn].chunk = c
      BY <1>15, <2>1 DEF Tracked
  <2>3. c # None
      BY DEF Sent, None
  <2>4. pn \notin pns
      BY <1>11, <1>15, <2>2, <2>3 DEF frames
  <2> QED
      BY <2>2, <2>4
<1> QED
    BY <1>3, <1>12, <1>14, <1>15 DEF Tracked

\* OnAcked: a packet that is acknowledged has arrived.
LEMMA OnAckedTracked ==
    ASSUME Plain, Shape, ReceivedInv, NEW st, NEW left, Tracked(st, left),
           NEW pns, pns \subseteq left, pns \subseteq received
    PROVE  Tracked(OnAcked(st, pns), left \ pns)
<1> DEFINE after == OnAcked(st, pns)
           out == st.out - Cardinality({pn \in pns : packets[pn].chunk # None})
<1>1. after = [st EXCEPT !.out = out]
    BY DEF OnAcked, withStreamFrame, Plain
<1>2. st \in [rtx : Seq(Sent), out : Nat, pings : Nat] /\ left \subseteq DOMAIN packets
    BY DEF Tracked
<1>3. out = Cardinality({pn \in left \ pns : packets[pn].chunk # None})
  <2>1. st.out = Cardinality({pn \in left : packets[pn].chunk # None})
      BY DEF Tracked
  <2>2. Cardinality({pn \in left \ pns : packets[pn].chunk # None})
          = Cardinality({pn \in left : packets[pn].chunk # None})
              - Cardinality({pn \in pns : packets[pn].chunk # None})
      BY <1>2, CountWithout, Zenon
  <2> QED
      BY <2>1, <2>2, Zenon
<1>4. out \in Nat
  <2>1. {pn \in left \ pns : packets[pn].chunk # None} \subseteq DOMAIN packets
      BY <1>2
  <2> HIDE DEF out
  <2> QED
      BY <1>3, <2>1, PacketNumbers
<1> HIDE DEF out, after
<1>5. /\ after \in [rtx : Seq(Sent), out : Nat, pings : Nat]
      /\ after.out = out /\ after.rtx = st.rtx
    BY <1>1, <1>2, <1>4
<1>6. ASSUME NEW c \in Sent, c \notin delivered, ~ \E i \in DOMAIN st.rtx : st.rtx[i] = c
      PROVE  \E pn \in left \ pns : packets[pn].chunk = c
  <2>1. PICK pn \in left : packets[pn].chunk = c
      BY <1>6 DEF Tracked
  <2>2. c # None
      BY DEF Sent, None
  <2>3. pn \notin pns
      BY <1>6, <2>1, <2>2 DEF ReceivedInv
  <2> QED
      BY <2>1, <2>3
<1>7. Tracked(after, left \ pns)
    BY <1>2, <1>3, <1>5, <1>6 DEF Tracked
<1> QED
    BY <1>7 DEF after

-----------------------------------------------------------------------------
\* A packet carries a chunk that waits for retransmission or the next new one, and is
\* outstanding if it does.
LEMMA PackInv ==
    ASSUME Plain, Shape, HandlerInv, ReceivedInv, NEW st, NEW left, Tracked(st, left),
           NEW hasRoom \in BOOLEAN, Pack(st, left, hasRoom),
           UNCHANGED <<largestAcked, lossTimer, pathVars, rcvVars>>
    PROVE  IInv'
<1> DEFINE chunk == IF st.rtx # <<>> THEN Head(st.rtx)
                    ELSE IF nextChunk <= NumChunks THEN nextChunk ELSE None
           p == [chunk |-> chunk, repair |-> None, ping |-> st.pings > 0, skipped |-> FALSE, symbol |-> None]
           pn == Len(packets) + 1
<1>1. UNCHANGED <<largestAcked, lossTimer, lost, received, delivered>>
    BY DEF pathVars, rcvVars
<1>2. repairQueue = <<>> /\ symbols = <<>> /\ packets \in Seq(Packet) /\ nextChunk \in 1 .. (NumChunks + 1)
    BY DEF Shape
<1>3. /\ packets' = Append(packets, p)
      /\ nextChunk' = IF chunk = nextChunk THEN nextChunk + 1 ELSE nextChunk
      /\ retransmissions' = IF chunk \notin {None, nextChunk} THEN Tail(st.rtx) ELSE st.rtx
      /\ numOutstanding' = IF chunk # None THEN st.out + 1 ELSE st.out
      /\ pings' = IF p.ping THEN st.pings - 1 ELSE st.pings
      /\ symbols' = symbols /\ repairQueue' = <<>> \o <<>>
      /\ outstanding' = left \cup IF isAckEliciting(p) THEN {pn} ELSE {}
      /\ numProbesToSend' = IF isAckEliciting(p) /\ numProbesToSend > 0
                            THEN numProbesToSend - 1 ELSE numProbesToSend
    BY <1>2 DEF Pack, Plain
<1>4. st.rtx \in Seq(Sent) /\ st.out \in Nat /\ st.pings \in Nat /\ left \subseteq DOMAIN packets
    BY DEF Tracked
<1>5. NumChunks \in Nat
    BY StreamAssumption
<1>6. /\ chunk \in 0 .. NumChunks /\ chunk < nextChunk'
      /\ nextChunk' \in 1 .. (NumChunks + 1) /\ nextChunk <= nextChunk'
  <2>1. CASE st.rtx # <<>>
    <3>1. chunk \in Sent
        BY <1>4, <2>1
    <3> QED
        BY <1>2, <1>3, <1>5, <3>1 DEF Sent
  <2>2. CASE st.rtx = <<>>
      BY <1>2, <1>3, <1>5, <2>2 DEF None
  <2> QED
      BY <2>1, <2>2
<1> HIDE DEF chunk
<1>7. p.chunk = chunk /\ p.ping = (st.pings > 0) /\ p.symbol = None /\ p.repair = None
    OBVIOUS
<1>8. p \in Packet
  <2>1. chunk \in Chunks \cup {None}
      BY <1>5, <1>6 DEF Chunks, None
  <2> HIDE DEF chunk
  <2>2. None \in Nat /\ None \in Blocks \cup {None}
      BY DEF None
  <2> QED
      BY <2>1, <2>2 DEF Packet
<1>9. isAckEliciting(p) <=> (st.pings > 0 \/ chunk # None)
    BY <1>7 DEF isAckEliciting, Plain
<1> HIDE DEF p
<1>10. /\ packets' \in Seq(Packet) /\ Len(packets') = pn /\ packets'[pn] = p
       /\ DOMAIN packets = 1 .. Len(packets) /\ DOMAIN packets' = 1 .. pn /\ Len(packets) \in Nat
       /\ \A i \in DOMAIN packets : packets'[i] = packets[i]
    BY <1>2, <1>3, <1>8
<1>11. chunk \in Nat /\ nextChunk \in Nat /\ nextChunk' \in Nat
    BY <1>2, <1>5, <1>6
<1>12. chunk \in Sent' \cup {None} /\ Sent \subseteq Sent'
  <2>1. chunk < nextChunk' /\ nextChunk <= nextChunk'
      BY <1>6
  <2> DEFINE m == nextChunk'
  <2>2. Sent = 1 .. (nextChunk - 1) /\ Sent' = 1 .. (m - 1) /\ m \in Nat
      BY <1>11 DEF Sent
  <2>3. chunk < m /\ nextChunk <= m
      BY <2>1
  <2> HIDE DEF m
  <2>4. chunk = None \/ chunk \in 1 .. (m - 1)
      BY <1>11, <2>2, <2>3 DEF None
  <2>5. 1 .. (nextChunk - 1) \subseteq 1 .. (m - 1)
      BY <1>11, <2>2, <2>3
  <2> QED
      BY <2>2, <2>4, <2>5
<1>13. Shape'
  <2>1. ASSUME NEW i \in DOMAIN packets'
        PROVE  /\ packets'[i].chunk \in Sent' \cup {None}
               /\ packets'[i].symbol = None /\ packets'[i].repair = None
    <3>1. CASE i = pn
      <4>1. packets'[i] = p
          BY <1>10, <3>1
      <4> QED
          BY <1>7, <1>12, <4>1
    <3>2. CASE i # pn
      <4>1. i \in DOMAIN packets /\ packets'[i] = packets[i]
          BY <1>10, <3>2
      <4> QED
          BY <1>12, <4>1 DEF Shape
    <3> QED
        BY <3>1, <3>2
  <2>2. repairQueue' = <<>> /\ symbols' = <<>>
      BY <1>2, <1>3
  <2>3. received' \subseteq DOMAIN packets' /\ lost' \subseteq DOMAIN packets' /\ delivered' \subseteq Chunks
      BY <1>1, <1>10 DEF Shape
  <2> QED
      BY <1>6, <1>10, <2>1, <2>2, <2>3 DEF Shape
<1>14. HandlerInv'
  <2>1. largestAcked' \in 0 .. Len(packets')
      BY <1>1, <1>10 DEF HandlerInv
  <2>2. numProbesToSend' \in Nat
      BY <1>3 DEF HandlerInv
  <2>3. lossTimer' \in BOOLEAN
      BY <1>1, Zenon DEF HandlerInv
  <2> QED
      BY <2>1, <2>2, <2>3 DEF HandlerInv
<1>15. ReceivedInv'
    BY <1>1, <1>10 DEF ReceivedInv, Shape
<1>16. StreamState' = [rtx |-> retransmissions', out |-> numOutstanding', pings |-> pings']
    BY DEF StreamState
<1>17. outstanding' \subseteq DOMAIN packets'
    BY <1>3, <1>4, <1>10
<1>18. pings' \in Nat
  <2>1. CASE st.pings > 0
      BY <1>3, <1>4, <1>7, <2>1
  <2>2. CASE ~(st.pings > 0)
      BY <1>3, <1>4, <1>7, <2>2
  <2> QED
      BY <2>1, <2>2
<1> DEFINE S == {i \in left : packets[i].chunk # None}
<1>19. st.out = Cardinality(S) /\ IsFiniteSet(S) /\ pn \notin S
  <2>1. S \subseteq DOMAIN packets
      BY <1>4
  <2>2. st.out = Cardinality(S)
      BY DEF Tracked
  <2>3. IsFiniteSet(S)
    <3> HIDE DEF S
    <3> QED
        BY <2>1, PacketNumbers
  <2> QED
      BY <1>10, <2>1, <2>2, <2>3
<1> DEFINE T == {i \in outstanding' : packets'[i].chunk # None}
<1>20. numOutstanding' \in Nat /\ numOutstanding' = Cardinality(T)
  <2>1. CASE chunk # None
    <3>1. T = S \cup {pn}
        BY <1>3, <1>4, <1>7, <1>9, <1>10, <2>1
    <3>2. Cardinality(S \cup {pn}) = Cardinality(S) + 1
      <4> HIDE DEF S, pn
      <4> QED
          BY <1>19, FS_AddElement
    <3>3. numOutstanding' = st.out + 1
        BY <1>3, <2>1
    <3> HIDE DEF S, T, pn
    <3> QED
        BY <1>4, <1>19, <3>1, <3>2, <3>3
  <2>2. CASE chunk = None
    <3>1. T = S
        BY <1>3, <1>4, <1>7, <1>9, <1>10, <2>2
    <3> QED
        BY <1>3, <1>4, <1>19, <2>2, <3>1
  <2> QED
      BY <2>1, <2>2
<1>21. left \subseteq outstanding' /\ (chunk # None => pn \in outstanding' /\ packets'[pn].chunk = chunk)
    BY <1>3, <1>7, <1>9, <1>10
<1>22. ASSUME NEW c \in Sent, c # chunk
       PROVE  \/ c \in delivered'
              \/ \E i \in DOMAIN st.rtx : st.rtx[i] = c
              \/ \E i \in outstanding' : packets'[i].chunk = c
    BY <1>1, <1>4, <1>10, <1>21 DEF Tracked
<1>23. /\ retransmissions' \in Seq(Sent')
       /\ \A c \in Sent' : \/ c \in delivered'
                           \/ \E i \in DOMAIN retransmissions' : retransmissions'[i] = c
                           \/ \E i \in outstanding' : packets'[i].chunk = c
  <2>1. CASE st.rtx # <<>>
    <3>1. chunk \in Sent /\ chunk = st.rtx[1] /\ chunk # None /\ chunk # nextChunk
      <4>1. chunk \in Sent /\ chunk = st.rtx[1]
          BY <1>4, <2>1 DEF chunk
      <4> QED
          BY <1>2, <4>1 DEF Sent, None
    <3>2. nextChunk' = nextChunk /\ Sent' = Sent /\ retransmissions' = Tail(st.rtx)
        BY <1>3, <3>1 DEF Sent
    <3>3. retransmissions' \in Seq(Sent) /\ Len(retransmissions') = Len(st.rtx) - 1
          /\ \A i \in 1 .. Len(retransmissions') : retransmissions'[i] = st.rtx[i + 1]
        BY <1>4, <2>1, <3>2
    <3>4. ASSUME NEW i \in DOMAIN st.rtx, st.rtx[i] # chunk
          PROVE  \E j \in DOMAIN retransmissions' : retransmissions'[j] = st.rtx[i]
      <4>1. i \in 1 .. Len(st.rtx) /\ Len(st.rtx) \in Nat /\ i # 1
          BY <1>4, <3>1, <3>4
      <4>2. i - 1 \in DOMAIN retransmissions' /\ retransmissions'[i - 1] = st.rtx[i]
          BY <3>3, <4>1
      <4> QED
          BY <4>2
    <3>5. ASSUME NEW c \in Sent, c # chunk
          PROVE  \/ c \in delivered'
                 \/ \E i \in DOMAIN retransmissions' : retransmissions'[i] = c
                 \/ \E i \in outstanding' : packets'[i].chunk = c
        BY <1>22, <3>4, <3>5
    <3>6. \E i \in outstanding' : packets'[i].chunk = chunk
        BY <1>21, <3>1
    <3> QED
        BY <3>2, <3>3, <3>5, <3>6
  <2>2. CASE st.rtx = <<>> /\ nextChunk <= NumChunks
    <3>1. chunk = nextChunk /\ chunk # None
        BY <1>2, <2>2 DEF None, chunk
    <3>2. nextChunk' = nextChunk + 1 /\ retransmissions' = <<>>
        BY <1>3, <2>2, <3>1
    <3>3. Sent' = Sent \cup {chunk}
        BY <1>2, <1>5, <3>1, <3>2 DEF Sent
    <3>4. \A c \in Sent' : c = chunk \/ c \in Sent
        BY <3>3
    <3>5. ~ \E i \in DOMAIN st.rtx : TRUE
        BY <2>2
    <3> QED
        BY <1>21, <1>22, <3>1, <3>2, <3>4, <3>5
  <2>3. CASE st.rtx = <<>> /\ ~(nextChunk <= NumChunks)
    <3>1. chunk = None /\ chunk # nextChunk
        BY <1>2, <2>3 DEF None, chunk
    <3>2. nextChunk' = nextChunk /\ Sent' = Sent /\ retransmissions' = <<>>
        BY <1>3, <2>3, <3>1 DEF Sent
    <3>3. None \notin Sent
        BY <1>2 DEF Sent, None
    <3>4. ~ \E i \in DOMAIN st.rtx : TRUE
        BY <2>3
    <3>5. ASSUME NEW c \in Sent
          PROVE  c \in delivered' \/ \E i \in outstanding' : packets'[i].chunk = c
        BY <1>22, <3>1, <3>3, <3>4
    <3> QED
        BY <3>2, <3>5
  <2> QED
      BY <2>1, <2>2, <2>3
<1>24. Tracked(StreamState, outstanding)'
  <2>1. StreamState' \in [rtx : Seq(Sent'), out : Nat, pings : Nat]
        /\ StreamState'.rtx = retransmissions' /\ StreamState'.out = numOutstanding'
      BY <1>16, <1>18, <1>20, <1>23
  <2> QED
      BY <1>17, <1>20, <1>23, <2>1 DEF Tracked
<1> QED
    BY <1>13, <1>14, <1>15, <1>24 DEF IInv

\* detectLostPackets: what is left after OnAcked and OnLost is tracked.
LEMMA DetectLostInv ==
    ASSUME Plain, Shape, ReceivedInv, NEW st, NEW rest, Tracked(st, rest), NEW largest, NEW timeout,
           DetectLost(st, rest, largest, timeout), HandlerInv',
           UNCHANGED <<nextChunk, repairQueue, symbols, packets, lost, received, rcvVars>>
    PROVE  IInv'
<1>1. PICK lostNow \in SUBSET rest : \E after \in OnLost(st, lostNow) :
        /\ outstanding' = rest \ lostNow
        /\ retransmissions' = after.rtx /\ numOutstanding' = after.out /\ pings' = after.pings
  <2> DEFINE lostNow == {pn \in rest : pn <= largest /\ (timeout \/ largest >= pn + packetThreshold)}
  <2>1. \E after \in OnLost(st, lostNow) :
          /\ outstanding' = rest \ lostNow
          /\ retransmissions' = after.rtx /\ numOutstanding' = after.out /\ pings' = after.pings
      BY DEF DetectLost
  <2>2. lostNow \in SUBSET rest
      OBVIOUS
  <2> HIDE DEF lostNow
  <2> QED
      BY <2>1, <2>2
<1>2. PICK after \in OnLost(st, lostNow) :
        /\ outstanding' = rest \ lostNow
        /\ retransmissions' = after.rtx /\ numOutstanding' = after.out /\ pings' = after.pings
    BY <1>1
<1>3. Tracked(after, rest \ lostNow)
    BY OnLostTracked
<1>4. UNCHANGED <<nextChunk, packets, delivered, received, lost>>
    BY DEF rcvVars
<1>5. after = [rtx |-> after.rtx, out |-> after.out, pings |-> after.pings]
    BY <1>3 DEF Tracked
<1>6. StreamState' = after
    BY <1>2, <1>5 DEF StreamState
<1>7. Tracked(StreamState, outstanding)'
  <2>1. outstanding' = rest \ lostNow /\ Sent' = Sent
      BY <1>2, <1>4 DEF Sent
  <2>2. /\ after \in [rtx : Seq(Sent'), out : Nat, pings : Nat]
        /\ outstanding' \subseteq DOMAIN packets'
        /\ after.out = Cardinality({pn \in outstanding' : packets'[pn].chunk # None})
      BY <1>3, <1>4, <2>1 DEF Tracked
  <2>3. \A c \in Sent' : \/ c \in delivered'
                         \/ \E i \in DOMAIN after.rtx : after.rtx[i] = c
                         \/ \E pn \in outstanding' : packets'[pn].chunk = c
      BY <1>3, <1>4, <2>1 DEF Tracked
  <2> QED
      BY <1>6, <2>2, <2>3 DEF Tracked
<1>8. Shape' /\ ReceivedInv'
    BY <1>4 DEF Shape, ReceivedInv, Sent
<1> QED
    BY <1>7, <1>8 DEF IInv

\* ReceivedAck: OnAcked for what has arrived, then detectLostPackets.
LEMMA ReceivedAckInv ==
    ASSUME Plain, IInv, ReceivedAck
    PROVE  IInv'
<1> DEFINE acked == outstanding \cap received
           st == OnAcked(StreamState, acked)
<1>1. Shape /\ HandlerInv /\ ReceivedInv /\ Tracked(StreamState, outstanding)
    BY DEF IInv
<1>2. /\ largestAcked' \in {largestAcked} \cup received /\ numProbesToSend' = 0
      /\ DetectLost(st, outstanding \ acked, largestAcked', FALSE)
      /\ UNCHANGED <<nextChunk, repairQueue, symbols, packets, lost, received, rcvVars>>
    BY DEF ReceivedAck
<1>3. lossTimer' \in BOOLEAN
    BY <1>2, Zenon DEF DetectLost
<1>4. largestAcked' \in 0 .. Len(packets') /\ numProbesToSend' \in Nat
    BY <1>1, <1>2 DEF Shape, HandlerInv
<1>5. HandlerInv'
    BY <1>3, <1>4 DEF HandlerInv
<1>6. Tracked(st, outstanding \ acked)
    BY <1>1, OnAckedTracked
<1> HIDE DEF st, acked
<1> QED
    BY <1>1, <1>2, <1>5, <1>6, DetectLostInv

\* OnLossDetectionTimeout in loss timer mode.
LEMMA LossTimeoutInv ==
    ASSUME Plain, IInv, LossTimeout
    PROVE  IInv'
<1>1. Shape /\ HandlerInv /\ ReceivedInv /\ Tracked(StreamState, outstanding)
    BY DEF IInv
<1>2. /\ DetectLost(StreamState, outstanding, largestAcked, TRUE)
      /\ UNCHANGED <<nextChunk, repairQueue, symbols, packets, lost, received, rcvVars>>
      /\ UNCHANGED <<largestAcked, numProbesToSend>>
    BY DEF LossTimeout
<1>3. lossTimer' \in BOOLEAN
    BY <1>2, Zenon DEF DetectLost
<1>4. HandlerInv'
    BY <1>1, <1>2, <1>3 DEF HandlerInv
<1> QED
    BY <1>1, <1>2, <1>4, DetectLostInv

\* A packet is packed from the retransmission queue or with new data.
LEMMA SendPacketInv ==
    ASSUME Plain, IInv, NEW hasRoom \in BOOLEAN, SendPacket(hasRoom)
    PROVE  IInv'
<1>1. Shape /\ HandlerInv /\ ReceivedInv /\ Tracked(StreamState, outstanding)
    BY DEF IInv
<1>2. /\ Pack(StreamState, outstanding, hasRoom)
      /\ UNCHANGED <<largestAcked, lossTimer, pathVars, rcvVars>>
    BY DEF SendPacket
<1> QED
    BY <1>1, <1>2, PackInv

\* QueueProbePacket takes the packets it declares lost out of the history.
LEMMA SendProbeInv ==
    ASSUME Plain, IInv, NEW hasRoom \in BOOLEAN, SendProbe(hasRoom)
    PROVE  IInv'
<1>1. Shape /\ HandlerInv /\ ReceivedInv /\ Tracked(StreamState, outstanding)
    BY DEF IInv
<1>2. UNCHANGED <<largestAcked, lossTimer, pathVars, rcvVars>>
    BY DEF SendProbe
<1>3. PICK queued \in SUBSET outstanding : \E st \in OnLost(StreamState, queued) :
        \/ Pack([st EXCEPT !.pings = @ + 1], outstanding \ queued, hasRoom)
        \/ Pack(st, outstanding \ queued, hasRoom)
  <2>1. \A Q \in probePrefixes : Q \in SUBSET outstanding
      BY DEF probePrefixes
  <2>2. PICK queued \in IF probePrefixes = {} THEN {outstanding}
                        ELSE {Q \in probePrefixes : \A R \in probePrefixes : Q \subseteq R} :
          \E st \in OnLost(StreamState, queued) :
             Pack(IF probePrefixes = {} THEN [st EXCEPT !.pings = @ + 1] ELSE st,
                  outstanding \ queued, hasRoom)
      BY DEF SendProbe
  <2>3. queued \in SUBSET outstanding
      BY <2>1
  <2>4. CASE probePrefixes = {}
      BY <2>2, <2>3, <2>4
  <2>5. CASE probePrefixes # {}
      BY <2>2, <2>3, <2>5
  <2> QED
      BY <2>4, <2>5
<1>4. PICK st \in OnLost(StreamState, queued) :
        \/ Pack([st EXCEPT !.pings = @ + 1], outstanding \ queued, hasRoom)
        \/ Pack(st, outstanding \ queued, hasRoom)
    BY <1>3
<1>5. Tracked(st, outstanding \ queued)
    BY <1>1, OnLostTracked
<1>6. CASE Pack(st, outstanding \ queued, hasRoom)
    BY <1>1, <1>2, <1>5, <1>6, PackInv
<1>7. CASE Pack([st EXCEPT !.pings = @ + 1], outstanding \ queued, hasRoom)
  <2> DEFINE ping == [st EXCEPT !.pings = @ + 1]
  <2>1. ping \in [rtx : Seq(Sent), out : Nat, pings : Nat] /\ ping.rtx = st.rtx /\ ping.out = st.out
      BY <1>5 DEF Tracked
  <2>2. Pack(ping, outstanding \ queued, hasRoom)
      BY <1>7
  <2> HIDE DEF ping
  <2>3. Tracked(ping, outstanding \ queued)
      BY <1>5, <2>1 DEF Tracked
  <2> QED
      BY <1>1, <1>2, <2>2, <2>3, PackInv
<1> QED
    BY <1>4, <1>6, <1>7

\* The steps below leave the stream and the sent packet handler's history alone.
LEMMA StreamUnchanged ==
    ASSUME Tracked(StreamState, outstanding),
           UNCHANGED <<nextChunk, retransmissions, numOutstanding, pings, outstanding>>,
           DOMAIN packets \subseteq DOMAIN packets',
           \A pn \in DOMAIN packets : packets'[pn] = packets[pn],
           delivered \subseteq delivered'
    PROVE  Tracked(StreamState, outstanding)'
<1>1. StreamState' = StreamState /\ Sent' = Sent /\ outstanding' = outstanding
    BY DEF StreamState, Sent
<1>2. outstanding \subseteq DOMAIN packets
    BY DEF Tracked
<1>3. {pn \in outstanding : packets'[pn].chunk # None} = {pn \in outstanding : packets[pn].chunk # None}
    BY <1>2
<1>4. \A pn \in outstanding : packets'[pn].chunk = packets[pn].chunk
    BY <1>2
<1>5. /\ StreamState' \in [rtx : Seq(Sent'), out : Nat, pings : Nat]
      /\ outstanding' \subseteq DOMAIN packets'
      /\ StreamState'.out = Cardinality({pn \in outstanding' : packets'[pn].chunk # None})
    BY <1>1, <1>2, <1>3 DEF Tracked
<1>6. \A c \in Sent' : \/ c \in delivered'
                       \/ \E i \in DOMAIN StreamState'.rtx : StreamState'.rtx[i] = c
                       \/ \E pn \in outstanding' : packets'[pn].chunk = c
    BY <1>1, <1>4 DEF Tracked
<1> QED
    BY <1>5, <1>6 DEF Tracked

\* OnLossDetectionTimeout in PTO mode skips a packet number.
LEMMA PTOInv ==
    ASSUME Plain, IInv, PTO
    PROVE  IInv'
<1>1. Shape /\ HandlerInv /\ ReceivedInv /\ Tracked(StreamState, outstanding)
    BY DEF IInv
<1>2. /\ packets' = Append(packets, skippedPacket) /\ numProbesToSend' = numProbesToSend + 2
      /\ UNCHANGED <<nextChunk, retransmissions, numOutstanding, pings, outstanding>>
      /\ UNCHANGED <<repairQueue, symbols, largestAcked, lossTimer, lost, received, delivered>>
    BY DEF PTO, streamVars, rcvVars
<1>3. /\ skippedPacket \in Packet
      /\ skippedPacket.chunk = None /\ skippedPacket.symbol = None /\ skippedPacket.repair = None
    BY DEF skippedPacket, Packet, None
<1>4. /\ packets' \in Seq(Packet) /\ Len(packets') = Len(packets) + 1 /\ Len(packets) \in Nat
      /\ DOMAIN packets = 1 .. Len(packets) /\ DOMAIN packets' = 1 .. (Len(packets) + 1)
      /\ packets'[Len(packets) + 1] = skippedPacket
      /\ \A pn \in DOMAIN packets : packets'[pn] = packets[pn]
    BY <1>1, <1>2, <1>3 DEF Shape
<1>5. DOMAIN packets \subseteq DOMAIN packets'
    BY <1>4
<1>6. Shape'
  <2>1. ASSUME NEW pn \in DOMAIN packets'
        PROVE  /\ packets'[pn].chunk \in Sent' \cup {None}
               /\ packets'[pn].symbol = None /\ packets'[pn].repair = None
    <3>1. CASE pn = Len(packets) + 1
        BY <1>3, <1>4, <3>1
    <3>2. CASE pn # Len(packets) + 1
      <4>1. pn \in DOMAIN packets /\ Sent' = Sent
          BY <1>2, <1>4, <3>2 DEF Sent
      <4> QED
          BY <1>1, <1>4, <4>1 DEF Shape
    <3> QED
        BY <3>1, <3>2
  <2> QED
      BY <1>1, <1>2, <1>4, <1>5, <2>1 DEF Shape
<1>7. HandlerInv'
  <2>1. largestAcked' \in 0 .. Len(packets')
      BY <1>1, <1>2, <1>4 DEF HandlerInv
  <2>2. numProbesToSend' \in Nat
      BY <1>1, <1>2 DEF HandlerInv
  <2>3. lossTimer' \in BOOLEAN
      BY <1>1, <1>2 DEF HandlerInv
  <2> QED
      BY <2>1, <2>2, <2>3 DEF HandlerInv
<1>8. ReceivedInv'
    BY <1>1, <1>2, <1>4 DEF Shape, ReceivedInv
<1>9. Tracked(StreamState, outstanding)'
    BY <1>1, <1>2, <1>4, <1>5, StreamUnchanged
<1> QED
    BY <1>6, <1>7, <1>8, <1>9 DEF IInv

\* The path loses a packet: nobody is told.
LEMMA LoseInv ==
    ASSUME Plain, IInv, NEW pn \in DOMAIN packets, Lose(pn)
    PROVE  IInv'
<1>1. Shape /\ HandlerInv /\ ReceivedInv /\ Tracked(StreamState, outstanding)
    BY DEF IInv
<1>2. /\ lost' = lost \cup {pn}
      /\ UNCHANGED <<nextChunk, retransmissions, numOutstanding, pings, outstanding>>
      /\ UNCHANGED <<packets, repairQueue, symbols, largestAcked, numProbesToSend, lossTimer,
                     received, delivered>>
    BY DEF Lose, streamVars, packerVars, handlerVars, rcvVars
<1>3. Shape'
    BY <1>1, <1>2 DEF Shape, Sent
<1>4. HandlerInv' /\ ReceivedInv'
    BY <1>1, <1>2 DEF HandlerInv, ReceivedInv
<1>5. Tracked(StreamState, outstanding)'
    BY <1>1, <1>2, StreamUnchanged
<1> QED
    BY <1>3, <1>4, <1>5 DEF IInv

\* A packet arrives: its chunk is handed to the receive stream.
LEMMA DeliverInv ==
    ASSUME Plain, IInv, NEW pn \in DOMAIN packets, Deliver(pn)
    PROVE  IInv'
<1> DEFINE p == packets[pn]
<1>1. Shape /\ HandlerInv /\ ReceivedInv /\ Tracked(StreamState, outstanding)
    BY DEF IInv
<1>2. /\ received' = received \cup {pn}
      /\ UNCHANGED <<nextChunk, retransmissions, numOutstanding, pings, outstanding>>
      /\ UNCHANGED <<packets, repairQueue, symbols, largestAcked, numProbesToSend, lossTimer, lost>>
    BY DEF Deliver, streamVars, packerVars, handlerVars
<1>3. p.symbol = None /\ p.repair = None /\ p.chunk \in Sent \cup {None}
    BY <1>1 DEF Shape
<1>4. handleRepair(p).recovered = {}
    BY <1>3 DEF handleRepair
<1>5. delivered' = delivered \cup chunksOf(UNION {symbolsOf(b) : b \in {}})
                     \cup (IF p.chunk # None THEN {p.chunk} ELSE {})
    BY <1>3, <1>4 DEF Deliver, Plain
<1>6. chunksOf(UNION {symbolsOf(b) : b \in {}}) = {}
    BY DEF chunksOf
<1>7. delivered \subseteq delivered' /\ (p.chunk # None => p.chunk \in delivered')
    BY <1>5
<1>8. delivered' \subseteq Chunks
  <2>1. Sent \subseteq Chunks
    <3>1. nextChunk \in Nat /\ NumChunks \in Nat /\ nextChunk <= NumChunks + 1
        BY <1>1, StreamAssumption DEF Shape
    <3> QED
        BY <3>1 DEF Sent, Chunks
  <2> QED
      BY <1>1, <1>3, <1>5, <1>6, <2>1 DEF Shape
<1> HIDE DEF p
<1>9. Shape'
    BY <1>1, <1>2, <1>8 DEF Shape, Sent
<1>10. HandlerInv'
    BY <1>1, <1>2 DEF HandlerInv
<1>11. ReceivedInv'
    BY <1>1, <1>2, <1>7 DEF ReceivedInv, p
<1>12. Tracked(StreamState, outstanding)'
    BY <1>1, <1>2, <1>7, StreamUnchanged
<1> QED
    BY <1>9, <1>10, <1>11, <1>12 DEF IInv

\* Nothing has been sent.
LEMMA InitInv ==
    ASSUME Plain, Init
    PROVE  IInv
<1>1. NumChunks \in Nat /\ NumChunks >= 1
    BY StreamAssumption
<1>2. Shape
    BY <1>1 DEF Init, Shape
<1>3. HandlerInv
  <2>1. largestAcked \in 0 .. Len(packets) /\ numProbesToSend \in Nat
      BY DEF Init
  <2>2. lossTimer \in BOOLEAN
      BY Zenon DEF Init
  <2> QED
      BY <2>1, <2>2 DEF HandlerInv
<1>4. ReceivedInv
    BY DEF Init, ReceivedInv
<1>5. Tracked(StreamState, outstanding)
  <2>1. Sent = {}
      BY DEF Init, Sent
  <2>2. {pn \in outstanding : packets[pn].chunk # None} = {} /\ outstanding \subseteq DOMAIN packets
      BY DEF Init
  <2>3. StreamState \in [rtx : Seq(Sent), out : Nat, pings : Nat] /\ StreamState.out = 0
      BY DEF Init, StreamState
  <2>4. Cardinality({pn \in outstanding : packets[pn].chunk # None}) = 0
      BY <2>2, FS_EmptySet
  <2> QED
      BY <2>1, <2>2, <2>3, <2>4 DEF Tracked
<1> QED
    BY <1>2, <1>3, <1>4, <1>5 DEF IInv

-----------------------------------------------------------------------------
\* Every step of the stream, the sent packet handler, the path and the receiver
\* keeps the invariant.
THEOREM Invariance ==
    ASSUME Plain
    PROVE  Spec => []IInv
<1>1. Init => IInv
    BY InitInv
<1>2. IInv /\ [Next]_vars => IInv'
  <2> SUFFICES ASSUME IInv, [Next]_vars PROVE IInv'
      OBVIOUS
  <2>1. ASSUME NEW hasRoom \in BOOLEAN, SendPacket(hasRoom) PROVE IInv'
      BY <2>1, SendPacketInv
  <2>2. ASSUME NEW hasRoom \in BOOLEAN, SendProbe(hasRoom) PROVE IInv'
      BY <2>2, SendProbeInv
  <2>3. CASE ReceivedAck
      BY <2>3, ReceivedAckInv
  <2>4. CASE LossTimeout
      BY <2>4, LossTimeoutInv
  <2>5. CASE PTO
      BY <2>5, PTOInv
  <2>6. ASSUME NEW pn \in DOMAIN packets, Lose(pn) PROVE IInv'
      BY <2>6, LoseInv
  <2>7. ASSUME NEW pn \in DOMAIN packets, Deliver(pn) PROVE IInv'
      BY <2>7, DeliverInv
  <2>8. CASE UNCHANGED vars
    <3>1. /\ UNCHANGED <<nextChunk, retransmissions, numOutstanding, pings, outstanding>>
          /\ UNCHANGED <<packets, repairQueue, symbols, largestAcked, numProbesToSend, lossTimer,
                         lost, received, delivered>>
        BY <2>8 DEF vars, streamVars, packerVars, handlerVars, pathVars, rcvVars
    <3>2. Tracked(StreamState, outstanding)'
        BY <3>1, StreamUnchanged DEF IInv
    <3> QED
        BY <3>1, <3>2 DEF IInv, Shape, HandlerInv, ReceivedInv, Sent
  <2> QED
      BY <2>1, <2>2, <2>3, <2>4, <2>5, <2>6, <2>7, <2>8 DEF Next, Arrives
<1> QED
    BY <1>1, <1>2, PTL DEF Spec

\* The type invariant, for a stream that is not FEC protected.
THEOREM TypeCorrect ==
    ASSUME Plain
    PROVE  Spec => []TypeOK
<1>1. IInv => TypeOK
  <2> SUFFICES ASSUME IInv PROVE TypeOK
      OBVIOUS
  <2>1. Sent \subseteq Chunks
    <3>1. nextChunk \in Nat /\ NumChunks \in Nat /\ nextChunk <= NumChunks + 1
        BY StreamAssumption DEF IInv, Shape
    <3> QED
        BY <3>1 DEF Sent, Chunks
  <2>2. retransmissions \in Seq(Chunks) /\ numOutstanding \in Nat /\ pings \in Nat
    <3>1. retransmissions \in Seq(Sent) /\ numOutstanding \in Nat /\ pings \in Nat
        BY DEF IInv, Tracked, StreamState
    <3> QED
        BY <2>1, <3>1
  <2>3. repairQueue \in Seq(Blocks) /\ symbols \in Seq(Chunks)
      BY DEF IInv, Shape
  <2>4. outstanding \subseteq DOMAIN packets
      BY DEF IInv, Tracked
  <2> QED
      BY <2>2, <2>3, <2>4 DEF IInv, Shape, HandlerInv, TypeOK
<1> QED
    BY <1>1, Invariance, PTL

\* No chunk that was sent on an unprotected stream is forgotten, and
\* numOutstandingFrames is exact, for any number of chunks, any congestion window and
\* reordering threshold, and any pattern of loss, reordering and spurious timeouts.
THEOREM NothingIsForgotten ==
    ASSUME Plain
    PROVE  Spec => []TransferIsTracked
<1>1. IInv => TransferIsTracked
    BY DEF IInv, Tracked, StreamState, Sent, TransferIsTracked, NoChunkForgotten, OutstandingFramesCounted
<1> QED
    BY <1>1, Invariance, PTL

\* isNewlyCompleted: a stream that completes has had all of its data delivered.
THEOREM CompletedIsDelivered ==
    ASSUME Plain
    PROVE  Spec => [](completed => Chunks \subseteq delivered)
<1>1. IInv => (completed => Chunks \subseteq delivered)
  <2> SUFFICES ASSUME IInv, completed, NEW c \in Chunks PROVE c \in delivered
      OBVIOUS
  <2>1. c \in Sent /\ c # None
    <3>1. nextChunk \in Nat /\ NumChunks \in Nat /\ nextChunk > NumChunks
        BY StreamAssumption DEF IInv, Shape, completed
    <3> QED
        BY <3>1 DEF Sent, Chunks, None
  <2> DEFINE S == {pn \in outstanding : packets[pn].chunk # None}
  <2>2. S \subseteq DOMAIN packets /\ Cardinality(S) = 0
      BY DEF IInv, Tracked, StreamState, completed
  <2>3. IsFiniteSet(S)
    <3> HIDE DEF S
    <3> QED
        BY <2>2, PacketNumbers DEF IInv
  <2>4. S = {}
    <3> HIDE DEF S
    <3> QED
        BY <2>2, <2>3, FS_EmptySet
  <2>5. ~ \E pn \in outstanding : packets[pn].chunk = c
      BY <2>1, <2>4
  <2>6. ~ \E i \in DOMAIN retransmissions : retransmissions[i] = c
      BY DEF completed
  <2>7. \/ c \in delivered
        \/ \E i \in DOMAIN retransmissions : retransmissions[i] = c
        \/ \E pn \in outstanding : packets[pn].chunk = c
      BY <2>1 DEF IInv, Tracked, StreamState
  <2> QED
      BY <2>5, <2>6, <2>7
<1> QED
    BY <1>1, Invariance, PTL

-----------------------------------------------------------------------------
\* The least element of a set of natural numbers.
LEMMA LeastOf == ASSUME NEW S \in SUBSET Nat, S # {} PROVE \E m \in S : \A k \in S : m <= k
<1>1. PICK x \in S : \A y \in S : ~ <<y, x>> \in OpToRel(<, Nat)
    BY NatLessThanWellFounded, WFMin
<1>2. \A y \in S : ~(y < x)
    BY <1>1 DEF OpToRel
<1> QED
    BY <1>2

\* The largest element of a bounded set of natural numbers.
LEMMA MaxOf ==
    ASSUME NEW S \in SUBSET Nat, S # {}, NEW n \in Nat, \A x \in S : x <= n
    PROVE  Max(S) \in S /\ \A x \in S : x <= Max(S)
<1> DEFINE D == {n - x : x \in S}
<1>0. \A x \in S : n - x \in Nat
    OBVIOUS
<1>1. D \in SUBSET Nat /\ D # {}
    BY <1>0, Zenon
<1>2. PICK m \in D : \A k \in D : m <= k
  <2> HIDE DEF D
  <2> QED
      BY <1>1, LeastOf
<1>3. PICK y \in S : m = n - y
    OBVIOUS
<1>4. ASSUME NEW x \in S PROVE y >= x
  <2>1. m <= n - x
      BY <1>2
  <2> QED
      BY <2>1, <1>3
<1>5. \E y2 \in S : \A x \in S : y2 >= x
    BY <1>4
<1>6. Max(S) \in S /\ \A x \in S : Max(S) >= x
    BY <1>5 DEF Max
<1> QED
    BY <1>6

\* Ranges as received_packet_history.go keeps them: in order, with a gap between any two.
Sorted(rs) ==
    /\ rs \in Seq(Nat \X Nat)
    /\ \A i \in 1 .. Len(rs) : rs[i][1] <= rs[i][2]
    /\ \A i, j \in 1 .. Len(rs) : i < j => rs[i][2] + 1 < rs[j][1]

\* A packet number in one of the ranges.
InRanges(rs, x) == \E i \in 1 .. Len(rs) : rs[i][1] <= x /\ x <= rs[i][2]

\* The packet numbers an ACK frame reports.
LEMMA AckedByRanges ==
    ASSUME NEW rs \in Seq(Nat \X Nat), NEW x
    PROVE  x \in ackedBy(rs) <=> x \in Nat /\ InRanges(rs, x)
<1>1. \A i \in 1 .. Len(rs) : rs[i] \in Nat \X Nat
    OBVIOUS
<1>2. DOMAIN rs = 1 .. Len(rs)
    OBVIOUS
<1>3. x \in ackedBy(rs) <=> \E i \in 1 .. Len(rs) : x \in rs[i][1] .. rs[i][2]
    BY <1>2, Zenon DEF ackedBy
<1>4. \A i \in 1 .. Len(rs) : x \in rs[i][1] .. rs[i][2] <=> x \in Nat /\ rs[i][1] <= x /\ x <= rs[i][2]
    BY <1>1
<1> QED
    BY <1>3, <1>4 DEF InRanges

\* The last of a set of positions.
LEMMA LastOf ==
    ASSUME NEW n \in Nat, NEW S \in SUBSET (1 .. n)
    PROVE  \/ S = {} /\ lastOf(S) = 0
           \/ lastOf(S) \in S /\ \A i \in S : i <= lastOf(S)
<1>1. CASE S = {}
    BY <1>1 DEF lastOf
<1>2. CASE S # {}
  <2>1. S \in SUBSET Nat /\ \A x \in S : x <= n
      OBVIOUS
  <2> QED
      BY <1>2, <2>1, MaxOf DEF lastOf
<1> QED
    BY <1>1, <1>2

\* Two sequences with an element between them.
IsJoin(a, d, b, out) ==
    /\ out = a \o d \o b
    /\ Len(out) = Len(a) + 1 + Len(b)
    /\ \A i \in 1 .. Len(a) + 1 + Len(b) :
          out[i] = IF i <= Len(a) THEN a[i] ELSE IF i = Len(a) + 1 THEN d[1] ELSE b[i - Len(a) - 1]

LEMMA JoinShape ==
    ASSUME NEW S, NEW a \in Seq(S), NEW d \in Seq(S), Len(d) = 1, NEW b \in Seq(S)
    PROVE  \E out \in Seq(S) : IsJoin(a, d, b, out)
<1> DEFINE c == a \o d  out == c \o b
<1>2. c \in Seq(S) /\ Len(c) = Len(a) + Len(d) /\ \A i \in 1 .. Len(a) + Len(d) : c[i] = IF i <= Len(a) THEN a[i] ELSE d[i - Len(a)]
    BY ConcatProperties, Zenon
<1> HIDE DEF c
<1>3. /\ out \in Seq(S) /\ Len(out) = Len(c) + Len(b)
      /\ \A i \in 1 .. Len(c) + Len(b) : out[i] = IF i <= Len(c) THEN c[i] ELSE b[i - Len(c)]
  <2>1. c \in Seq(S)
      BY <1>2
  <2> QED
      BY <2>1, ConcatProperties, Zenon
<1> HIDE DEF out
<1>4. Len(a) \in Nat /\ Len(b) \in Nat
    OBVIOUS
<1>5. ASSUME NEW i \in 1 .. Len(a) + 1 + Len(b)
      PROVE  out[i] = IF i <= Len(a) THEN a[i] ELSE IF i = Len(a) + 1 THEN d[1] ELSE b[i - Len(a) - 1]
  <2>1. CASE i <= Len(a) + 1
    <3>1. out[i] = c[i]
        BY <1>2, <1>3, <1>4, <2>1
    <3>2. i <= Len(a) \/ i - Len(a) = 1
        BY <1>4, <2>1
    <3> QED
        BY <1>2, <1>4, <2>1, <3>1, <3>2
  <2>2. CASE i > Len(a) + 1
    <3>1. out[i] = b[i - (Len(a) + 1)]
        BY <1>2, <1>3, <1>4, <2>2
    <3>2. i - (Len(a) + 1) = i - Len(a) - 1
        BY <1>4
    <3> QED
        BY <1>4, <2>2, <3>1, <3>2
  <2> QED
      BY <1>4, <2>1, <2>2
<1>6. out \in Seq(S) /\ Len(out) = Len(a) + 1 + Len(b)
    BY <1>2, <1>3
<1>7. out = a \o d \o b
    BY DEF out, c
<1>8. IsJoin(a, d, b, out)
    BY <1>5, <1>6, <1>7 DEF IsJoin
<1> QED
    BY <1>6, <1>8

\* A range put in after position k.
Inserted(S, rs, k, r, out) ==
    /\ out \in Seq(S)
    /\ Len(out) = Len(rs) + 1
    /\ \A i \in 1 .. Len(out) : out[i] = IF i <= k THEN rs[i] ELSE IF i = k + 1 THEN r ELSE rs[i - 1]

LEMMA InsertShape ==
    ASSUME NEW S, NEW rs \in Seq(S), NEW r \in S, NEW k \in 0 .. Len(rs)
    PROVE  Inserted(S, rs, k, r, SubSeq(rs, 1, k) \o <<r>> \o SubSeq(rs, k + 1, Len(rs)))
<1> DEFINE d == <<r>>  a == SubSeq(rs, 1, k)  b == SubSeq(rs, k + 1, Len(rs))
<1>1. a \in Seq(S) /\ Len(a) = k /\ \A i \in 1 .. k : a[i] = rs[i]
    BY SubSeqProperties
<1>2. b \in Seq(S) /\ Len(b) = Len(rs) - k /\ \A i \in 1 .. Len(rs) - k : b[i] = rs[k + i]
    BY SubSeqProperties
<1>0. d \in Seq(S) /\ Len(d) = 1 /\ d[1] = r
    OBVIOUS
<1> HIDE DEF a, b, d
<1>3. PICK out \in Seq(S) : IsJoin(a, d, b, out)
  <2>1. a \in Seq(S) /\ b \in Seq(S) /\ d \in Seq(S) /\ Len(d) = 1
      BY <1>0, <1>1, <1>2
  <2> QED
      BY <2>1, JoinShape, Zenon
<1>4. Len(rs) \in Nat
    OBVIOUS
<1>5. Len(out) = Len(rs) + 1
    BY <1>1, <1>2, <1>3, <1>4 DEF IsJoin
<1>6. ASSUME NEW i \in 1 .. Len(out)
      PROVE  out[i] = IF i <= k THEN rs[i] ELSE IF i = k + 1 THEN r ELSE rs[i - 1]
  <2>1. out[i] = IF i <= k THEN a[i] ELSE IF i = k + 1 THEN r ELSE b[i - k - 1]
      BY <1>0, <1>1, <1>3 DEF IsJoin
  <2>2. CASE i <= k + 1
      BY <1>1, <2>1, <2>2
  <2>3. CASE i > k + 1
    <3>1. i - k - 1 \in 1 .. Len(rs) - k /\ k + (i - k - 1) = i - 1
        BY <1>4, <1>5, <2>3
    <3> QED
        BY <1>2, <2>1, <2>3, <3>1
  <2> QED
      BY <1>4, <1>5, <2>2, <2>3
<1>7. out = SubSeq(rs, 1, k) \o <<r>> \o SubSeq(rs, k + 1, Len(rs))
    BY <1>3 DEF IsJoin, a, b, d
<1>8. Inserted(S, rs, k, r, out)
    BY <1>5, <1>6 DEF Inserted
<1> QED
    BY <1>7, <1>8

\* Range k is merged with the one before it.
Merged(S, rs, k, r, out) ==
    /\ out \in Seq(S)
    /\ Len(out) = Len(rs) - 1
    /\ \A i \in 1 .. Len(out) : out[i] = IF i < k - 1 THEN rs[i] ELSE IF i = k - 1 THEN r ELSE rs[i + 1]

LEMMA MergeShape ==
    ASSUME NEW S, NEW rs \in Seq(S), NEW r \in S, NEW k \in 2 .. Len(rs)
    PROVE  Merged(S, rs, k, r, SubSeq(rs, 1, k - 2) \o <<r>> \o SubSeq(rs, k + 1, Len(rs)))
<1> DEFINE d == <<r>>  a == SubSeq(rs, 1, k - 2)  b == SubSeq(rs, k + 1, Len(rs))
<1>1. a \in Seq(S) /\ Len(a) = k - 2 /\ \A i \in 1 .. k - 2 : a[i] = rs[i]
    BY SubSeqProperties
<1>2. b \in Seq(S) /\ Len(b) = Len(rs) - k /\ \A i \in 1 .. Len(rs) - k : b[i] = rs[k + i]
    BY SubSeqProperties
<1>0. d \in Seq(S) /\ Len(d) = 1 /\ d[1] = r
    OBVIOUS
<1> HIDE DEF a, b, d
<1>3. PICK out \in Seq(S) : IsJoin(a, d, b, out)
  <2>1. a \in Seq(S) /\ b \in Seq(S) /\ d \in Seq(S) /\ Len(d) = 1
      BY <1>0, <1>1, <1>2
  <2> QED
      BY <2>1, JoinShape, Zenon
<1>4. Len(rs) \in Nat
    OBVIOUS
<1>5. Len(out) = Len(rs) - 1
  <2>1. Len(out) = Len(a) + 1 + Len(b) /\ Len(a) = k - 2 /\ Len(b) = Len(rs) - k
      BY <1>1, <1>2, <1>3 DEF IsJoin
  <2> QED
      BY <1>4, <2>1
<1>6. ASSUME NEW i \in 1 .. Len(out)
      PROVE  out[i] = IF i < k - 1 THEN rs[i] ELSE IF i = k - 1 THEN r ELSE rs[i + 1]
  <2>1. out[i] = IF i <= k - 2 THEN a[i] ELSE IF i = k - 1 THEN r ELSE b[i - k + 1]
      BY <1>0, <1>1, <1>3, SMTT(60) DEF IsJoin
  <2>2. CASE i <= k - 1
      BY <1>1, <2>1, <2>2
  <2>3. CASE i > k - 1
    <3>1. i - k + 1 \in 1 .. Len(rs) - k /\ k + (i - k + 1) = i + 1
        BY <1>4, <1>5, <2>3
    <3> QED
        BY <1>2, <2>1, <2>3, <3>1
  <2> QED
      BY <1>4, <1>5, <2>2, <2>3
<1>7. out = SubSeq(rs, 1, k - 2) \o <<r>> \o SubSeq(rs, k + 1, Len(rs))
    BY <1>3 DEF IsJoin, a, b, d
<1>8. Merged(S, rs, k, r, out)
    BY <1>5, <1>6 DEF Merged
<1> QED
    BY <1>7, <1>8

LEMMA SortedFacts ==
    ASSUME NEW rs, Sorted(rs)
    PROVE  /\ rs \in Seq(Nat \X Nat) /\ Len(rs) \in Nat
           /\ \A i \in 1 .. Len(rs) : rs[i] \in Nat \X Nat /\ rs[i][1] \in Nat /\ rs[i][2] \in Nat /\ rs[i][1] <= rs[i][2]
<1>1. rs \in Seq(Nat \X Nat)
    BY DEF Sorted
<1>2. Len(rs) \in Nat /\ \A i \in 1 .. Len(rs) : rs[i] \in Nat \X Nat
    BY <1>1
<1>3. \A i \in 1 .. Len(rs) : rs[i][1] \in Nat /\ rs[i][2] \in Nat
    BY <1>2
<1> QED
    BY <1>1, <1>2, <1>3 DEF Sorted

\* What a new packet number does to the ranges.
Adds(rs, p, out) ==
    /\ Sorted(out) /\ Len(out) >= 1 /\ Len(out) <= Len(rs) + 1
    /\ \A x \in Nat : InRanges(out, x) <=> InRanges(rs, x) \/ x = p

\* A range of its own.
Between(rs, k, p) ==
    /\ \A i \in 1 .. k : rs[i][2] + 1 < p
    /\ \A i \in k + 1 .. Len(rs) : p + 1 < rs[i][1]

LEMMA InsertAdds ==
    ASSUME NEW rs, Sorted(rs), NEW p \in Nat, NEW k \in 0 .. Len(rs), NEW out,
           Between(rs, k, p),
           Inserted(Nat \X Nat, rs, k, <<p, p>>, out)
    PROVE  Adds(rs, p, out)
<1>1. Len(rs) \in Nat /\ \A i \in 1 .. Len(rs) : rs[i][1] \in Nat /\ rs[i][2] \in Nat /\ rs[i][1] <= rs[i][2]
    BY SortedFacts
<1>0. Len(out) = Len(rs) + 1
    BY DEF Inserted
<1>2. \A i \in 1 .. k : i \in 1 .. Len(rs) /\ out[i] = rs[i]
    BY <1>1, <1>0, SMTT(60) DEF Inserted
<1>3. out[k + 1][1] = p /\ out[k + 1][2] = p
  <2>1. out[k + 1] = <<p, p>>
      BY <1>1, <1>0 DEF Inserted
  <2> QED
      BY <2>1
<1>4. \A i \in k + 2 .. Len(rs) + 1 : i - 1 \in k + 1 .. Len(rs) /\ out[i] = rs[i - 1]
  <2> TAKE i \in k + 2 .. Len(rs) + 1
  <2>1. i \in 1 .. Len(out) /\ ~(i <= k) /\ i # k + 1 /\ i - 1 \in k + 1 .. Len(rs)
      BY <1>1, <1>0
  <2> QED
      BY <2>1 DEF Inserted
<1>5. \A i \in 1 .. Len(out) : i \in 1 .. k \/ i = k + 1 \/ i \in k + 2 .. Len(rs) + 1
    BY <1>0, <1>1
<1>6. \A i \in 1 .. Len(out) : out[i][1] <= out[i][2]
  <2> TAKE i \in 1 .. Len(out)
  <2>1. CASE i \in 1 .. k
      BY <2>1, <1>1, <1>2
  <2>2. CASE i = k + 1
      BY <2>2, <1>3
  <2>3. CASE i \in k + 2 .. Len(rs) + 1
    <3>1. i - 1 \in 1 .. Len(rs)
        BY <2>3, <1>1
    <3> QED
        BY <2>3, <3>1, <1>1, <1>4
  <2> QED
      BY <2>1, <2>2, <2>3, <1>5
<1>7. ASSUME NEW i \in 1 .. Len(rs) + 1, NEW j \in 1 .. Len(rs) + 1, i < j PROVE out[i][2] + 1 < out[j][1]
  <2>1. CASE i \in 1 .. k /\ j \in 1 .. k
      BY <2>1, <1>2, <1>7 DEF Sorted
  <2>2. CASE i \in 1 .. k /\ j = k + 1
      BY <2>2, <1>2, <1>3 DEF Between
  <2>3. CASE i \in 1 .. k /\ j \in k + 2 .. Len(rs) + 1
    <3>1. i \in 1 .. Len(rs) /\ j - 1 \in 1 .. Len(rs) /\ i < j - 1
        BY <2>3, <1>1
    <3> QED
        BY <2>3, <3>1, <1>2, <1>4 DEF Sorted
  <2>4. CASE i = k + 1 /\ j \in k + 2 .. Len(rs) + 1
    <3>1. p + 1 < rs[j - 1][1]
        BY <2>4, <1>4 DEF Between
    <3> QED
        BY <2>4, <3>1, <1>3, <1>4
  <2>5. CASE i \in k + 2 .. Len(rs) + 1 /\ j \in k + 2 .. Len(rs) + 1
    <3>1. i - 1 \in 1 .. Len(rs) /\ j - 1 \in 1 .. Len(rs) /\ i - 1 < j - 1
        BY <2>5, <1>1, <1>7
    <3> QED
        BY <2>5, <3>1, <1>4 DEF Sorted
  <2> QED
      BY <2>1, <2>2, <2>3, <2>4, <2>5, <1>1, <1>7
<1>8. ASSUME NEW x \in Nat PROVE InRanges(out, x) <=> InRanges(rs, x) \/ x = p
  <2>1. ASSUME InRanges(out, x) PROVE InRanges(rs, x) \/ x = p
    <3>1. PICK i \in 1 .. Len(out) : out[i][1] <= x /\ x <= out[i][2]
        BY <2>1 DEF InRanges
    <3>2. CASE i \in 1 .. k
        BY <3>1, <3>2, <1>2 DEF InRanges
    <3>3. CASE i = k + 1
        BY <3>1, <3>3, <1>3
    <3>4. CASE i \in k + 2 .. Len(rs) + 1
      <4>1. i - 1 \in 1 .. Len(rs) /\ out[i] = rs[i - 1]
          BY <3>4, <1>4, <1>1
      <4> QED
          BY <3>1, <4>1 DEF InRanges
    <3> QED
        BY <3>2, <3>3, <3>4, <1>5
  <2>2. ASSUME InRanges(rs, x) PROVE InRanges(out, x)
    <3>1. PICK i \in 1 .. Len(rs) : rs[i][1] <= x /\ x <= rs[i][2]
        BY <2>2 DEF InRanges
    <3>2. CASE i <= k
      <4>1. i \in 1 .. Len(out) /\ out[i] = rs[i]
          BY <3>2, <1>0, <1>1, <1>2
      <4> QED
          BY <3>1, <4>1 DEF InRanges
    <3>3. CASE i > k
      <4>1. i + 1 \in 1 .. Len(out) /\ i + 1 \in k + 2 .. Len(rs) + 1 /\ i + 1 - 1 = i
          BY <3>3, <1>0, <1>1
      <4>2. out[i + 1] = rs[i]
          BY <4>1, <1>4
      <4> QED
          BY <3>1, <4>1, <4>2 DEF InRanges
    <3> QED
        BY <3>2, <3>3, <1>1
  <2>3. ASSUME x = p PROVE InRanges(out, x)
    <3>1. k + 1 \in 1 .. Len(out) /\ out[k + 1][1] <= x /\ x <= out[k + 1][2]
        BY <1>0, <1>1, <1>3, <2>3
    <3> QED
        BY <3>1 DEF InRanges
  <2> QED
      BY <2>1, <2>2, <2>3
<1> QED
    BY <1>0, <1>1, <1>6, <1>7, <1>8 DEF Adds, Sorted, Inserted

\* One range more at either end.
LEMMA ExtendAdds ==
    ASSUME NEW rs, Sorted(rs), NEW p \in Nat, NEW h \in 1 .. Len(rs), NEW lo \in Nat, NEW hi \in Nat, lo <= hi,
           \A i \in 1 .. Len(rs) : i < h => rs[i][2] + 1 < lo,
           \A i \in 1 .. Len(rs) : h < i => hi + 1 < rs[i][1],
           \A x \in Nat : (lo <= x /\ x <= hi) <=> (rs[h][1] <= x /\ x <= rs[h][2]) \/ x = p
    PROVE  Adds(rs, p, [rs EXCEPT ![h] = <<lo, hi>>])
<1> DEFINE r == <<lo, hi>>
           out == [rs EXCEPT ![h] = r]
<1>1. Len(rs) \in Nat /\ rs \in Seq(Nat \X Nat) /\ \A i \in 1 .. Len(rs) : rs[i][1] \in Nat /\ rs[i][2] \in Nat
    BY SMTT(60) DEF Sorted
<1>2. r \in Nat \X Nat /\ r[1] = lo /\ r[2] = hi
    OBVIOUS
<1> HIDE DEF r
<1>3. out \in Seq(Nat \X Nat) /\ Len(out) = Len(rs) /\ \A i \in 1 .. Len(rs) : out[i] = IF i = h THEN r ELSE rs[i]
    BY SMTT(60), <1>1, <1>2, ExceptSeq
<1> HIDE DEF out
<1>4. out[h] = r /\ \A i \in 1 .. Len(rs) : i # h => out[i] = rs[i]
    BY <1>3
<1>5. \A i \in 1 .. Len(out) : out[i][1] <= out[i][2]
    BY <1>2, <1>3, <1>4 DEF Sorted
<1>6. ASSUME NEW i \in 1 .. Len(out), NEW j \in 1 .. Len(out), i < j PROVE out[i][2] + 1 < out[j][1]
  <2>1. CASE i = h
      BY SMTT(60), <2>1, <1>2, <1>3, <1>4, <1>6
  <2>2. CASE j = h
      BY SMTT(60), <2>2, <1>2, <1>3, <1>4, <1>6
  <2>3. CASE i # h /\ j # h
      BY <2>3, <1>3, <1>4, <1>6 DEF Sorted
  <2> QED
      BY <2>1, <2>2, <2>3
<1>7. ASSUME NEW x \in Nat PROVE InRanges(out, x) <=> InRanges(rs, x) \/ x = p
  <2>1. InRanges(out, x) <=> (\E i \in 1 .. Len(rs) : i # h /\ rs[i][1] <= x /\ x <= rs[i][2]) \/ (lo <= x /\ x <= hi)
      BY <1>2, <1>3, <1>4 DEF InRanges
  <2>2. InRanges(rs, x) <=> (\E i \in 1 .. Len(rs) : i # h /\ rs[i][1] <= x /\ x <= rs[i][2]) \/ (rs[h][1] <= x /\ x <= rs[h][2])
      BY DEF InRanges
  <2> QED
      BY <2>1, <2>2
<1>8. Adds(rs, p, out)
    BY <1>1, <1>3, <1>5, <1>6, <1>7, SMTT(60) DEF Adds, Sorted
<1> QED
    BY <1>8 DEF out, r

\* Two ranges become one.
LEMMA MergeAdds ==
    ASSUME NEW rs, Sorted(rs), NEW p \in Nat, NEW k \in 2 .. Len(rs), NEW out,
           rs[k - 1][2] + 1 = p, rs[k][1] = p + 1,
           Merged(Nat \X Nat, rs, k, <<rs[k - 1][1], rs[k][2]>>, out)
    PROVE  Adds(rs, p, out)
<1>1. Len(rs) \in Nat /\ \A i \in 1 .. Len(rs) : rs[i][1] \in Nat /\ rs[i][2] \in Nat /\ rs[i][1] <= rs[i][2]
    BY SortedFacts
<1>0. Len(out) = Len(rs) - 1 /\ k - 1 \in 1 .. Len(rs) /\ k \in 1 .. Len(rs)
    BY <1>1 DEF Merged
<1>a. \A i, j \in 1 .. Len(rs) : i < j => rs[i][2] + 1 < rs[j][1]
    BY DEF Sorted
<1>b. /\ rs[k - 1][1] \in Nat /\ rs[k - 1][2] \in Nat /\ rs[k][1] \in Nat /\ rs[k][2] \in Nat
      /\ rs[k - 1][1] <= p /\ p <= rs[k][2] /\ rs[k - 1][1] <= rs[k - 1][2] /\ rs[k][1] <= rs[k][2]
  <2>1. rs[k - 1][1] \in Nat /\ rs[k - 1][2] \in Nat /\ rs[k - 1][1] <= rs[k - 1][2]
      BY <1>0, <1>1
  <2>2. rs[k][1] \in Nat /\ rs[k][2] \in Nat /\ rs[k][1] <= rs[k][2]
      BY <1>0, <1>1
  <2> QED
      BY <2>1, <2>2
<1>2. \A i \in 1 .. k - 2 : i \in 1 .. Len(rs) /\ i \in 1 .. Len(out) /\ out[i] = rs[i]
  <2> TAKE i \in 1 .. k - 2
  <2>1. i \in 1 .. Len(out) /\ i < k - 1 /\ i \in 1 .. Len(rs)
      BY <1>1, <1>0
  <2> QED
      BY <2>1 DEF Merged
<1>3. k - 1 \in 1 .. Len(out) /\ out[k - 1][1] = rs[k - 1][1] /\ out[k - 1][2] = rs[k][2]
  <2>1. k - 1 \in 1 .. Len(out) /\ ~(k - 1 < k - 1)
      BY <1>0, <1>1
  <2>2. out[k - 1] = <<rs[k - 1][1], rs[k][2]>>
      BY <2>1 DEF Merged
  <2> QED
      BY <2>1, <2>2
<1>4. \A i \in k .. Len(rs) - 1 : i \in 1 .. Len(out) /\ i + 1 \in k + 1 .. Len(rs) /\ i + 1 \in 1 .. Len(rs) /\ out[i] = rs[i + 1]
  <2> TAKE i \in k .. Len(rs) - 1
  <2>1. i \in 1 .. Len(out) /\ ~(i < k - 1) /\ i # k - 1 /\ i + 1 \in k + 1 .. Len(rs) /\ i + 1 \in 1 .. Len(rs)
      BY SMTT(60), <1>1, <1>0
  <2> QED
      BY <2>1 DEF Merged
<1>5. \A i \in 1 .. Len(out) : i \in 1 .. k - 2 \/ i = k - 1 \/ i \in k .. Len(rs) - 1
    BY <1>0, <1>1
<1>6. \A i \in 1 .. Len(out) : out[i][1] <= out[i][2]
  <2> TAKE i \in 1 .. Len(out)
  <2>1. CASE i \in 1 .. k - 2
      BY <2>1, <1>1, <1>2
  <2>2. CASE i = k - 1
    <3>1. rs[k - 1][2] + 1 < rs[k][1]
        BY <1>0, <1>a
    <3> QED
        BY SMTT(60), <2>2, <3>1, <1>0, <1>1, <1>3
  <2>3. CASE i \in k .. Len(rs) - 1
      BY <2>3, <1>1, <1>4
  <2> QED
      BY <2>1, <2>2, <2>3, <1>5
<1>7. ASSUME NEW i \in 1 .. Len(rs) - 1, NEW j \in 1 .. Len(rs) - 1, i < j PROVE out[i][2] + 1 < out[j][1]
  <2>1. CASE i \in 1 .. k - 2 /\ j \in 1 .. k - 2
      BY <2>1, <1>2, <1>7, <1>a
  <2>2. CASE i \in 1 .. k - 2 /\ j = k - 1
      BY <2>2, <1>0, <1>2, <1>3, <1>7, <1>a
  <2>3. CASE i \in 1 .. k - 2 /\ j \in k .. Len(rs) - 1
    <3>1. i \in 1 .. Len(rs) /\ j + 1 \in 1 .. Len(rs) /\ i < j + 1
        BY SMTT(60), <2>3, <1>2, <1>4
    <3> QED
        BY <2>3, <3>1, <1>2, <1>4, <1>a
  <2>4. CASE i = k - 1 /\ j \in k .. Len(rs) - 1
    <3>1. j + 1 \in 1 .. Len(rs) /\ k < j + 1
        BY <2>4, <1>4
    <3>2. rs[k][2] + 1 < rs[j + 1][1]
        BY <3>1, <1>0, <1>a
    <3> QED
        BY <2>4, <3>2, <1>3, <1>4
  <2>5. CASE i \in k .. Len(rs) - 1 /\ j \in k .. Len(rs) - 1
    <3>1. i + 1 \in 1 .. Len(rs) /\ j + 1 \in 1 .. Len(rs) /\ i + 1 < j + 1
        BY SMTT(60), <2>5, <1>4, <1>7
    <3> QED
        BY <2>5, <3>1, <1>4, <1>a
  <2> QED
      BY <2>1, <2>2, <2>3, <2>4, <2>5, <1>1, <1>7
<1>8. ASSUME NEW x \in Nat PROVE InRanges(out, x) <=> InRanges(rs, x) \/ x = p
  <2>1. ASSUME InRanges(out, x) PROVE InRanges(rs, x) \/ x = p
    <3>1. PICK i \in 1 .. Len(out) : out[i][1] <= x /\ x <= out[i][2]
        BY <2>1 DEF InRanges
    <3>2. CASE i \in 1 .. k - 2
        BY <3>1, <3>2, <1>2 DEF InRanges
    <3>3. CASE i = k - 1
      <4>1. rs[k - 1][1] <= x /\ x <= rs[k][2]
          BY <3>1, <3>3, <1>3
      <4>2. (rs[k - 1][1] <= x /\ x <= rs[k - 1][2]) \/ x = p \/ (rs[k][1] <= x /\ x <= rs[k][2])
          BY SMTT(60), <4>1, <1>0, <1>1
      <4> QED
          BY <4>2, <1>0 DEF InRanges
    <3>4. CASE i \in k .. Len(rs) - 1
      <4>1. i + 1 \in 1 .. Len(rs) /\ out[i] = rs[i + 1]
          BY <3>4, <1>4
      <4> QED
          BY <3>1, <4>1 DEF InRanges
    <3> QED
        BY <3>2, <3>3, <3>4, <1>5
  <2>2. ASSUME InRanges(rs, x) PROVE InRanges(out, x)
    <3>1. PICK i \in 1 .. Len(rs) : rs[i][1] <= x /\ x <= rs[i][2]
        BY <2>2 DEF InRanges
    <3>2. CASE i < k - 1
      <4>1. i \in 1 .. Len(out) /\ out[i] = rs[i]
          BY <3>2, <1>0, <1>1, <1>2
      <4> QED
          BY <3>1, <4>1 DEF InRanges
    <3>3. CASE i = k - 1 \/ i = k
      <4>1. rs[k - 1][1] <= x /\ x <= rs[k][2]
          BY SMTT(60), <3>1, <3>3, <1>b
      <4> QED
          BY <4>1, <1>3 DEF InRanges
    <3>4. CASE i > k
      <4>1. i - 1 \in k .. Len(rs) - 1 /\ i - 1 + 1 = i
          BY <3>4, <1>0, <1>1
      <4>2. i - 1 \in 1 .. Len(out) /\ out[i - 1] = rs[i]
          BY <4>1, <1>4
      <4> QED
          BY <3>1, <4>2 DEF InRanges
    <3> QED
        BY <3>2, <3>3, <3>4, <1>1
  <2>3. ASSUME x = p PROVE InRanges(out, x)
    <3>1. out[k - 1][1] <= x /\ x <= out[k - 1][2]
        BY <1>b, <1>3, <2>3
    <3> QED
        BY <3>1, <1>3 DEF InRanges
  <2> QED
      BY <2>1, <2>2, <2>3
<1>9. out \in Seq(Nat \X Nat)
    BY DEF Merged
<1>10. Len(out) >= 1 /\ Len(out) <= Len(rs) + 1
    BY <1>0, <1>1
<1>11. \A i, j \in 1 .. Len(out) : i < j => out[i][2] + 1 < out[j][1]
    BY <1>0, <1>7
<1>12. Sorted(out)
    BY <1>6, <1>9, <1>11 DEF Sorted
<1> QED
    BY <1>8, <1>10, <1>12 DEF Adds

\* received_packet_history.go addToRanges: a packet number that is in no range is added, and the
\* ranges stay in order with gaps between them, whichever of them it extends, joins or comes between.
LEMMA AddToRanges ==
    ASSUME NEW rs, Sorted(rs), NEW p \in Nat, NEW q, q = addToRanges(rs, p)
    PROVE  /\ InRanges(rs, p) => ~q.new /\ q.ranges = rs
           /\ ~InRanges(rs, p) => q.new /\ Adds(rs, p, q.ranges)
<1>1. rs \in Seq(Nat \X Nat) /\ Len(rs) \in Nat
      /\ \A i \in 1 .. Len(rs) : rs[i] \in Nat \X Nat /\ rs[i][1] \in Nat /\ rs[i][2] \in Nat /\ rs[i][1] <= rs[i][2]
    BY SortedFacts
<1>2. DOMAIN rs = 1 .. Len(rs)
    BY <1>1
<1> DEFINE hits == {i \in DOMAIN rs : covers(rs[i], p) \/ rs[i][2] = p - 1 \/ rs[i][1] = p + 1 \/ p > rs[i][2]}
           hit == lastOf(hits)
           insert(i) == SubSeq(rs, 1, i) \o <<<<p, p>>>> \o SubSeq(rs, i + 1, Len(rs))
           r == rs[hit]
<1>3. q = IF hit = 0 THEN [new |-> TRUE, ranges |-> insert(0)]
          ELSE IF covers(r, p) THEN [new |-> FALSE, ranges |-> rs]
          ELSE IF r[2] = p - 1 THEN [new |-> TRUE, ranges |-> [rs EXCEPT ![hit] = <<r[1], p>>]]
          ELSE IF r[1] = p + 1
          THEN [new |-> TRUE, ranges |->
                  IF hit > 1 /\ rs[hit - 1][2] + 1 = p
                  THEN SubSeq(rs, 1, hit - 2) \o <<<<rs[hit - 1][1], r[2]>>>> \o SubSeq(rs, hit + 1, Len(rs))
                  ELSE [rs EXCEPT ![hit] = <<p, r[2]>>]]
          ELSE [new |-> TRUE, ranges |-> insert(hit)]
    BY DEF addToRanges
<1> DEFINE covered(i) == rs[i][1] <= p /\ p <= rs[i][2]
<1>4. \/ hit = 0 /\ \A i \in 1 .. Len(rs) : i \notin hits
      \/ hit \in 1 .. Len(rs) /\ hit \in hits /\ \A i \in 1 .. Len(rs) : i \in hits => i <= hit
  <2>1. hits \in SUBSET (1 .. Len(rs))
      BY <1>2
  <2> HIDE DEF hits
  <2> QED
      BY <1>1, <2>1, LastOf
<1>5. \A i \in 1 .. Len(rs) : i \in hits <=> covered(i) \/ rs[i][2] = p - 1 \/ rs[i][1] = p + 1 \/ p > rs[i][2]
    BY <1>2 DEF covers
<1>6. ASSUME NEW i \in 1 .. Len(rs), i \notin hits PROVE p + 1 < rs[i][1] /\ ~covered(i)
  <2>1. rs[i][1] \in Nat /\ rs[i][2] \in Nat
      BY <1>1
  <2>2. ~covered(i) /\ rs[i][1] # p + 1 /\ ~(p > rs[i][2])
      BY <1>5, <1>6
  <2> QED
      BY <2>1, <2>2
<1>7. ASSUME NEW k \in 0 .. Len(rs) PROVE Inserted(Nat \X Nat, rs, k, <<p, p>>, insert(k))
  <2>1. <<p, p>> \in Nat \X Nat
      OBVIOUS
  <2> QED
      BY <1>1, <2>1, InsertShape, Zenon
<1> HIDE DEF hits, hit, insert, r
<1>8. ASSUME hit = 0 PROVE ~InRanges(rs, p) /\ q.new /\ Adds(rs, p, q.ranges)
  <2>1. \A i \in 1 .. Len(rs) : p + 1 < rs[i][1] /\ ~covered(i)
      BY <1>4, <1>6, <1>8
  <2>2. q.new /\ q.ranges = insert(0)
    <3>1. q = [new |-> TRUE, ranges |-> insert(0)]
        BY <1>3, <1>8, Zenon
    <3> QED
        BY <3>1
  <2>3. 0 \in 0 .. Len(rs)
      BY <1>1
  <2>4. Inserted(Nat \X Nat, rs, 0, <<p, p>>, q.ranges)
      BY <1>7, <2>2, <2>3
  <2>5. Between(rs, 0, p)
      BY <1>1, <2>1 DEF Between
  <2>6. Adds(rs, p, q.ranges)
      BY <2>3, <2>4, <2>5, InsertAdds
  <2>7. ~InRanges(rs, p)
      BY <2>1 DEF InRanges
  <2> QED
      BY <2>2, <2>6, <2>7
<1>9. ASSUME hit # 0, covers(r, p) PROVE InRanges(rs, p) /\ ~q.new /\ q.ranges = rs
  <2>1. ~q.new /\ q.ranges = rs
    <3>1. q = [new |-> FALSE, ranges |-> rs]
        BY <1>3, <1>9, Zenon
    <3> QED
        BY <3>1
  <2>2. InRanges(rs, p)
      BY <1>4, <1>9 DEF InRanges, covers, r
  <2> QED
      BY <2>1, <2>2
<1>10. ASSUME hit # 0, ~covers(r, p) PROVE ~InRanges(rs, p) /\ q.new /\ Adds(rs, p, q.ranges)
  <2>1. hit \in 1 .. Len(rs) /\ hit \in hits /\ hit \in Nat /\ hit >= 1 /\ r[1] \in Nat /\ r[2] \in Nat /\ r[1] <= r[2]
      BY <1>1, <1>4, <1>10 DEF r
  <2>2. r[2] = p - 1 \/ r[1] = p + 1 \/ p > r[2]
      BY <1>5, <1>10, <2>1 DEF covers, r
  <2>3. \A i \in 1 .. Len(rs) : hit < i => p + 1 < rs[i][1] /\ ~covered(i)
    <3> TAKE i \in 1 .. Len(rs)
    <3> HAVE hit < i
    <3>1. i \notin hits
        BY <1>4, <1>10, <2>1
    <3> QED
        BY <3>1, <1>6
  <2>4. \A i \in 1 .. Len(rs) : i < hit => rs[i][2] + 1 < r[1] /\ rs[i][2] \in Nat
      BY <1>1, <2>1 DEF Sorted, r
  <2>5. \A i \in 1 .. Len(rs) : i < hit => rs[i][2] < p
      BY SMTT(60), <2>1, <2>2, <2>4
  <2>6. ~InRanges(rs, p)
    <3> SUFFICES ASSUME NEW i \in 1 .. Len(rs), rs[i][1] <= p, p <= rs[i][2] PROVE FALSE
        BY DEF InRanges
    <3>1. ~(i < hit) /\ ~(hit < i)
        BY SMTT(60), <2>1, <2>3, <2>5, <1>1
    <3>2. i = hit
        BY <3>1, <2>1
    <3> QED
        BY <3>2, <1>10 DEF covers, r
  <2>7. CASE r[2] = p - 1
    <3>1. q.new /\ q.ranges = [rs EXCEPT ![hit] = <<r[1], p>>]
      <4>1. q = [new |-> TRUE, ranges |-> [rs EXCEPT ![hit] = <<r[1], p>>]]
          BY <1>3, <1>10, <2>7, Zenon
      <4> QED
          BY <4>1
    <3>2. /\ r[1] <= p
          /\ \A i \in 1 .. Len(rs) : hit < i => p + 1 < rs[i][1]
          /\ \A i \in 1 .. Len(rs) : i < hit => rs[i][2] + 1 < r[1]
        BY <2>1, <2>3, <2>4, <2>7
    <3>3. \A x \in Nat : (r[1] <= x /\ x <= p) <=> (rs[hit][1] <= x /\ x <= rs[hit][2]) \/ x = p
        BY <2>1, <2>7 DEF r
    <3>4. Adds(rs, p, [rs EXCEPT ![hit] = <<r[1], p>>])
        BY <2>1, <3>2, <3>3, ExtendAdds
    <3> QED
        BY <2>6, <3>1, <3>4
  <2>8. CASE r[2] # p - 1 /\ r[1] = p + 1 /\ hit > 1 /\ rs[hit - 1][2] + 1 = p
    <3>1. q.new /\ q.ranges = SubSeq(rs, 1, hit - 2) \o <<<<rs[hit - 1][1], r[2]>>>> \o SubSeq(rs, hit + 1, Len(rs))
      <4> DEFINE w == SubSeq(rs, 1, hit - 2) \o <<<<rs[hit - 1][1], r[2]>>>> \o SubSeq(rs, hit + 1, Len(rs))
      <4>1. q = [new |-> TRUE, ranges |-> w]
          BY <1>3, <1>10, <2>8, Zenon
      <4> HIDE DEF w
      <4>2. q.new /\ q.ranges = w
          BY <4>1
      <4> QED
          BY <4>2 DEF w
    <3>2. hit \in 2 .. Len(rs) /\ hit - 1 \in 1 .. Len(rs)
        BY <2>1, <2>8
    <3> DEFINE m == <<rs[hit - 1][1], r[2]>>
    <3>3. m \in Nat \X Nat
        BY <1>1, <2>1, <3>2
    <3>5. Merged(Nat \X Nat, rs, hit, m, q.ranges)
      <4>1. Merged(Nat \X Nat, rs, hit, m, SubSeq(rs, 1, hit - 2) \o <<m>> \o SubSeq(rs, hit + 1, Len(rs)))
        <5> HIDE DEF m
        <5> QED
            BY <1>1, <3>2, <3>3, MergeShape, Zenon
      <4> QED
          BY <3>1, <4>1
    <3>7. Merged(Nat \X Nat, rs, hit, <<rs[hit - 1][1], rs[hit][2]>>, q.ranges) /\ rs[hit][1] = p + 1
        BY <2>8, <3>5 DEF r
    <3>8. Adds(rs, p, q.ranges)
        BY <2>8, <3>2, <3>7, MergeAdds
    <3> QED
        BY <2>6, <3>1, <3>8
  <2>9. CASE r[2] # p - 1 /\ r[1] = p + 1 /\ ~(hit > 1 /\ rs[hit - 1][2] + 1 = p)
    <3>1. q.new /\ q.ranges = [rs EXCEPT ![hit] = <<p, r[2]>>]
      <4>1. q = [new |-> TRUE, ranges |-> [rs EXCEPT ![hit] = <<p, r[2]>>]]
          BY <1>3, <1>10, <2>9, Zenon
      <4> QED
          BY <4>1
    <3>2. \A i \in 1 .. Len(rs) : i < hit => rs[i][2] + 1 < p
      <4> TAKE i \in 1 .. Len(rs)
      <4> HAVE i < hit
      <4>1. CASE i = hit - 1
        <5>1. rs[i][2] < p /\ rs[i][2] \in Nat
            BY <2>4, <2>5
        <5>2. hit > 1 /\ rs[i][2] + 1 # p
            BY <4>1, <2>1, <2>9
        <5> QED
            BY <5>1, <5>2
      <4>2. CASE i < hit - 1
        <5>1. hit - 1 \in 1 .. Len(rs) /\ rs[hit - 1][1] <= rs[hit - 1][2] /\ rs[hit - 1][2] < p
          <6>1. hit - 1 \in 1 .. Len(rs) /\ hit - 1 < hit
              BY <4>2, <2>1, <1>1
          <6> QED
              BY <6>1, <1>1, <2>5
        <5>2. rs[i][2] + 1 < rs[hit - 1][1]
            BY <4>2, <5>1 DEF Sorted
        <5> QED
            BY SMTT(60), <5>1, <5>2, <1>1
      <4> QED
          BY <4>1, <4>2, <2>1
    <3>3. /\ p <= r[2]
          /\ \A i \in 1 .. Len(rs) : hit < i => r[2] + 1 < rs[i][1]
        BY <2>1, <2>9, SMTT(60) DEF Sorted, r
    <3>4. \A x \in Nat : (p <= x /\ x <= r[2]) <=> (rs[hit][1] <= x /\ x <= rs[hit][2]) \/ x = p
        BY <2>1, <2>9 DEF r
    <3>5. Adds(rs, p, [rs EXCEPT ![hit] = <<p, r[2]>>])
        BY <2>1, <3>2, <3>3, <3>4, ExtendAdds
    <3> QED
        BY <2>6, <3>1, <3>5
  <2>10. CASE r[2] # p - 1 /\ r[1] # p + 1
    <3>1. q.new /\ q.ranges = insert(hit)
      <4>1. q = [new |-> TRUE, ranges |-> insert(hit)]
          BY <1>3, <1>10, <2>10, Zenon
      <4> QED
          BY <4>1
    <3>2. hit \in 0 .. Len(rs)
        BY <2>1
    <3>3. Inserted(Nat \X Nat, rs, hit, <<p, p>>, q.ranges)
        BY <1>7, <3>1, <3>2
    <3>4. Between(rs, hit, p)
      <4>1. r[2] + 1 < p
          BY <2>1, <2>2, <2>10
      <4>2. \A i \in 1 .. hit : rs[i][2] + 1 < p
        <5> TAKE i \in 1 .. hit
        <5>1. CASE i = hit
            BY <5>1, <4>1 DEF r
        <5>2. CASE i < hit
          <6>1. i \in 1 .. Len(rs)
              BY <2>1, <1>1
          <6>2. rs[i][2] + 1 < r[1] /\ rs[i][2] \in Nat
              BY <5>2, <6>1, <2>4
          <6> QED
              BY SMTT(60), <6>2, <4>1, <2>1
        <5> QED
            BY <5>1, <5>2, <2>1
      <4>3. \A i \in hit + 1 .. Len(rs) : p + 1 < rs[i][1]
          BY <2>1, <2>3
      <4> QED
          BY <4>2, <4>3 DEF Between
    <3>5. Adds(rs, p, q.ranges)
        BY <3>2, <3>3, <3>4, InsertAdds
    <3> QED
        BY <2>6, <3>1, <3>5
  <2> QED
      BY <2>7, <2>8, <2>9, <2>10
<1> QED
    BY <1>8, <1>9, <1>10

\* The last ranges.
LEMMA LastRanges ==
    ASSUME NEW rs, Sorted(rs), NEW d \in 0 .. Len(rs), NEW out, out = SubSeq(rs, d + 1, Len(rs))
    PROVE  /\ Sorted(out) /\ Len(out) = Len(rs) - d
           /\ \A i \in 1 .. Len(out) : d + i \in 1 .. Len(rs) /\ out[i] = rs[d + i]
           /\ \A x \in Nat : InRanges(out, x) <=> \E i \in d + 1 .. Len(rs) : rs[i][1] <= x /\ x <= rs[i][2]
<1>1. Len(rs) \in Nat /\ \A i \in 1 .. Len(rs) : rs[i] \in Nat \X Nat
    BY SortedFacts
<1>2. out \in Seq(Nat \X Nat) /\ Len(out) = Len(rs) - d /\ \A i \in 1 .. Len(rs) - d : out[i] = rs[d + i]
  <2>1. \A i \in d + 1 .. Len(rs) : rs[i] \in Nat \X Nat
      BY <1>1
  <2>2. /\ SubSeq(rs, d + 1, Len(rs)) \in Seq(Nat \X Nat)
        /\ Len(SubSeq(rs, d + 1, Len(rs))) = IF d + 1 <= Len(rs) THEN Len(rs) - (d + 1) + 1 ELSE 0
        /\ \A i \in 1 .. Len(rs) - (d + 1) + 1 : SubSeq(rs, d + 1, Len(rs))[i] = rs[d + 1 + i - 1]
      BY <1>1, <2>1, SubSeqProperties
  <2>3. out \in Seq(Nat \X Nat) /\ Len(out) = Len(rs) - d
      BY <2>2, <1>1
  <2>4. \A i \in 1 .. Len(rs) - d : out[i] = rs[d + i]
    <3> TAKE i \in 1 .. Len(rs) - d
    <3>1. i \in 1 .. Len(rs) - (d + 1) + 1 /\ d + 1 + i - 1 = d + i
        BY <1>1
    <3> QED
        BY <2>2, <3>1
  <2> QED
      BY <2>3, <2>4
<1>3. \A i \in 1 .. Len(out) : d + i \in 1 .. Len(rs) /\ out[i] = rs[d + i]
    BY SMTT(60), <1>1, <1>2
<1>4. Sorted(out)
  <2>1. \A i \in 1 .. Len(out) : out[i][1] <= out[i][2]
      BY <1>3, SortedFacts
  <2>2. ASSUME NEW i \in 1 .. Len(out), NEW j \in 1 .. Len(out), i < j PROVE out[i][2] + 1 < out[j][1]
    <3>1. d + i < d + j /\ d + i \in 1 .. Len(rs) /\ d + j \in 1 .. Len(rs)
        BY <1>3, <2>2
    <3>2. rs[d + i][2] + 1 < rs[d + j][1]
        BY <3>1 DEF Sorted
    <3> QED
        BY <1>3, <3>2
  <2> QED
      BY <1>2, <2>1, <2>2 DEF Sorted
<1>5. ASSUME NEW x \in Nat PROVE InRanges(out, x) <=> \E i \in d + 1 .. Len(rs) : rs[i][1] <= x /\ x <= rs[i][2]
  <2>1. ASSUME InRanges(out, x) PROVE \E i \in d + 1 .. Len(rs) : rs[i][1] <= x /\ x <= rs[i][2]
    <3>1. PICK i \in 1 .. Len(out) : out[i][1] <= x /\ x <= out[i][2]
        BY <2>1 DEF InRanges
    <3>2. d + i \in d + 1 .. Len(rs) /\ out[i] = rs[d + i]
        BY <1>1, <1>3
    <3> QED
        BY <3>1, <3>2
  <2>2. ASSUME NEW i \in d + 1 .. Len(rs), rs[i][1] <= x, x <= rs[i][2] PROVE InRanges(out, x)
    <3>1. i - d \in 1 .. Len(out) /\ d + (i - d) = i
        BY <1>1, <1>2
    <3>2. out[i - d] = rs[i]
        BY <1>3, <3>1
    <3> QED
        BY <2>2, <3>1, <3>2 DEF InRanges
  <2> QED
      BY <2>1, <2>2
<1> QED
    BY <1>2, <1>3, <1>4, <1>5

\* maybeDeleteOldRanges keeps the last ranges, all of them as long as there are few.
LEMMA OldRanges ==
    ASSUME NEW rs, Sorted(rs), Len(rs) >= 1, NEW out, out = maybeDeleteOldRanges(rs)
    PROVE  /\ Sorted(out) /\ Len(out) >= 1 /\ out[Len(out)] = rs[Len(rs)]
           /\ \A x \in Nat : InRanges(out, x) => InRanges(rs, x)
           /\ Len(rs) <= MaxNumAckRanges => out = rs
<1>1. Len(rs) \in Nat /\ MaxNumAckRanges \in Nat \ {0}
    BY SortedFacts, AckAssumption
<1>2. CASE Len(rs) <= MaxNumAckRanges
  <2>1. out = rs
      BY <1>1, <1>2 DEF maybeDeleteOldRanges
  <2> QED
      BY <2>1
<1>3. CASE Len(rs) > MaxNumAckRanges
  <2> DEFINE d == Len(rs) - MaxNumAckRanges
  <2>1. d \in 0 .. Len(rs) /\ Len(rs) - MaxNumAckRanges + 1 = d + 1
      BY <1>1, <1>3
  <2>2. out = SubSeq(rs, d + 1, Len(rs))
    <3>1. out = SubSeq(rs, Len(rs) - MaxNumAckRanges + 1, Len(rs))
        BY <1>3, Zenon DEF maybeDeleteOldRanges
    <3> QED
        BY <2>1, <3>1, Zenon
  <2>3. /\ Sorted(out) /\ Len(out) = Len(rs) - d
        /\ \A i \in 1 .. Len(out) : d + i \in 1 .. Len(rs) /\ out[i] = rs[d + i]
        /\ \A x \in Nat : InRanges(out, x) <=> \E i \in d + 1 .. Len(rs) : rs[i][1] <= x /\ x <= rs[i][2]
    <3> HIDE DEF d
    <3> QED
        BY <2>1, <2>2, LastRanges, Zenon
  <2>4. Len(out) \in 1 .. Len(out) /\ d + Len(out) = Len(rs) /\ Len(out) >= 1
    <3>1. Len(out) = Len(rs) - d
        BY <2>3, Zenon
    <3>2. Len(out) = MaxNumAckRanges
        BY <1>1, <3>1
    <3> QED
        BY <1>1, <3>1, <3>2
  <2>5. \A i \in d + 1 .. Len(rs) : i \in 1 .. Len(rs)
      BY <1>1, <2>1
  <2>6. \A x \in Nat : InRanges(out, x) => InRanges(rs, x)
      BY <2>3, <2>5 DEF InRanges
  <2>7. out[Len(out)] = rs[Len(rs)]
      BY <2>3, <2>4
  <2> QED
      BY <1>1, <1>3, <2>3, <2>4, <2>6, <2>7
<1> QED
    BY <1>1, <1>2, <1>3

\* DeleteBelow keeps what is not below p.
LEMMA DeletedBelow ==
    ASSUME NEW rs, Sorted(rs), NEW p \in Nat, NEW out, out = DeleteBelow(rs, p)
    PROVE  /\ Sorted(out)
           /\ \A x \in Nat : InRanges(out, x) <=> InRanges(rs, x) /\ x >= p
<1>1. /\ rs \in Seq(Nat \X Nat) /\ Len(rs) \in Nat /\ DOMAIN rs = 1 .. Len(rs)
      /\ \A i \in 1 .. Len(rs) : rs[i][1] \in Nat /\ rs[i][2] \in Nat /\ rs[i][1] <= rs[i][2]
    BY SortedFacts
<1> DEFINE gone == {i \in DOMAIN rs : \A j \in 1 .. i : rs[j][2] < p}
           d == lastOf(gone)
           kept == SubSeq(rs, d + 1, Len(rs))
<1>2. out = IF kept # <<>> /\ kept[1][1] < p THEN [kept EXCEPT ![1] = <<p, @[2]>>] ELSE kept
    BY DEF DeleteBelow
<1>3. \/ d = 0 /\ \A i \in 1 .. Len(rs) : i \notin gone
      \/ d \in 1 .. Len(rs) /\ d \in gone /\ \A i \in 1 .. Len(rs) : i \in gone => i <= d
  <2>1. gone \in SUBSET (1 .. Len(rs))
      BY <1>1
  <2> HIDE DEF gone
  <2> QED
      BY <1>1, <2>1, LastOf
<1> HIDE DEF d
<1>4. d \in 0 .. Len(rs)
    BY <1>1, <1>3
<1>5. \A i \in 1 .. d : rs[i][2] < p
    BY <1>1, <1>3
<1>6. \A i \in d + 1 .. Len(rs) : rs[i][2] >= p
  <2> SUFFICES ASSUME d + 1 <= Len(rs) PROVE \A i \in d + 1 .. Len(rs) : rs[i][2] >= p
      BY <1>1, <1>4
  <2>1. d + 1 \in 1 .. Len(rs) /\ d + 1 \notin gone
      BY <1>1, <1>3, <1>4
  <2>2. ~(rs[d + 1][2] < p)
    <3> SUFFICES ASSUME rs[d + 1][2] < p PROVE FALSE
        OBVIOUS
    <3>1. \A j \in 1 .. d + 1 : rs[j][2] < p
        BY <1>4, <1>5
    <3> QED
        BY <2>1, <3>1, <1>1
  <2> TAKE i \in d + 1 .. Len(rs)
  <2>3. i \in 1 .. Len(rs) /\ (i = d + 1 \/ d + 1 < i)
      BY <1>1, <1>4
  <2>4. CASE i = d + 1
      BY <2>1, <2>2, <2>4, <1>1
  <2>5. CASE d + 1 < i
    <3>1. rs[d + 1][2] + 1 < rs[i][1]
        BY <2>1, <2>3, <2>5 DEF Sorted
    <3> QED
        BY SMTT(60), <3>1, <2>1, <2>2, <2>3, <1>1
  <2> QED
      BY <2>3, <2>4, <2>5
<1> HIDE DEF gone
<1>7. /\ Sorted(kept) /\ Len(kept) = Len(rs) - d
      /\ \A i \in 1 .. Len(kept) : d + i \in 1 .. Len(rs) /\ kept[i] = rs[d + i]
      /\ \A x \in Nat : InRanges(kept, x) <=> \E i \in d + 1 .. Len(rs) : rs[i][1] <= x /\ x <= rs[i][2]
    BY <1>4, LastRanges
<1> HIDE DEF kept
<1>8. \A x \in Nat : InRanges(rs, x) /\ x >= p <=> InRanges(kept, x) /\ x >= p
  <2> TAKE x \in Nat
  <2>1. ASSUME InRanges(rs, x), x >= p PROVE InRanges(kept, x)
    <3>1. PICK i \in 1 .. Len(rs) : rs[i][1] <= x /\ x <= rs[i][2]
        BY <2>1 DEF InRanges
    <3>2. ~(i \in 1 .. d)
        BY <3>1, <2>1, <1>1, <1>5
    <3>3. i \in d + 1 .. Len(rs)
        BY <3>2, <1>1, <1>4
    <3> QED
        BY <3>1, <3>3, <1>7
  <2>2. ASSUME InRanges(kept, x) PROVE InRanges(rs, x)
    <3>1. PICK i \in d + 1 .. Len(rs) : rs[i][1] <= x /\ x <= rs[i][2]
        BY <2>2, <1>7
    <3>2. i \in 1 .. Len(rs)
        BY <1>1, <1>4
    <3> QED
        BY <3>1, <3>2 DEF InRanges
  <2> QED
      BY <2>1, <2>2
<1>9. kept \in Seq(Nat \X Nat) /\ Len(kept) \in Nat /\ \A i \in 1 .. Len(kept) : kept[i][1] \in Nat /\ kept[i][2] \in Nat /\ kept[i][1] <= kept[i][2]
    BY <1>7, SortedFacts
<1>10. \A i \in 1 .. Len(kept) : kept[i][2] >= p
  <2> TAKE i \in 1 .. Len(kept)
  <2>1. d + i \in d + 1 .. Len(rs) /\ kept[i] = rs[d + i]
      BY <1>1, <1>4, <1>7, <1>9
  <2> QED
      BY <2>1, <1>6
<1>11. CASE kept # <<>> /\ kept[1][1] < p
  <2>1. 1 \in 1 .. Len(kept)
      BY <1>9, <1>11
  <2> DEFINE hi == kept[1][2]
             r == <<p, hi>>
  <2>2. out = [kept EXCEPT ![1] = r]
      BY <1>2, <1>11
  <2>3. r \in Nat \X Nat /\ r[1] = p /\ r[2] = hi /\ hi \in Nat /\ p <= hi
      BY <2>1, <1>9, <1>10
  <2> HIDE DEF r, hi
  <2>4. out \in Seq(Nat \X Nat) /\ Len(out) = Len(kept) /\ \A i \in 1 .. Len(kept) : out[i] = IF i = 1 THEN r ELSE kept[i]
      BY <2>1, <2>2, <2>3, <1>9, ExceptSeq
  <2>5. \A i \in 1 .. Len(out) : out[i][1] <= out[i][2]
      BY <2>3, <2>4, <1>9
  <2>6. ASSUME NEW i \in 1 .. Len(out), NEW j \in 1 .. Len(out), i < j PROVE out[i][2] + 1 < out[j][1]
    <3>1. out[i][2] = kept[i][2]
        BY <2>3, <2>4 DEF hi
    <3>2. out[j] = kept[j]
        BY <2>4, <2>6
    <3>3. kept[i][2] + 1 < kept[j][1]
        BY <2>4, <2>6, <1>7 DEF Sorted
    <3> QED
        BY <3>1, <3>2, <3>3
  <2>7. Sorted(out)
      BY <2>4, <2>5, <2>6 DEF Sorted
  <2>8. ASSUME NEW x \in Nat PROVE InRanges(out, x) <=> InRanges(kept, x) /\ x >= p
    <3>1. ASSUME InRanges(out, x) PROVE InRanges(kept, x) /\ x >= p
      <4>1. PICK i \in 1 .. Len(out) : out[i][1] <= x /\ x <= out[i][2]
          BY <3>1 DEF InRanges
      <4>2. CASE i = 1
        <5>1. p <= x /\ x <= kept[1][2] /\ kept[1][1] <= x
            BY <4>1, <4>2, <2>1, <2>3, <2>4, <1>9, <1>11 DEF hi
        <5> QED
            BY <5>1, <2>1 DEF InRanges
      <4>3. CASE i # 1
        <5>1. i \in 1 .. Len(kept) /\ kept[i][1] <= x /\ x <= kept[i][2]
            BY <4>1, <4>3, <2>4
        <5>2. hi + 1 < kept[i][1]
            BY <4>3, <5>1, <2>1, <1>7 DEF Sorted, hi
        <5>3. x >= p
            BY SMTT(60), <5>1, <5>2, <2>3, <1>9
        <5> QED
            BY <5>1, <5>3 DEF InRanges
      <4> QED
          BY <4>2, <4>3
    <3>2. ASSUME InRanges(kept, x), x >= p PROVE InRanges(out, x)
      <4>1. PICK i \in 1 .. Len(kept) : kept[i][1] <= x /\ x <= kept[i][2]
          BY <3>2 DEF InRanges
      <4>2. out[i][1] <= x /\ x <= out[i][2]
          BY <4>1, <3>2, <2>3, <2>4 DEF hi
      <4> QED
          BY <4>2, <2>4 DEF InRanges
    <3> QED
        BY <3>1, <3>2
  <2> QED
      BY <2>7, <2>8, <1>8
<1>12. CASE ~(kept # <<>> /\ kept[1][1] < p)
  <2>1. out = kept
      BY <1>2, <1>12, Zenon
  <2>2. \A i \in 1 .. Len(kept) : kept[i][1] >= p
    <3> TAKE i \in 1 .. Len(kept)
    <3>1. 1 \in 1 .. Len(kept) /\ kept # <<>>
        BY <1>9
    <3>2. kept[1][1] >= p /\ kept[1][1] <= kept[1][2] /\ kept[1][1] \in Nat /\ kept[1][2] \in Nat
        BY <3>1, <1>9, <1>12
    <3>3. i = 1 \/ kept[1][2] + 1 < kept[i][1]
        BY <3>1, <1>7 DEF Sorted
    <3> QED
        BY <3>2, <3>3, <1>9
  <2>3. \A x \in Nat : InRanges(kept, x) => x >= p
      BY <2>2, <1>9 DEF InRanges
  <2> QED
      BY <2>1, <2>3, <1>7, <1>8
<1> QED
    BY <1>11, <1>12

\* IsPotentiallyDuplicate searches the ranges from the back, and stops where it may.
LEMMA DuplicateFacts ==
    ASSUME Sorted(ranges), NEW p \in Nat
    PROVE  IsPotentiallyDuplicate(p) <=> p < deletedBelow \/ InRanges(ranges, p)
<1>1. /\ ranges \in Seq(Nat \X Nat) /\ Len(ranges) \in Nat /\ DOMAIN ranges = 1 .. Len(ranges)
      /\ \A i \in 1 .. Len(ranges) : ranges[i][1] \in Nat /\ ranges[i][2] \in Nat /\ ranges[i][1] <= ranges[i][2]
    BY SortedFacts
<1> DEFINE hits == {i \in DOMAIN ranges : p > ranges[i][2] \/ covers(ranges[i], p)}
           hit == lastOf(hits)
<1>2. \/ hit = 0 /\ \A i \in 1 .. Len(ranges) : i \notin hits
      \/ hit \in 1 .. Len(ranges) /\ hit \in hits /\ \A i \in 1 .. Len(ranges) : i \in hits => i <= hit
  <2>1. hits \in SUBSET (1 .. Len(ranges))
      BY <1>1
  <2> HIDE DEF hits
  <2> QED
      BY <1>1, <2>1, LastOf
<1>3. IsPotentiallyDuplicate(p) <=> p < deletedBelow \/ (hit # 0 /\ covers(ranges[hit], p))
    BY DEF IsPotentiallyDuplicate
<1> HIDE DEF hit
<1>4. ASSUME hit # 0, covers(ranges[hit], p) PROVE InRanges(ranges, p)
    BY <1>2, <1>4 DEF InRanges, covers
<1>5. ASSUME InRanges(ranges, p) PROVE hit # 0 /\ covers(ranges[hit], p)
  <2>1. PICK i \in 1 .. Len(ranges) : ranges[i][1] <= p /\ p <= ranges[i][2]
      BY <1>5 DEF InRanges
  <2>2. i \in hits
      BY <2>1, <1>1 DEF covers
  <2>3. hit \in 1 .. Len(ranges) /\ hit \in hits /\ i <= hit
      BY <2>2, <1>2
  <2>4. CASE i = hit
      BY <2>1, <2>3, <2>4 DEF covers
  <2>5. CASE i < hit
    <3>1. ranges[i][2] + 1 < ranges[hit][1]
        BY <2>3, <2>5 DEF Sorted
    <3>2. ~(p > ranges[hit][2])
        BY SMTT(60), <2>1, <2>3, <3>1, <1>1
    <3> QED
        BY <2>3, <3>2
  <2> QED
      BY <2>3, <2>4, <2>5
<1> QED
    BY <1>3, <1>4, <1>5

-----------------------------------------------------------------------------
\* Types; the three bounds below which nothing is reported are the same.
AckType ==
    /\ dataPkts \subseteq [pn: Nat, mark: {"ECT0", "Non"}, acks: SUBSET Nat] /\ IsFiniteSet(dataPkts)
    /\ ackPkts \subseteq [pn: Nat, acks: SUBSET Nat, ect0: Nat, ce: Nat] /\ IsFiniteSet(ackPkts)
    /\ ackPNsSeen \subseteq Nat
    /\ handled \subseteq Nat \X {"ECT0", "CE", "Non"}
    /\ deletedBelow \in Nat /\ ignoreBelow = deletedBelow /\ lowestNotConfirmedAcked = deletedBelow
    /\ rcvdECT0 \in Nat /\ rcvdCE \in Nat
    /\ Sorted(ranges)

\* What each end knows of the other's packets; an ACK frame the sender has seen when it sends a
\* packet reports packets sent before that one.
SeenInv ==
    /\ \A p \in dataPkts : p.pn < Cardinality(dataPkts) /\ p.acks \subseteq ackPNsSeen
    /\ \A n \in ackPNsSeen : n < Cardinality(ackPkts)
    /\ \A a \in ackPkts : a.pn < Cardinality(ackPkts) /\ \A x \in a.acks : x < Cardinality(dataPkts)
    /\ \A p \in dataPkts : \A a \in ackPkts : a.pn \in p.acks => \A x \in a.acks : x < p.pn
    /\ \A h \in handled : h[1] < Cardinality(dataPkts)

\* Only packets that were handled are in the ranges.
RangesInv == \A x \in Nat : InRanges(ranges, x) => \E h \in handled : h[1] = x

AckInv == AckType /\ SeenInv /\ RangesInv /\ AckIsScheduled

\* Packets that were handled are in the ranges or below them.
Remembered == \A h \in handled : h[1] < deletedBelow \/ InRanges(ranges, h[1])

-----------------------------------------------------------------------------
LEMMA AckInitInv == AckInit => AckInv /\ Remembered
<1> SUFFICES ASSUME AckInit PROVE AckInv /\ Remembered
    OBVIOUS
<1> USE DEF AckInit
<1>1. Cardinality({}) = 0 /\ IsFiniteSet({})
    BY FS_EmptySet
<1>2. ranges = <<>> /\ Len(ranges) = 0
    OBVIOUS
<1>3. Sorted(ranges)
    BY <1>2 DEF Sorted
<1>4. AckType
    BY <1>1, <1>3 DEF AckType
<1>5. SeenInv
    BY DEF SeenInv
<1>6. RangesInv
    BY <1>2 DEF RangesInv, InRanges
<1> QED
    BY <1>4, <1>5, <1>6 DEF AckInv, AckIsScheduled, Remembered

\* What an ACK in a packet confirms was reported before the packet was sent.
LEMMA Confirmed ==
    ASSUME AckInv, NEW p \in dataPkts, NEW l, l = confirmedBelow(p.acks)
    PROVE  l \in Nat /\ deletedBelow <= l /\ (l = deletedBelow \/ l <= p.pn)
<1>1. /\ p.pn \in Nat /\ deletedBelow \in Nat /\ lowestNotConfirmedAcked = deletedBelow
      /\ \A a \in ackPkts : a.acks \in SUBSET Nat
    BY DEF AckInv, AckType
<1>2. \A a \in ackPkts : a.pn \in p.acks => \A x \in a.acks : x <= p.pn - 1 /\ x < p.pn
    BY <1>1 DEF AckInv, SeenInv
<1> DEFINE B == {b \in ackPkts : b.pn \in p.acks /\ b.acks # {}}
           S == {deletedBelow} \cup {Max(a.acks) + 1 : a \in B}
<1>3. ASSUME NEW a \in B PROVE Max(a.acks) + 1 \in Nat /\ Max(a.acks) + 1 <= p.pn
  <2>1. a \in ackPkts /\ a.pn \in p.acks /\ a.acks # {} /\ a.acks \in SUBSET Nat
      BY <1>1
  <2>2. \A x \in a.acks : x <= p.pn
      BY <1>2, <2>1, <1>1
  <2>3. Max(a.acks) \in a.acks
      BY <1>1, <2>1, <2>2, MaxOf
  <2> QED
      BY <1>2, <2>1, <2>3, <1>1
<1>4. l = Max(S)
    BY <1>1 DEF confirmedBelow
<1>5. S \in SUBSET Nat /\ deletedBelow \in S /\ \A x \in S : x = deletedBelow \/ x <= p.pn
    BY <1>1, <1>3, Zenon
<1> HIDE DEF S
<1>6. \A x \in S : x <= deletedBelow + p.pn
    BY <1>1, <1>5
<1>7. deletedBelow + p.pn \in Nat
    BY <1>1
<1>8. Max(S) \in S /\ \A x \in S : x <= Max(S)
    BY <1>5, <1>6, <1>7, MaxOf
<1> QED
    BY <1>1, <1>4, <1>5, <1>8

\* What becomes of the ranges when a new packet is recorded.
LEMMA RecordedRanges ==
    ASSUME AckInv, NEW p \in dataPkts, ~IsPotentiallyDuplicate(p.pn), NEW l, l = confirmedBelow(p.acks),
           NEW rs, rs = maybeDeleteOldRanges(addToRanges(ranges, p.pn).ranges),
           NEW out, out = IF l > ignoreBelow THEN DeleteBelow(rs, l) ELSE rs
    PROVE  /\ Sorted(out) /\ out # <<>>
           /\ \A x \in Nat : InRanges(out, x) => InRanges(ranges, x) \/ x = p.pn
           /\ \A h \in handled : h[1] # p.pn \/ ~InRanges(ranges, h[1])
           /\ Len(ranges) < MaxNumAckRanges =>
                \A x \in Nat : (InRanges(ranges, x) \/ x = p.pn) => x < l \/ InRanges(out, x)
<1>1. p.pn \in Nat /\ deletedBelow \in Nat /\ ignoreBelow = deletedBelow /\ Sorted(ranges)
    BY DEF AckInv, AckType
<1>2. ~InRanges(ranges, p.pn) /\ p.pn >= deletedBelow
    BY <1>1, DuplicateFacts
<1> DEFINE q == addToRanges(ranges, p.pn)
           rs0 == q.ranges
<1>3. Adds(ranges, p.pn, rs0)
    BY <1>1, <1>2, AddToRanges
<1> HIDE DEF q
<1>4. Sorted(rs0) /\ Len(rs0) >= 1
    BY <1>3 DEF Adds
<1>5. \A x \in Nat : InRanges(rs0, x) <=> InRanges(ranges, x) \/ x = p.pn
    BY <1>3 DEF Adds
<1>6. /\ Sorted(rs) /\ Len(rs) >= 1 /\ rs[Len(rs)] = rs0[Len(rs0)]
      /\ \A x \in Nat : InRanges(rs, x) => InRanges(rs0, x)
      /\ Len(rs0) <= MaxNumAckRanges => rs = rs0
  <2>1. rs = maybeDeleteOldRanges(rs0)
      BY DEF q
  <2> HIDE DEF rs0
  <2> QED
      BY <1>4, <2>1, OldRanges
<1>7. l \in Nat /\ deletedBelow <= l /\ l <= p.pn
    BY <1>1, <1>2, Confirmed
<1> DEFINE y == rs[Len(rs)][2]
<1>8. y \in Nat /\ y >= p.pn /\ InRanges(rs, y)
  <2>1. /\ Len(rs0) \in Nat /\ Len(rs0) \in 1 .. Len(rs0)
        /\ \A i \in 1 .. Len(rs0) : rs0[i][1] \in Nat /\ rs0[i][2] \in Nat /\ rs0[i][1] <= rs0[i][2]
    <3> HIDE DEF rs0
    <3> QED
        BY <1>4, SortedFacts
  <2>2. Len(rs) \in Nat /\ Len(rs) \in 1 .. Len(rs)
      BY <1>6, SortedFacts
  <2> HIDE DEF rs0
  <2>3. PICK i \in 1 .. Len(rs0) : rs0[i][1] <= p.pn /\ p.pn <= rs0[i][2]
      BY <1>1, <1>5 DEF InRanges
  <2>4. i = Len(rs0) \/ rs0[i][2] + 1 < rs0[Len(rs0)][1]
      BY <1>4, <2>1 DEF Sorted
  <2>5. rs0[Len(rs0)][2] \in Nat /\ rs0[Len(rs0)][2] >= p.pn /\ rs0[Len(rs0)][1] <= rs0[Len(rs0)][2]
    <3>1. rs0[i][2] \in Nat /\ rs0[Len(rs0)][1] \in Nat /\ rs0[Len(rs0)][2] \in Nat /\ rs0[Len(rs0)][1] <= rs0[Len(rs0)][2]
        BY <2>1
    <3> QED
        BY <1>1, <2>3, <2>4, <3>1
  <2>6. rs[Len(rs)][1] <= y /\ y <= y
      BY <1>6, <2>5
  <2>7. InRanges(rs, y)
      BY <2>2, <2>6 DEF InRanges
  <2> QED
      BY <1>6, <2>5, <2>7
<1> HIDE DEF y, rs0
<1>9. ASSUME NEW x \in Nat PROVE InRanges(out, x) <=> InRanges(rs, x) /\ (l > deletedBelow => x >= l)
  <2>1. CASE l > deletedBelow
    <3>1. out = DeleteBelow(rs, l)
        BY <1>1, <2>1
    <3>2. \A z \in Nat : InRanges(out, z) <=> InRanges(rs, z) /\ z >= l
        BY SMTT(60), <1>6, <1>7, <3>1, DeletedBelow
    <3> QED
        BY <2>1, <3>2
  <2>2. CASE ~(l > deletedBelow)
      BY <1>1, <2>2
  <2> QED
      BY <2>1, <2>2
<1>10. Sorted(out)
  <2>1. CASE l > deletedBelow
      BY <1>1, <1>6, <1>7, <2>1, DeletedBelow
  <2>2. CASE ~(l > deletedBelow)
      BY <1>1, <1>6, <2>2
  <2> QED
      BY <2>1, <2>2
<1>11. out # <<>>
  <2>1. InRanges(out, y)
      BY <1>1, <1>7, <1>8, <1>9
  <2>2. PICK i \in 1 .. Len(out) : TRUE
      BY <2>1 DEF InRanges
  <2> QED
      BY <2>2
<1>12. ASSUME Len(ranges) < MaxNumAckRanges, NEW x \in Nat, InRanges(ranges, x) \/ x = p.pn
       PROVE  x < l \/ InRanges(out, x)
  <2>1. Len(rs0) <= MaxNumAckRanges
    <3>1. Len(rs0) <= Len(ranges) + 1
        BY <1>3 DEF Adds
    <3>2. Len(rs0) \in Nat /\ Len(ranges) \in Nat /\ MaxNumAckRanges \in Nat
        BY <1>1, <1>4, SortedFacts, AckAssumption
    <3> QED
        BY <1>12, <3>1, <3>2
  <2> QED
      BY <1>5, <1>6, <1>7, <1>9, <1>12, <2>1
<1> QED
    BY <1>2, <1>5, <1>6, <1>9, <1>10, <1>11, <1>12

LEMMA ReceiveDataInv ==
    ASSUME AckInv, ReceiveData
    PROVE  AckInv' /\ (Remembered /\ Len(ranges) < MaxNumAckRanges => Remembered')
<1>1. PICK p \in dataPkts, mark \in {"ECT0", "CE", "Non"} :
        /\ ~IsPotentiallyDuplicate(p.pn)
        /\ lowestNotConfirmedAcked' = confirmedBelow(p.acks)
        /\ hasNewAck' = TRUE
        /\ ackAlarm' = ~ackQueued'
        /\ ignoreBelow' = Max({ignoreBelow, confirmedBelow(p.acks)})
        /\ deletedBelow' = Max({deletedBelow, confirmedBelow(p.acks)})
        /\ ranges' = IF confirmedBelow(p.acks) > ignoreBelow
                     THEN DeleteBelow(maybeDeleteOldRanges(addToRanges(ranges, p.pn).ranges), confirmedBelow(p.acks))
                     ELSE maybeDeleteOldRanges(addToRanges(ranges, p.pn).ranges)
        /\ countMark(mark)
        /\ handled' = handled \cup {<<p.pn, mark>>}
        /\ UNCHANGED <<sndSide, ackPkts, lastAck>>
  <2>1. PICK p \in dataPkts : \E mark \in {p.mark} \cup (IF PathMarksCE /\ p.mark = "ECT0" THEN {"CE"} ELSE {}) :
          /\ ~IsPotentiallyDuplicate(p.pn)
          /\ lowestNotConfirmedAcked' = confirmedBelow(p.acks)
          /\ hasNewAck' = TRUE
          /\ ackAlarm' = ~ackQueued'
          /\ ignoreBelow' = Max({ignoreBelow, confirmedBelow(p.acks)})
          /\ deletedBelow' = Max({deletedBelow, confirmedBelow(p.acks)})
          /\ ranges' = IF confirmedBelow(p.acks) > ignoreBelow
                       THEN DeleteBelow(maybeDeleteOldRanges(addToRanges(ranges, p.pn).ranges), confirmedBelow(p.acks))
                       ELSE maybeDeleteOldRanges(addToRanges(ranges, p.pn).ranges)
          /\ countMark(mark)
          /\ handled' = handled \cup {<<p.pn, mark>>}
          /\ UNCHANGED <<sndSide, ackPkts, lastAck>>
      BY ZenonT(60) DEF ReceiveData
  <2>2. p.mark \in {"ECT0", "Non"}
      BY DEF AckInv, AckType
  <2>3. {p.mark} \cup (IF PathMarksCE /\ p.mark = "ECT0" THEN {"CE"} ELSE {}) \subseteq {"ECT0", "CE", "Non"}
      BY <2>2
  <2> QED
      BY <2>1, <2>3, Zenon
<1> DEFINE l == confirmedBelow(p.acks)
           rs == maybeDeleteOldRanges(addToRanges(ranges, p.pn).ranges)
<1>2. /\ Sorted(ranges') /\ ranges' # <<>>
      /\ \A x \in Nat : InRanges(ranges', x) => InRanges(ranges, x) \/ x = p.pn
      /\ Len(ranges) < MaxNumAckRanges =>
           \A x \in Nat : (InRanges(ranges, x) \/ x = p.pn) => x < l \/ InRanges(ranges', x)
  <2>1. ranges' = IF l > ignoreBelow THEN DeleteBelow(rs, l) ELSE rs
      BY <1>1
  <2> HIDE DEF l
  <2>2. l = confirmedBelow(p.acks)
      BY DEF l
  <2> HIDE DEF rs
  <2>3. rs = maybeDeleteOldRanges(addToRanges(ranges, p.pn).ranges)
      BY DEF rs
  <2> QED
      BY <1>1, <2>1, <2>2, <2>3, RecordedRanges
<1>3. l \in Nat /\ deletedBelow <= l
    BY Confirmed
<1> HIDE DEF l, rs
<1>4. /\ dataPkts' = dataPkts /\ ackPkts' = ackPkts /\ ackPNsSeen' = ackPNsSeen
      /\ hasNewAck' /\ ackAlarm' = ~ackQueued' /\ handled' = handled \cup {<<p.pn, mark>>}
    BY <1>1 DEF sndSide
<1>5. deletedBelow \in Nat /\ ignoreBelow = deletedBelow /\ p.pn \in Nat /\ p.pn < Cardinality(dataPkts)
    BY DEF AckInv, AckType, SeenInv
<1>6. deletedBelow' = l /\ ignoreBelow' = l /\ lowestNotConfirmedAcked' = l
  <2>1. Max({deletedBelow, l}) = l
    <3>1. Max({deletedBelow, l}) \in {deletedBelow, l} /\ \A x \in {deletedBelow, l} : x <= Max({deletedBelow, l})
        BY <1>3, <1>5, MaxOf
    <3> QED
        BY <1>3, <1>5, <3>1
  <2> QED
      BY <1>1, <1>5, <2>1 DEF l
<1>7. AckType'
  <2>1. rcvdECT0' \in Nat /\ rcvdCE' \in Nat
      BY <1>1 DEF AckInv, AckType, countMark
  <2> QED
      BY <1>2, <1>3, <1>4, <1>5, <1>6, <2>1 DEF AckInv, AckType
<1>8. SeenInv'
  <2>1. \A h \in handled' : h[1] < Cardinality(dataPkts)
      BY <1>4, <1>5 DEF AckInv, SeenInv
  <2> QED
      BY <1>4, <2>1 DEF AckInv, SeenInv
<1>9. RangesInv'
  <2> SUFFICES ASSUME NEW x \in Nat, InRanges(ranges', x) PROVE \E h \in handled' : h[1] = x
      BY DEF RangesInv
  <2>1. CASE InRanges(ranges, x)
    <3>1. PICK h \in handled : h[1] = x
        BY <2>1 DEF AckInv, RangesInv
    <3> QED
        BY <3>1, <1>4
  <2>2. CASE x = p.pn
    <3>1. <<p.pn, mark>> \in handled' /\ <<p.pn, mark>>[1] = x
        BY <2>2, <1>4
    <3> QED
        BY <3>1, Zenon
  <2> QED
      BY <2>1, <2>2, <1>2
<1>10. AckIsScheduled'
    BY <1>2, <1>4 DEF AckIsScheduled
<1>11. ASSUME Remembered, Len(ranges) < MaxNumAckRanges PROVE Remembered'
  <2> SUFFICES ASSUME NEW h \in handled' PROVE h[1] < l \/ InRanges(ranges', h[1])
      BY <1>6 DEF Remembered
  <2>1. h \in handled \/ h[1] = p.pn
      BY <1>4
  <2>2. \A g \in handled : g[1] \in Nat /\ (g[1] < deletedBelow \/ InRanges(ranges, g[1]))
      BY <1>11 DEF Remembered, AckInv, AckType
  <2>3. h[1] \in Nat
      BY <2>1, <2>2, <1>5
  <2>4. CASE h[1] < deletedBelow
      BY <2>3, <2>4, <1>3, <1>5
  <2>5. CASE InRanges(ranges, h[1]) \/ h[1] = p.pn
      BY <2>3, <2>5, <1>2, <1>11
  <2> QED
      BY <2>1, <2>2, <2>4, <2>5
<1> QED
    BY <1>7, <1>8, <1>9, <1>10, <1>11 DEF AckInv

LEMMA SendDataInv ==
    ASSUME AckInv, SendData
    PROVE  AckInv' /\ (Remembered => Remembered')
<1> DEFINE n == Cardinality(dataPkts)
           p == [pn |-> n, mark |-> Mode(tested(ecn)), acks |-> ackPNsSeen]
<1>1. /\ dataPkts' = dataPkts \cup {p} /\ ackPNsSeen' = ackPNsSeen /\ ackPkts' = ackPkts
      /\ UNCHANGED rcvSide
    BY DEF SendData
<1>2. n \in Nat /\ IsFiniteSet(dataPkts) /\ Cardinality(ackPkts) \in Nat
    BY FS_CardinalityType DEF AckInv, AckType
<1>3. p.pn = n /\ p.acks = ackPNsSeen /\ p \in [pn: Nat, mark: {"ECT0", "Non"}, acks: SUBSET Nat]
  <2>1. Mode(tested(ecn)) \in {"ECT0", "Non"} /\ ackPNsSeen \in SUBSET Nat
      BY DEF Mode, AckInv, AckType
  <2> HIDE DEF n
  <2> QED
      BY <1>2, <2>1
<1> HIDE DEF p
<1>4. p \notin dataPkts
    BY <1>2, <1>3 DEF AckInv, SeenInv
<1>5. Cardinality(dataPkts') = n + 1 /\ IsFiniteSet(dataPkts')
    BY <1>1, <1>2, <1>4, FS_AddElement
<1> HIDE DEF n
<1>6. AckType'
    BY <1>1, <1>3, <1>5 DEF AckInv, AckType, rcvSide
<1>7. SeenInv'
  <2>1. \A q \in dataPkts : q.pn \in Nat /\ q.pn < n /\ q.acks \subseteq ackPNsSeen
      BY DEF AckInv, SeenInv, AckType, n
  <2>2. \A q \in dataPkts' : q.pn < n + 1 /\ q.acks \subseteq ackPNsSeen
      BY <1>1, <1>2, <1>3, <2>1
  <2>3. \A a \in ackPkts : a.acks \in SUBSET Nat /\ a.pn < Cardinality(ackPkts) /\ \A x \in a.acks : x < n
      BY DEF AckInv, SeenInv, AckType, n
  <2>4. \A a \in ackPkts : a.pn < Cardinality(ackPkts) /\ \A x \in a.acks : x < n + 1
      BY <1>2, <2>3
  <2>5. \A q \in dataPkts' : \A a \in ackPkts : a.pn \in q.acks => \A x \in a.acks : x < q.pn
    <3>1. \A q \in dataPkts : \A a \in ackPkts : a.pn \in q.acks => \A x \in a.acks : x < q.pn
        BY DEF AckInv, SeenInv
    <3> QED
        BY <1>1, <1>3, <2>3, <3>1
  <2>6. \A h \in handled : h[1] < n + 1
    <3>1. \A h \in handled : h[1] \in Nat /\ h[1] < n
        BY DEF AckInv, AckType, SeenInv, n
    <3> QED
        BY <1>2, <3>1
  <2>7. \A m \in ackPNsSeen : m < Cardinality(ackPkts)
      BY DEF AckInv, SeenInv
  <2> QED
      BY <1>1, <1>5, <2>2, <2>4, <2>5, <2>6, <2>7 DEF SeenInv, rcvSide
<1> QED
    BY <1>1, <1>6, <1>7 DEF AckInv, RangesInv, InRanges, AckIsScheduled, Remembered, rcvSide

LEMMA SendAckInv ==
    ASSUME AckInv, SendAck
    PROVE  AckInv' /\ (Remembered => Remembered')
<1>1. PICK onlyIfQueued \in {Paced, TRUE} :
        LET due == hasNewAck /\ (onlyIfQueued => ackQueued \/ ackAlarm) IN
        /\ ackPkts' = ackPkts \cup {ackFrame(due)}
        /\ hasNewAck' = (hasNewAck /\ ~due)
        /\ ackQueued' = (ackQueued /\ ~due)
        /\ ackAlarm' = (ackAlarm /\ ~due)
        /\ UNCHANGED <<sndSide, ranges, deletedBelow, ignoreBelow, rcvdECT0, rcvdCE, lowestNotConfirmedAcked, handled>>
    BY Zenon DEF SendAck
<1> DEFINE due == hasNewAck /\ (onlyIfQueued => ackQueued \/ ackAlarm)
           f == ackFrame(due)
           n == Cardinality(ackPkts)
<1>2. /\ ackPkts' = ackPkts \cup {f} /\ dataPkts' = dataPkts /\ ackPNsSeen' = ackPNsSeen
      /\ UNCHANGED <<ranges, deletedBelow, ignoreBelow, lowestNotConfirmedAcked, handled>>
    BY <1>1 DEF sndSide
<1>3. n \in Nat /\ IsFiniteSet(ackPkts) /\ Cardinality(dataPkts) \in Nat
    BY FS_CardinalityType DEF AckInv, AckType
<1>4. /\ f.pn = n /\ f \in [pn: Nat, acks: SUBSET Nat, ect0: Nat, ce: Nat]
      /\ \A x \in f.acks : x < Cardinality(dataPkts)
  <2>1. \A x \in ackedBy(ranges) : x \in Nat /\ x < Cardinality(dataPkts)
    <3> TAKE x \in ackedBy(ranges)
    <3>1. ranges \in Seq(Nat \X Nat)
        BY DEF AckInv, AckType, Sorted
    <3>2. x \in Nat /\ InRanges(ranges, x)
        BY <3>1, AckedByRanges
    <3>3. PICK h \in handled : h[1] = x
        BY <3>2 DEF AckInv, RangesInv
    <3> QED
        BY <3>2, <3>3 DEF AckInv, SeenInv
  <2>2. ackedBy(ranges) \in SUBSET Nat /\ rcvdECT0 \in Nat /\ rcvdCE \in Nat
      BY <2>1 DEF AckInv, AckType
  <2> HIDE DEF due
  <2>3. CASE due
    <3>1. f = [pn |-> n, acks |-> ackedBy(ranges), ect0 |-> rcvdECT0, ce |-> rcvdCE]
        BY <2>3 DEF ackFrame
    <3> HIDE DEF f, n
    <3> QED
        BY <1>3, <2>1, <2>2, <3>1
  <2>4. CASE ~due
    <3>1. f = [pn |-> n, acks |-> {}, ect0 |-> 0, ce |-> 0]
        BY <2>4 DEF ackFrame
    <3> HIDE DEF f, n
    <3> QED
        BY <1>3, <3>1
  <2> QED
      BY <2>3, <2>4
<1>5. hasNewAck' => (ackQueued' \/ ackAlarm') /\ ranges # <<>>
  <2>1. hasNewAck' = (hasNewAck /\ ~due) /\ ackQueued' = (ackQueued /\ ~due) /\ ackAlarm' = (ackAlarm /\ ~due)
      BY <1>1
  <2>2. hasNewAck => (ackQueued \/ ackAlarm) /\ ranges # <<>>
      BY DEF AckInv, AckIsScheduled
  <2> HIDE DEF due
  <2> QED
      BY <2>1, <2>2, Zenon
<1> HIDE DEF f, due
<1>6. f \notin ackPkts
    BY <1>3, <1>4 DEF AckInv, SeenInv
<1>7. Cardinality(ackPkts') = n + 1 /\ IsFiniteSet(ackPkts')
    BY <1>2, <1>3, <1>6, FS_AddElement
<1> HIDE DEF n
<1>8. AckType'
  <2>1. rcvdECT0' = rcvdECT0 /\ rcvdCE' = rcvdCE
      BY <1>1
  <2> QED
      BY <1>2, <1>4, <1>7, <2>1 DEF AckInv, AckType
<1>9. SeenInv'
  <2>1. \A m \in ackPNsSeen : m \in Nat /\ m < n
      BY DEF AckInv, SeenInv, AckType, n
  <2>2. \A m \in ackPNsSeen : m < n + 1
      BY <1>3, <2>1
  <2>3. \A a \in ackPkts : a.pn \in Nat /\ a.pn < n /\ \A x \in a.acks : x < Cardinality(dataPkts)
      BY DEF AckInv, SeenInv, AckType, n
  <2>4. \A a \in ackPkts' : a.pn < n + 1 /\ \A x \in a.acks : x < Cardinality(dataPkts)
      BY <1>2, <1>3, <1>4, <2>3
  <2>5. \A p \in dataPkts : n \notin p.acks
      BY <1>3, <2>1 DEF AckInv, SeenInv
  <2>6. \A p \in dataPkts : \A a \in ackPkts' : a.pn \in p.acks => \A x \in a.acks : x < p.pn
      BY <1>2, <1>4, <2>5 DEF AckInv, SeenInv
  <2> QED
      BY <1>2, <1>7, <2>2, <2>4, <2>6 DEF AckInv, SeenInv
<1>10. AckIsScheduled'
    BY <1>2, <1>5 DEF AckIsScheduled
<1> QED
    BY <1>2, <1>8, <1>9, <1>10 DEF AckInv, RangesInv, InRanges, Remembered

\* The sender's other steps.
LEMMA SenderInv ==
    ASSUME AckInv, ReceiveAck \/ DeclareLost
    PROVE  AckInv' /\ (Remembered => Remembered')
<1>1. /\ ackPNsSeen \subseteq ackPNsSeen' /\ \A m \in ackPNsSeen' : m \in Nat /\ m < Cardinality(ackPkts)
      /\ UNCHANGED <<dataPkts, ackPkts, rcvSide>>
  <2>1. \A m \in ackPNsSeen : m \in Nat /\ m < Cardinality(ackPkts)
      BY DEF AckInv, AckType, SeenInv
  <2>2. CASE DeclareLost
      BY <2>1, <2>2 DEF DeclareLost
  <2>3. CASE ReceiveAck
    <3>1. PICK a \in ackPkts : ackPNsSeen' = ackPNsSeen \cup {a.pn} /\ UNCHANGED <<dataPkts, ackPkts, rcvSide>>
        BY <2>3 DEF ReceiveAck
    <3>2. a.pn \in Nat /\ a.pn < Cardinality(ackPkts)
        BY DEF AckInv, AckType, SeenInv
    <3> QED
        BY <2>1, <3>1, <3>2
  <2> QED
      BY <2>2, <2>3
<1>2. AckType'
    BY <1>1 DEF AckInv, AckType, rcvSide
<1>3. SeenInv'
    BY <1>1 DEF AckInv, SeenInv, rcvSide
<1> QED
    BY <1>1, <1>2, <1>3 DEF AckInv, RangesInv, InRanges, AckIsScheduled, Remembered, rcvSide

LEMMA AckNextInv ==
    ASSUME AckInv, [AckNext]_axVars
    PROVE  AckInv' /\ (Remembered /\ Len(ranges) < MaxNumAckRanges => Remembered')
<1>1. CASE SendData
    BY <1>1, SendDataInv
<1>2. CASE ReceiveAck \/ DeclareLost
    BY <1>2, SenderInv
<1>3. CASE ReceiveData
    BY <1>3, ReceiveDataInv
<1>4. CASE SendAck
    BY <1>4, SendAckInv
<1>5. CASE UNCHANGED axVars
    BY <1>5 DEF axVars, sndSide, rcvSide, AckInv, AckType, SeenInv, RangesInv, InRanges, AckIsScheduled, Remembered, Sorted
<1> QED
    BY <1>1, <1>2, <1>3, <1>4, <1>5 DEF AckNext

(* What was received and not reported will be: while the tracker has news, *)
(* an ACK is queued or the ACK timer runs, and the frame GetAckFrame will  *)
(* build is not empty, though an ACK of an earlier frame may have cut the  *)
(* ranges with IgnoreBelow in between (received_packet_tracker.go).        *)
THEOREM AcksAreScheduled == AckSpec => []AckIsScheduled
<1>1. AckInv => AckIsScheduled
    BY DEF AckInv
<1> QED
    BY <1>1, AckInitInv, AckNextInv, PTL DEF AckSpec

\* What is handed to ReceivedPacket is new to the history; an ACK frame covers only packets handled.
HistoryIsConsistent ==
    /\ \A p \in 0 .. MaxDataPN : IsPotentiallyDuplicate(p) <=> ~(p >= deletedBelow /\ addToRanges(ranges, p).new)
    /\ ackedBy(ranges) \subseteq {h[1] : h \in handled}

LEMMA Consistent == ASSUME AckInv PROVE HistoryIsConsistent
<1>1. Sorted(ranges) /\ ranges \in Seq(Nat \X Nat)
    BY DEF AckInv, AckType, Sorted
<1>2. ASSUME NEW p \in 0 .. MaxDataPN
      PROVE  IsPotentiallyDuplicate(p) <=> ~(p >= deletedBelow /\ addToRanges(ranges, p).new)
  <2>1. p \in Nat /\ deletedBelow \in Nat
      BY AckAssumption DEF AckInv, AckType
  <2>2. addToRanges(ranges, p).new <=> ~InRanges(ranges, p)
      BY <1>1, <2>1, AddToRanges
  <2>3. IsPotentiallyDuplicate(p) <=> p < deletedBelow \/ InRanges(ranges, p)
      BY <1>1, <2>1, DuplicateFacts
  <2> QED
      BY <2>1, <2>2, <2>3
<1>3. ASSUME NEW x \in ackedBy(ranges) PROVE x \in {h[1] : h \in handled}
  <2>1. x \in Nat /\ InRanges(ranges, x)
      BY <1>1, AckedByRanges
  <2> QED
      BY <2>1 DEF AckInv, RangesInv
<1> QED
    BY <1>2, <1>3 DEF HistoryIsConsistent

(* received_packet_history.go: a packet that is not taken for a duplicate  *)
(* is new to the history, so that the connection is never closed with      *)
(* "BUG: ReceivedPacket called for old / duplicate packet", and only       *)
(* packets whose frames were handled are acknowledged.  This holds also    *)
(* once maybeDeleteOldRanges has dropped ranges.                           *)
THEOREM AcksAreTrue == AckSpec => []HistoryIsConsistent
<1> QED
    BY Consistent, AckInitInv, AckNextInv, PTL DEF AckSpec

\* There is room for one more range: maybeDeleteOldRanges drops none.
FewRanges == Len(ranges) < MaxNumAckRanges

(* received_packet_history.go: a packet whose frames were handled is       *)
(* recognised when it arrives again, whatever ranges were extended, joined *)
(* or cut by IgnoreBelow since, as long as maybeDeleteOldRanges never has  *)
(* to drop a range: it does not raise deletedBelow, and so forgets that    *)
(* the packets of the range were handled.                                  *)
THEOREM PacketsAreHandledOnce == AckSpec /\ []FewRanges => []DuplicatesAreRecognised
<1>1. AckInv /\ Remembered => DuplicatesAreRecognised
  <2> SUFFICES ASSUME AckInv, Remembered PROVE DuplicatesAreRecognised
      OBVIOUS
  <2>1. Sorted(ranges) /\ ranges \in Seq(Nat \X Nat) /\ handled \subseteq Nat \X {"ECT0", "CE", "Non"}
      BY DEF AckInv, AckType, Sorted
  <2>2. \A h \in handled : IsPotentiallyDuplicate(h[1])
    <3> TAKE h \in handled
    <3>1. h[1] \in Nat /\ (h[1] < deletedBelow \/ InRanges(ranges, h[1]))
        BY <2>1 DEF Remembered
    <3> QED
        BY <2>1, <3>1, DuplicateFacts
  <2> QED
      BY <2>2, Consistent, Zenon DEF DuplicatesAreRecognised, HistoryIsConsistent
<1>2. AckInv /\ Remembered /\ FewRanges /\ [AckNext]_axVars => (AckInv /\ Remembered)'
    BY AckNextInv DEF FewRanges
<1> QED
    BY <1>1, <1>2, AckInitInv, PTL DEF AckSpec
=============================================================================
