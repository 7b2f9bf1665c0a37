------------------------ MODULE SendingLimitsProofs ------------------------
(***************************************************************************)
(* Proofs about what limits a sender.  Two peers keep each other's flow    *)
(* control windows, for any streams, any amount of data and any window     *)
(* sizes; the search for the path's MTU ends where it should; the pacing   *)
(* timer fires when there is budget for a packet; and what the packer puts *)
(* into a packet fits, with the symbols and headers that FEC adds.         *)
(***************************************************************************)
EXTENDS FlowControl, PathMTU, PacketPacker, FiniteSetTheorems, SequenceTheorems, WellFoundedInduction, TLAPS

-----------------------------------------------------------------------------
(* Flow control (internal/flowcontrol).                                    *)
\* Sizes are numbers of bytes, and a frame for the connection is not one for a
\* stream.  Nothing is assumed of the order of initial and largest windows: a
\* Config may set them to anything.
Sizes ==
    /\ Total \in Nat /\ StreamWindow \in Nat /\ MaxStreamWindow \in Nat
    /\ ConnWindow \in Nat /\ MaxConnWindow \in Nat
    /\ "conn" \notin Streams

Controllers ==
    [read : Nat, highest : Nat, window : Nat, size : Nat, epoch : Nat, final : BOOLEAN]
Reading == [pc : {"idle", "queueStream", "conn", "queueConn"}, n : Nat]

\* The type of every variable.
TypeOK ==
    /\ bytesSent \in [Streams -> Nat] /\ maxData \in [Streams -> Nat]
    /\ connBytesSent \in Nat /\ connMaxData \in Nat
    /\ path \in SUBSET [stream : Streams, offset : Nat, final : BOOLEAN]
    /\ updates \in SUBSET [stream : Streams \cup {"conn"}, limit : Nat]
    /\ rcv \in [Streams -> Controllers] /\ conn \in Controllers
    /\ queue \in SUBSET Streams /\ queuedConn \in BOOLEAN
    /\ readers \in [Streams -> Reading]

\* The sender has a window that the receiver has given it, or a smaller one,
\* and so has every update on its way.
SenderInv ==
    /\ connBytesSent <= connMaxData /\ connMaxData <= conn.window
    /\ \A s \in Streams : bytesSent[s] <= maxData[s] /\ maxData[s] <= rcv[s].window
    /\ \A u \in updates :
          u.limit <= (IF u.stream = "conn" THEN conn.window ELSE rcv[u.stream].window)

\* What was received was sent.
ReceiverInv ==
    /\ \A s \in Streams : rcv[s].highest <= bytesSent[s]
    /\ \A f \in path : f.offset <= bytesSent[f.stream]

\* A window ends no further than its size beyond what was read.
WindowInv ==
    /\ conn.window <= conn.read + conn.size
    /\ conn.size <= Larger(ConnWindow, MaxConnWindow)
    /\ \A s \in Streams : rcv[s].window <= rcv[s].read + rcv[s].size

highestOf(c) == [s \in Streams |-> c[s].highest]

\* The connection counts the bytes of all streams.
CountInv ==
    /\ IsFiniteSet(Bytes(bytesSent)) /\ connBytesSent = Cardinality(Bytes(bytesSent))
    /\ conn.highest = Cardinality(Bytes(highestOf(rcv)))

IInv == TypeOK /\ SenderInv /\ ReceiverInv /\ WindowInv /\ CountInv

-----------------------------------------------------------------------------
\* k more bytes on a stream are k more bytes.
LEMMA BytesGrow ==
    ASSUME NEW n \in [Streams -> Nat], NEW s \in Streams, NEW k \in Nat, IsFiniteSet(Bytes(n)),
           NEW m \in [Streams -> Nat], m[s] = n[s] + k, \A t \in Streams : t # s => m[t] = n[t]
    PROVE  IsFiniteSet(Bytes(m)) /\ Cardinality(Bytes(m)) = Cardinality(Bytes(n)) + k
<1> DEFINE more == (n[s] + 1) .. (n[s] + k)
           new == {s} \X more
<1>1. IsFiniteSet(more) /\ Cardinality(more) = k
  <2> n[s] \in Nat
      OBVIOUS
  <2>1. n[s] + 1 \in Int /\ n[s] + k \in Int
      OBVIOUS
  <2>2. Cardinality(more) = IF n[s] + 1 > n[s] + k THEN 0 ELSE (n[s] + k) - (n[s] + 1) + 1
      BY <2>1, FS_Interval
  <2>3. IsFiniteSet(more)
      BY <2>1, FS_Interval
  <2> HIDE DEF more
  <2>4. Cardinality(more) = k
      BY <2>2
  <2> QED
      BY <2>3, <2>4
<1>2. IsFiniteSet({s}) /\ Cardinality({s}) = 1
    BY FS_Singleton
<1>3. IsFiniteSet(new) /\ Cardinality(new) = k
  <2> HIDE DEF more
  <2>1. IsFiniteSet(new) /\ Cardinality(new) = 1 * k
      BY <1>1, <1>2, FS_Product
  <2> QED
      BY <2>1
<1>4. Bytes(m) = Bytes(n) \cup new
  <2>1. \A t \in Streams, i \in Nat : <<t, i>> \in {t} \X (1 .. m[t]) <=>
           <<t, i>> \in {t} \X (1 .. n[t]) \/ <<t, i>> \in new
      OBVIOUS
  <2>2. Bytes(m) \subseteq Bytes(n) \cup new
      BY DEF Bytes
  <2>3. Bytes(n) \cup new \subseteq Bytes(m)
      BY DEF Bytes
  <2> QED
      BY <2>2, <2>3
<1>5. Bytes(n) \cap new = {}
  <2>1. ASSUME NEW t \in Streams, NEW i \in 1 .. n[t], <<t, i>> \in new PROVE FALSE
      BY <2>1
  <2> HIDE DEF new
  <2>2. \A b \in Bytes(n) : \E t \in Streams : \E i \in 1 .. n[t] : b = <<t, i>>
      BY DEF Bytes
  <2> QED
      BY <2>1, <2>2
<1>6. Cardinality(Bytes(n)) \in Nat
    BY FS_CardinalityType
<1> HIDE DEF new
<1>7. /\ IsFiniteSet(Bytes(n) \cup new)
      /\ Cardinality(Bytes(n) \cup new)
           = Cardinality(Bytes(n)) + Cardinality(new) - Cardinality(Bytes(n) \cap new)
    BY <1>3, FS_Union
<1>8. Cardinality(Bytes(n) \cap new) = 0
    BY <1>5, FS_EmptySet
<1>9. IsFiniteSet(Bytes(m)) /\ Cardinality(Bytes(m)) = Cardinality(Bytes(n) \cup new)
    BY <1>4, <1>7
<1> QED
    BY <1>3, <1>6, <1>7, <1>8, <1>9

\* Fewer bytes on every stream are no more bytes.
LEMMA BytesMonotone ==
    ASSUME NEW n \in [Streams -> Nat], NEW m \in [Streams -> Nat],
           \A s \in Streams : n[s] <= m[s], IsFiniteSet(Bytes(m))
    PROVE  IsFiniteSet(Bytes(n)) /\ Cardinality(Bytes(n)) <= Cardinality(Bytes(m))
<1>1. Bytes(n) \subseteq Bytes(m)
    BY DEF Bytes
<1> QED
    BY <1>1, FS_Subset

\* getWindowUpdate moves the window forward, and no further than it may.
LEMMA UpdateMovesForward ==
    ASSUME NEW c \in Controllers, c.window <= c.read + c.size, NEW max \in Nat, NEW pace \in Paces,
           NEW d, d = getWindowUpdate(c, max, pace)
    PROVE  /\ d \in Controllers
           /\ d.read = c.read /\ d.highest = c.highest /\ d.final = c.final
           /\ c.window <= d.window /\ d.window <= d.read + d.size
           /\ c.size <= d.size /\ d.size <= Larger(c.size, max)
<1> DEFINE a == maybeAdjustWindowSize(c, max, pace)
<1>1. c.read \in Nat /\ c.size \in Nat /\ c.window \in Nat
    BY DEF Controllers
<1>2. /\ a \in Controllers
      /\ a.read = c.read /\ a.highest = c.highest /\ a.final = c.final /\ a.window = c.window
      /\ c.size <= a.size /\ a.size <= Larger(c.size, max)
  <2>1. CASE c.read - c.epoch <= c.size \div 2 \/ pace = "unknown"
      BY <1>1, <2>1 DEF maybeAdjustWindowSize, Larger
  <2>2. CASE ~(c.read - c.epoch <= c.size \div 2 \/ pace = "unknown")
    <3> DEFINE size == IF pace = "fast" THEN Larger(c.size, Lesser(2 * c.size, max)) ELSE c.size
    <3>1. a = [c EXCEPT !.size = size, !.epoch = c.read]
        BY <2>2 DEF maybeAdjustWindowSize, Controllers
    <3>2. size \in Nat /\ c.size <= size /\ size <= Larger(c.size, max)
        BY <1>1 DEF Larger, Lesser
    <3> HIDE DEF size, a
    <3> QED
        BY <1>1, <3>1, <3>2 DEF Controllers
  <2> QED
      BY <2>1, <2>2
<1>3. CASE hasWindowUpdate(c)
  <2>1. d = [a EXCEPT !.window = a.read + a.size]
      BY <1>3 DEF getWindowUpdate, windowAfter
  <2> HIDE DEF a
  <2>2. d \in Controllers
      BY <1>2, <2>1 DEF Controllers
  <2>3. /\ d.read = a.read /\ d.highest = a.highest /\ d.final = a.final
        /\ d.size = a.size /\ d.window = a.read + a.size
      BY <1>2, <2>1 DEF Controllers
  <2>4. a.size \in Nat
      BY <1>2 DEF Controllers
  <2> QED
      BY <1>1, <1>2, <2>2, <2>3, <2>4
<1>4. CASE ~hasWindowUpdate(c)
    BY <1>1, <1>4 DEF getWindowUpdate, Larger
<1> QED
    BY <1>3, <1>4

\* EnsureMinimumWindowSize lets the window grow, and nothing else.
LEMMA MinimumGrows ==
    ASSUME Sizes, NEW c \in Controllers, NEW min \in Nat, NEW allow \in BOOLEAN,
           c.size <= Larger(ConnWindow, MaxConnWindow),
           NEW d, d = EnsureMinimumWindowSize(c, min, allow)
    PROVE  /\ d \in Controllers
           /\ d.read = c.read /\ d.highest = c.highest /\ d.window = c.window
           /\ c.size <= d.size /\ d.size <= Larger(ConnWindow, MaxConnWindow)
<1>1. c.read \in Nat /\ c.size \in Nat
    BY DEF Controllers
<1>2. CASE min <= c.size
    BY <1>1, <1>2 DEF EnsureMinimumWindowSize
<1>3. CASE ~(min <= c.size)
  <2> DEFINE size == IF allow THEN Larger(c.size, Lesser(min, MaxConnWindow)) ELSE c.size
  <2>1. d = [c EXCEPT !.size = size, !.epoch = c.read]
      BY <1>3 DEF EnsureMinimumWindowSize, Controllers
  <2>2. size \in Nat /\ c.size <= size /\ size <= Larger(ConnWindow, MaxConnWindow)
      BY <1>1 DEF Larger, Lesser, Sizes
  <2> HIDE DEF size
  <2> QED
      BY <1>1, <2>1, <2>2 DEF Controllers
<1> QED
    BY <1>2, <1>3

-----------------------------------------------------------------------------
\* A new connection has sent and read nothing.
LEMMA InitInv ==
    ASSUME Sizes, FlowInit PROVE IInv
<1>1. newController(StreamWindow) \in Controllers /\ newController(ConnWindow) \in Controllers
    BY DEF Sizes, newController, Controllers
<1>2. notReading \in Reading
    BY DEF notReading, Reading
<1>3. TypeOK
  <2>1. rcv \in [Streams -> Controllers] /\ conn \in Controllers /\ readers \in [Streams -> Reading]
      BY <1>1, <1>2 DEF FlowInit
  <2>2. queuedConn \in BOOLEAN
      BY Zenon DEF FlowInit
  <2>3. path \in SUBSET [stream : Streams, offset : Nat, final : BOOLEAN] /\ queue \in SUBSET Streams
        /\ updates \in SUBSET [stream : Streams \cup {"conn"}, limit : Nat]
      BY Zenon DEF FlowInit
  <2>4. /\ bytesSent \in [Streams -> Nat] /\ maxData \in [Streams -> Nat]
        /\ connBytesSent \in Nat /\ connMaxData \in Nat
      BY DEF FlowInit, Sizes
  <2> QED
      BY <2>1, <2>2, <2>3, <2>4 DEF TypeOK
<1>4. SenderInv /\ ReceiverInv
    BY DEF FlowInit, Sizes, newController, SenderInv, ReceiverInv
<1>5. WindowInv
    BY DEF FlowInit, Sizes, newController, WindowInv, Larger
<1>6. CountInv
  <2>1. \A n : (n = [s \in Streams |-> 0]) => Bytes(n) = {}
      BY DEF Bytes
  <2>2. bytesSent = [s \in Streams |-> 0] /\ highestOf(rcv) = [s \in Streams |-> 0]
      BY DEF FlowInit, highestOf, newController
  <2>3. Bytes(bytesSent) = {} /\ Bytes(highestOf(rcv)) = {}
      BY <2>1, <2>2
  <2>4. connBytesSent = 0 /\ conn.highest = 0
      BY DEF FlowInit, newController
  <2> QED
      BY <2>3, <2>4, FS_EmptySet DEF CountInv
<1> QED
    BY <1>3, <1>4, <1>5, <1>6 DEF IInv

\* What popStreamFrame sends fits into both windows, and is counted once.
LEMMA AddBytesSentInv ==
    ASSUME Sizes, IInv, NEW s \in Streams, NEW n \in 1 .. Total, AddBytesSent(s, n)
    PROVE  IInv'
<1> DEFINE f == [stream |-> s, offset |-> bytesSent[s] + n, final |-> bytesSent[s] + n = Total]
<1>1. n \in Nat /\ bytesSent \in [Streams -> Nat] /\ maxData \in [Streams -> Nat]
      /\ connBytesSent \in Nat /\ connMaxData \in Nat
    BY DEF Sizes, IInv, TypeOK
<1>2. UNCHANGED <<maxData, connMaxData, updates, rcv, conn, queue, queuedConn, readers>>
    BY DEF AddBytesSent
<1>3. bytesSent' = [bytesSent EXCEPT ![s] = @ + n] /\ connBytesSent' = connBytesSent + n
      /\ path' = path \cup {f}
    BY DEF AddBytesSent
<1>4. n <= maxData[s] - bytesSent[s] /\ n <= connMaxData - connBytesSent
    BY <1>1 DEF AddBytesSent, SendWindowSize, Lesser
<1>5. f \in [stream : Streams, offset : Nat, final : BOOLEAN]
    BY <1>1
<1>6. TypeOK'
  <2>1. bytesSent' \in [Streams -> Nat] /\ connBytesSent' \in Nat
      BY <1>1, <1>3
  <2>2. path' \in SUBSET [stream : Streams, offset : Nat, final : BOOLEAN]
    <3> HIDE DEF f
    <3> QED
      BY <1>3, <1>5 DEF IInv, TypeOK
  <2> QED
      BY <1>2, <2>1, <2>2 DEF IInv, TypeOK
<1>7. SenderInv'
    BY <1>1, <1>2, <1>3, <1>4 DEF IInv, SenderInv
<1>8. ReceiverInv'
  <2>1. \A t \in Streams : bytesSent[t] <= bytesSent'[t]
      BY <1>1, <1>3
  <2>2. f.offset <= bytesSent'[f.stream]
      BY <1>1, <1>3
  <2>3. ASSUME NEW g \in path PROVE g.offset <= bytesSent'[g.stream]
    <3>1. g.stream \in Streams /\ g.offset \in Nat /\ bytesSent[g.stream] \in Nat /\ bytesSent'[g.stream] \in Nat
        BY <1>1, <1>6 DEF IInv, TypeOK
    <3> QED
        BY <3>1, <2>1 DEF IInv, ReceiverInv
  <2>4. ASSUME NEW t \in Streams PROVE rcv'[t].highest <= bytesSent'[t]
    <3>1. rcv[t].highest \in Nat /\ bytesSent[t] \in Nat /\ bytesSent'[t] \in Nat
        BY <1>1, <1>6 DEF IInv, TypeOK, Controllers
    <3> QED
        BY <3>1, <2>1, <1>2 DEF IInv, ReceiverInv
  <2> HIDE DEF f
  <2> QED
      BY <1>3, <2>2, <2>3, <2>4 DEF ReceiverInv
<1>9. WindowInv'
    BY <1>2 DEF IInv, WindowInv
<1>10. CountInv'
  <2>1. IsFiniteSet(Bytes(bytesSent)) /\ connBytesSent = Cardinality(Bytes(bytesSent))
      BY DEF IInv, CountInv
  <2>2. IsFiniteSet(Bytes(bytesSent')) /\ Cardinality(Bytes(bytesSent')) = Cardinality(Bytes(bytesSent)) + n
    <3>1. /\ bytesSent' \in [Streams -> Nat] /\ bytesSent'[s] = bytesSent[s] + n
          /\ \A t \in Streams : t # s => bytesSent'[t] = bytesSent[t]
        BY <1>1, <1>3
    <3> QED
        BY <1>1, <2>1, <3>1, BytesGrow
  <2>3. highestOf(rcv)' = highestOf(rcv)
      BY <1>2 DEF highestOf
  <2> QED
      BY <1>2, <1>3, <2>1, <2>2, <2>3 DEF IInv, CountInv, Bytes, highestOf
<1> QED
    BY <1>6, <1>7, <1>8, <1>9, <1>10 DEF IInv

\* An update raises the sender's window to one the receiver has announced.
LEMMA UpdateSendWindowInv ==
    ASSUME Sizes, IInv, NEW u \in updates, UpdateSendWindow(u)
    PROVE  IInv'
<1>1. u.limit \in Nat /\ u.stream \in Streams \cup {"conn"}
    BY DEF IInv, TypeOK
<1>2. UNCHANGED <<bytesSent, connBytesSent, path, updates, rcv, conn, queue, queuedConn, readers>>
    BY DEF UpdateSendWindow
<1>3. /\ bytesSent \in [Streams -> Nat] /\ maxData \in [Streams -> Nat]
      /\ connBytesSent \in Nat /\ connMaxData \in Nat
    BY DEF IInv, TypeOK
<1>4. TypeOK' /\ SenderInv'
  <2>1. CASE u.stream = "conn"
    <3>1. u.limit > connMaxData /\ connMaxData' = u.limit /\ maxData' = maxData
        BY <2>1 DEF UpdateSendWindow
    <3> QED
        BY <1>1, <1>2, <1>3, <2>1, <3>1 DEF IInv, TypeOK, SenderInv
  <2>2. CASE u.stream # "conn"
    <3>1. /\ u.limit > maxData[u.stream] /\ maxData' = [maxData EXCEPT ![u.stream] = u.limit]
          /\ connMaxData' = connMaxData
        BY <2>2 DEF UpdateSendWindow
    <3>2. u.stream \in Streams /\ u.limit <= rcv[u.stream].window
        BY <1>1, <2>2 DEF IInv, SenderInv
    <3>3. TypeOK'
        BY <1>1, <1>2, <1>3, <3>1, <3>2 DEF IInv, TypeOK
    <3> QED
        BY <1>1, <1>2, <1>3, <3>1, <3>2, <3>3 DEF IInv, SenderInv
  <2> QED
      BY <2>1, <2>2
<1>5. ReceiverInv' /\ WindowInv'
    BY <1>2 DEF IInv, ReceiverInv, WindowInv
<1>6. CountInv'
    BY <1>2 DEF IInv, CountInv, Bytes, highestOf
<1> QED
    BY <1>4, <1>5, <1>6 DEF IInv

\* The connection and the stream count a frame's new bytes.
LEMMA UpdateHighestReceivedInv ==
    ASSUME Sizes, IInv, NEW f \in path, UpdateHighestReceived(f)
    PROVE  IInv'
<1> DEFINE s == f.stream
           c == rcv[s]
           increment == IF f.offset > c.highest THEN f.offset - c.highest ELSE 0
           d == [c EXCEPT !.highest = @ + increment, !.final = @ \/ f.final]
<1>1. s \in Streams /\ f.offset \in Nat /\ f.final \in BOOLEAN /\ c \in Controllers /\ conn \in Controllers
    BY DEF IInv, TypeOK
<1>2. UNCHANGED <<bytesSent, maxData, connBytesSent, connMaxData, updates, queue, queuedConn, readers>>
    BY DEF UpdateHighestReceived
<1>3. path' = path \ {f} /\ conn' = [conn EXCEPT !.highest = @ + increment]
    BY DEF UpdateHighestReceived
<1>4. rcv' = [rcv EXCEPT ![s] = d]
    BY DEF UpdateHighestReceived
<1>5. c.highest \in Nat /\ increment \in Nat
    BY <1>1 DEF Controllers
<1>6. c.highest + increment <= bytesSent[s]
  <2>1. f.offset <= bytesSent[s] /\ c.highest <= bytesSent[s]
      BY <1>1 DEF IInv, ReceiverInv
  <2>2. bytesSent[s] \in Nat
      BY <1>1 DEF IInv, TypeOK
  <2> QED
      BY <1>1, <1>5, <2>1, <2>2
<1> HIDE DEF increment
<1>7. /\ d \in Controllers /\ d.highest = c.highest + increment
      /\ d.read = c.read /\ d.window = c.window /\ d.size = c.size
  <2>1. c.final \in BOOLEAN
      BY <1>1 DEF Controllers
  <2>2. (c.final \/ f.final) \in BOOLEAN
      OBVIOUS
  <2> DEFINE e == [c EXCEPT !.highest = @ + increment]
             final == c.final \/ f.final
  <2>3. /\ e \in Controllers /\ e.highest = c.highest + increment
        /\ e.read = c.read /\ e.window = c.window /\ e.size = c.size
      BY <1>1, <1>5 DEF Controllers
  <2>4. d = [e EXCEPT !.final = final]
      BY <1>1 DEF Controllers
  <2> HIDE DEF e, d, final
  <2>5. final \in BOOLEAN
      BY <2>2 DEF final
  <2> QED
      BY <2>3, <2>4, <2>5 DEF Controllers
<1>8. /\ conn' \in Controllers /\ conn'.highest = conn.highest + increment
      /\ conn'.read = conn.read /\ conn'.window = conn.window /\ conn'.size = conn.size
    BY <1>1, <1>3, <1>5 DEF Controllers
<1> HIDE DEF c, d
<1>9. /\ rcv'[s] = d /\ rcv' \in [Streams -> Controllers]
      /\ \A t \in Streams : t # s => rcv'[t] = rcv[t]
    BY <1>1, <1>4, <1>7 DEF IInv, TypeOK
<1>10. \A t \in Streams : rcv'[t].read = rcv[t].read /\ rcv'[t].window = rcv[t].window
                          /\ rcv'[t].size = rcv[t].size
    BY <1>7, <1>9 DEF c
<1>11. TypeOK'
    BY <1>2, <1>3, <1>8, <1>9 DEF IInv, TypeOK
<1>12. SenderInv'
  <2>1. ASSUME NEW u \in updates, u.stream # "conn"
        PROVE  u.stream \in Streams /\ u.limit <= rcv'[u.stream].window
      BY <1>10, <2>1 DEF IInv, TypeOK, SenderInv
  <2> QED
      BY <1>2, <1>8, <1>10, <2>1 DEF IInv, SenderInv
<1>13. ReceiverInv'
    BY <1>2, <1>3, <1>6, <1>7, <1>9 DEF IInv, ReceiverInv
<1>14. WindowInv'
    BY <1>8, <1>10 DEF IInv, WindowInv
<1>15. CountInv'
  <2>1. highestOf(rcv) \in [Streams -> Nat]
      BY DEF IInv, TypeOK, Controllers, highestOf
  <2>2. IsFiniteSet(Bytes(highestOf(rcv)))
    <3>1. \A t \in Streams : highestOf(rcv)[t] <= bytesSent[t]
        BY DEF IInv, ReceiverInv, highestOf
    <3>2. bytesSent \in [Streams -> Nat] /\ IsFiniteSet(Bytes(bytesSent))
        BY DEF IInv, TypeOK, CountInv
    <3> QED
        BY <2>1, <3>1, <3>2, BytesMonotone
  <2>3. /\ highestOf(rcv') \in [Streams -> Nat] /\ highestOf(rcv')[s] = highestOf(rcv)[s] + increment
        /\ \A t \in Streams : t # s => highestOf(rcv')[t] = highestOf(rcv)[t]
      BY <1>1, <1>7, <1>9 DEF highestOf, c, Controllers
  <2>4. Cardinality(Bytes(highestOf(rcv'))) = Cardinality(Bytes(highestOf(rcv))) + increment
      BY <1>1, <1>5, <2>1, <2>2, <2>3, BytesGrow
  <2>5. conn'.highest = Cardinality(Bytes(highestOf(rcv')))
      BY <1>8, <2>4 DEF IInv, CountInv
  <2> QED
      BY <1>2, <2>5 DEF IInv, CountInv, Bytes
<1> QED
    BY <1>11, <1>12, <1>13, <1>14, <1>15 DEF IInv

\* What a reader changes: how far a stream or the connection is read.
LEMMA ReadInv ==
    ASSUME Sizes, IInv,
           UNCHANGED <<bytesSent, maxData, connBytesSent, connMaxData, path, updates>>,
           queue' \in SUBSET Streams, queuedConn' \in BOOLEAN, readers' \in [Streams -> Reading],
           conn' \in Controllers, conn'.read >= conn.read,
           conn'.highest = conn.highest, conn'.window = conn.window, conn'.size = conn.size,
           rcv' \in [Streams -> Controllers],
           \A t \in Streams : /\ rcv'[t].read >= rcv[t].read /\ rcv'[t].highest = rcv[t].highest
                              /\ rcv'[t].window = rcv[t].window /\ rcv'[t].size = rcv[t].size
    PROVE  IInv'
<1>1. TypeOK'
    BY DEF IInv, TypeOK
<1>2. SenderInv'
  <2>1. ASSUME NEW u \in updates, u.stream # "conn"
        PROVE  u.stream \in Streams /\ u.limit <= rcv'[u.stream].window
      BY <2>1 DEF IInv, TypeOK, SenderInv
  <2>2. conn'.window = conn.window /\ \A t \in Streams : rcv'[t].window = rcv[t].window
      OBVIOUS
  <2> QED
      BY <2>1, <2>2 DEF IInv, SenderInv
<1>3. ReceiverInv'
    BY DEF IInv, ReceiverInv
<1>4. WindowInv'
  <2>1. conn.read \in Nat /\ conn'.read \in Nat /\ conn.size \in Nat /\ conn.window \in Nat
      BY DEF IInv, TypeOK, Controllers
  <2>2. \A t \in Streams : /\ rcv[t].read \in Nat /\ rcv'[t].read \in Nat
                           /\ rcv[t].size \in Nat /\ rcv[t].window \in Nat
      BY DEF IInv, TypeOK, Controllers
  <2> QED
      BY <2>1, <2>2 DEF IInv, WindowInv
<1>5. CountInv'
  <2>1. highestOf(rcv') = highestOf(rcv)
      BY DEF highestOf
  <2>2. conn'.highest = Cardinality(Bytes(highestOf(rcv')))
      BY <2>1 DEF IInv, CountInv
  <2> QED
      BY <2>2 DEF IInv, CountInv, Bytes
<1> QED
    BY <1>1, <1>2, <1>3, <1>4, <1>5 DEF IInv

\* AddBytesRead of a stream moves what is read, and no window.
LEMMA AddBytesReadInv ==
    ASSUME Sizes, IInv, NEW s \in Streams, NEW n \in 1 .. Total, AddBytesRead(s, n)
    PROVE  IInv'
<1> DEFINE next == IF ~rcv[s].final /\ hasWindowUpdate(rcv'[s]) THEN "queueStream" ELSE "conn"
           d == [rcv[s] EXCEPT !.read = @ + n]
<1>1. n \in Nat /\ rcv \in [Streams -> Controllers] /\ rcv[s] \in Controllers /\ conn \in Controllers
    BY DEF Sizes, IInv, TypeOK
<1>2. /\ UNCHANGED <<bytesSent, maxData, connBytesSent, connMaxData, path, updates, conn, queue, queuedConn>>
      /\ rcv' = [rcv EXCEPT ![s] = d] /\ readers' = [readers EXCEPT ![s] = [pc |-> next, n |-> n]]
    BY DEF AddBytesRead, addBytesRead
<1>3. /\ d \in Controllers /\ d.read >= rcv[s].read /\ d.highest = rcv[s].highest
      /\ d.window = rcv[s].window /\ d.size = rcv[s].size
    BY <1>1 DEF Controllers
<1>4. [pc |-> next, n |-> n] \in Reading
    BY <1>1 DEF Reading
<1> HIDE DEF d, next
<1>5. readers' \in [Streams -> Reading] /\ queue' \in SUBSET Streams /\ queuedConn' \in BOOLEAN
    BY <1>2, <1>4 DEF IInv, TypeOK
<1>6. rcv' \in [Streams -> Controllers] /\ rcv'[s] = d /\ \A t \in Streams : t # s => rcv'[t] = rcv[t]
    BY <1>1, <1>2, <1>3
<1>7. \A t \in Streams : /\ rcv'[t].read >= rcv[t].read /\ rcv'[t].highest = rcv[t].highest
                         /\ rcv'[t].window = rcv[t].window /\ rcv'[t].size = rcv[t].size
    BY <1>1, <1>3, <1>6 DEF Controllers
<1>8. conn' \in Controllers /\ conn'.read >= conn.read
    BY <1>1, <1>2 DEF Controllers
<1> QED
    BY <1>2, <1>5, <1>6, <1>7, <1>8, ReadInv

\* Abandon counts what was received as read.
LEMMA AbandonInv ==
    ASSUME Sizes, IInv, NEW s \in Streams, Abandon(s)
    PROVE  IInv'
<1> DEFINE d == [rcv[s] EXCEPT !.read = rcv[s].highest]
           r == [pc |-> "conn", n |-> rcv[s].highest - rcv[s].read]
<1>1. rcv \in [Streams -> Controllers] /\ rcv[s] \in Controllers /\ conn \in Controllers
    BY DEF IInv, TypeOK
<1>2. /\ UNCHANGED <<bytesSent, maxData, connBytesSent, connMaxData, path, updates, conn, queue, queuedConn>>
      /\ rcv' = [rcv EXCEPT ![s] = d] /\ readers' = [readers EXCEPT ![s] = r]
      /\ rcv[s].read < rcv[s].highest
    BY DEF Abandon, unread
<1>3. /\ d \in Controllers /\ d.read >= rcv[s].read /\ d.highest = rcv[s].highest
      /\ d.window = rcv[s].window /\ d.size = rcv[s].size
    BY <1>1, <1>2 DEF Controllers
<1>4. r \in Reading
    BY <1>1, <1>2 DEF Reading, Controllers
<1> HIDE DEF d, r
<1>5. readers' \in [Streams -> Reading] /\ queue' \in SUBSET Streams /\ queuedConn' \in BOOLEAN
    BY <1>2, <1>4 DEF IInv, TypeOK
<1>6. rcv' \in [Streams -> Controllers] /\ rcv'[s] = d /\ \A t \in Streams : t # s => rcv'[t] = rcv[t]
    BY <1>1, <1>2, <1>3
<1>7. \A t \in Streams : /\ rcv'[t].read >= rcv[t].read /\ rcv'[t].highest = rcv[t].highest
                         /\ rcv'[t].window = rcv[t].window /\ rcv'[t].size = rcv[t].size
    BY <1>1, <1>3, <1>6 DEF Controllers
<1>8. conn' \in Controllers /\ conn'.read >= conn.read
    BY <1>1, <1>2 DEF Controllers
<1> QED
    BY <1>2, <1>5, <1>6, <1>7, <1>8, ReadInv

\* The calls after AddBytesRead move what the connection has read.
LEMMA ReaderInv ==
    ASSUME Sizes, IInv, NEW s \in Streams, Reader(s)
    PROVE  IInv'
<1>1. rcv \in [Streams -> Controllers] /\ conn \in Controllers /\ readers \in [Streams -> Reading]
      /\ queue \in SUBSET Streams /\ queuedConn \in BOOLEAN
    BY DEF IInv, TypeOK
<1>2. conn.read \in Nat /\ conn.read >= conn.read /\ \A t \in Streams : rcv[t].read >= rcv[t].read
    BY <1>1 DEF Controllers
<1>3. notReading \in Reading /\ readers[s].n \in Nat
    BY <1>1 DEF notReading, Reading
<1>4. CASE AddStream(s)
  <2>1. queue' = queue \cup {s} /\ readers' = [readers EXCEPT ![s].pc = "conn"]
        /\ UNCHANGED <<bytesSent, maxData, connBytesSent, connMaxData, path, updates, rcv, conn, queuedConn>>
      BY <1>4 DEF AddStream
  <2>2. readers' \in [Streams -> Reading] /\ queue' \in SUBSET Streams
      BY <1>1, <2>1 DEF Reading
  <2> QED
      BY <1>1, <1>2, <2>1, <2>2, ReadInv
<1>5. CASE ConnAddBytesRead(s)
  <2> DEFINE k == readers[s].n
             r == IF hasWindowUpdate(conn') THEN [readers[s] EXCEPT !.pc = "queueConn"] ELSE notReading
  <2>1. conn' = [conn EXCEPT !.read = @ + k] /\ readers' = [readers EXCEPT ![s] = r]
        /\ UNCHANGED <<bytesSent, maxData, connBytesSent, connMaxData, path, updates, rcv, queue, queuedConn>>
      BY <1>5 DEF ConnAddBytesRead, addBytesRead
  <2>2. r \in Reading
      BY <1>1, <1>3 DEF Reading
  <2> HIDE DEF r
  <2>3. readers' \in [Streams -> Reading]
      BY <1>1, <2>1, <2>2
  <2>4. /\ conn' \in Controllers /\ conn'.read >= conn.read
        /\ conn'.highest = conn.highest /\ conn'.window = conn.window /\ conn'.size = conn.size
      BY <1>1, <1>3, <2>1 DEF Controllers
  <2> QED
      BY <1>1, <1>2, <2>1, <2>3, <2>4, ReadInv
<1>6. CASE AddConnection(s)
  <2>1. queuedConn' = TRUE /\ readers' = [readers EXCEPT ![s] = notReading]
        /\ UNCHANGED <<bytesSent, maxData, connBytesSent, connMaxData, path, updates, rcv, conn, queue>>
      BY <1>6 DEF AddConnection
  <2>2. readers' \in [Streams -> Reading]
      BY <1>1, <1>3, <2>1
  <2>3. queuedConn' \in BOOLEAN
      BY <2>1, Zenon
  <2> QED
      BY <1>1, <1>2, <2>1, <2>2, <2>3, ReadInv
<1> QED
    BY <1>4, <1>5, <1>6 DEF Reader

-----------------------------------------------------------------------------
\* What the window update queue changes: windows and their sizes grow, and an
\* update announces a window that the receiver has.
LEMMA QueueInv ==
    ASSUME Sizes, IInv,
           UNCHANGED <<bytesSent, maxData, connBytesSent, connMaxData, path, readers>>,
           queue' \in SUBSET Streams, queuedConn' \in BOOLEAN,
           conn' \in Controllers, conn'.read = conn.read, conn'.highest = conn.highest,
           conn'.window >= conn.window, conn'.window <= conn'.read + conn'.size,
           conn'.size <= Larger(ConnWindow, MaxConnWindow),
           rcv' \in [Streams -> Controllers],
           \A t \in Streams : /\ rcv'[t].highest = rcv[t].highest
                              /\ rcv'[t].window >= rcv[t].window
                              /\ rcv'[t].window <= rcv'[t].read + rcv'[t].size,
           updates' \in SUBSET [stream : Streams \cup {"conn"}, limit : Nat],
           \A u \in updates' \ updates :
              u.limit <= (IF u.stream = "conn" THEN conn'.window ELSE rcv'[u.stream].window)
    PROVE  IInv'
<1>1. TypeOK'
    BY DEF IInv, TypeOK
<1>2. /\ conn.window \in Nat /\ conn'.window \in Nat /\ connMaxData \in Nat
      /\ \A t \in Streams : rcv[t].window \in Nat /\ rcv'[t].window \in Nat /\ maxData[t] \in Nat
    BY DEF IInv, TypeOK, Controllers
<1>3. SenderInv'
  <2>1. connMaxData <= conn'.window /\ \A t \in Streams : maxData[t] <= rcv'[t].window
      BY <1>2 DEF IInv, SenderInv
  <2>2. ASSUME NEW u \in updates
        PROVE  u.limit <= (IF u.stream = "conn" THEN conn'.window ELSE rcv'[u.stream].window)
    <3>1. u.limit \in Nat /\ u.stream \in Streams \cup {"conn"}
        BY DEF IInv, TypeOK
    <3>2. u.limit <= (IF u.stream = "conn" THEN conn.window ELSE rcv[u.stream].window)
        BY DEF IInv, SenderInv
    <3>3. CASE u.stream = "conn"
        BY <1>2, <3>1, <3>2, <3>3
    <3>4. CASE u.stream # "conn"
      <4>1. u.stream \in Streams
          BY <3>1, <3>4
      <4> QED
          BY <1>2, <3>1, <3>2, <3>4, <4>1
    <3> QED
        BY <3>3, <3>4
  <2>3. \A u \in updates' :
           u.limit <= (IF u.stream = "conn" THEN conn'.window ELSE rcv'[u.stream].window)
      BY <2>2
  <2> QED
      BY <2>1, <2>3 DEF IInv, SenderInv
<1>4. ReceiverInv'
    BY DEF IInv, ReceiverInv
<1>5. WindowInv'
    BY DEF WindowInv
<1>6. CountInv'
  <2>1. highestOf(rcv') = highestOf(rcv)
      BY DEF highestOf
  <2>2. conn'.highest = Cardinality(Bytes(highestOf(rcv')))
      BY <2>1 DEF IInv, CountInv
  <2> QED
      BY <2>2 DEF IInv, CountInv, Bytes
<1> QED
    BY <1>1, <1>3, <1>4, <1>5, <1>6 DEF IInv

\* QueueAll announces a window of the connection only after moving it.
LEMMA QueueConnUpdateInv ==
    ASSUME Sizes, IInv, QueueConnUpdate
    PROVE  IInv'
<1>1. PICK pace \in Paces : conn' = getWindowUpdate(conn, MaxConnWindow, pace)
    BY DEF QueueConnUpdate
<1>2. UNCHANGED <<bytesSent, maxData, connBytesSent, connMaxData, path, rcv, queue, readers>>
    BY DEF QueueConnUpdate
<1>3. queuedConn' \in BOOLEAN
    BY Zenon DEF QueueConnUpdate
<1>4. conn \in Controllers /\ conn.window <= conn.read + conn.size
      /\ conn.size <= Larger(ConnWindow, MaxConnWindow)
    BY DEF IInv, TypeOK, WindowInv
<1>5. /\ conn' \in Controllers /\ conn'.read = conn.read /\ conn'.highest = conn.highest
      /\ conn.window <= conn'.window /\ conn'.window <= conn'.read + conn'.size
      /\ conn'.size <= Larger(conn.size, MaxConnWindow)
    BY <1>1, <1>4, UpdateMovesForward DEF Sizes
<1>6. conn.size \in Nat /\ conn'.size \in Nat /\ conn.window \in Nat /\ conn'.window \in Nat
    BY <1>4, <1>5 DEF Controllers
<1>7. conn'.size <= Larger(ConnWindow, MaxConnWindow)
    BY <1>4, <1>5, <1>6 DEF Larger, Sizes
<1> DEFINE v == update("conn", conn, conn')
<1>8. v \in [stream : Streams \cup {"conn"}, limit : Nat] /\ v.stream = "conn" /\ v.limit <= conn'.window
    BY <1>6 DEF update
<1>9. updates' = updates \cup {v}
    BY DEF QueueConnUpdate
<1> HIDE DEF v
<1>10. /\ updates' \in SUBSET [stream : Streams \cup {"conn"}, limit : Nat]
       /\ \A u \in updates' \ updates :
             u.limit <= (IF u.stream = "conn" THEN conn'.window ELSE rcv'[u.stream].window)
    BY <1>8, <1>9 DEF IInv, TypeOK
<1>11. /\ rcv' \in [Streams -> Controllers] /\ queue' \in SUBSET Streams
       /\ \A t \in Streams : /\ rcv'[t].highest = rcv[t].highest /\ rcv'[t].window >= rcv[t].window
                             /\ rcv'[t].window <= rcv'[t].read + rcv'[t].size
    BY <1>2 DEF IInv, TypeOK, WindowInv, Controllers
<1> QED
    BY <1>2, <1>3, <1>5, <1>7, <1>10, <1>11, QueueInv

\* QueueAll announces a window of a stream only after moving it, and may let the
\* size of the connection's window grow.
LEMMA QueueStreamUpdateInv ==
    ASSUME Sizes, IInv, NEW s \in Streams, QueueStreamUpdate(s)
    PROVE  IInv'
<1>1. UNCHANGED <<bytesSent, maxData, connBytesSent, connMaxData, path, queuedConn, readers>>
      /\ queue' = queue \ {s}
    BY DEF QueueStreamUpdate
<1>2. /\ conn \in Controllers /\ conn.window <= conn.read + conn.size
      /\ conn.size <= Larger(ConnWindow, MaxConnWindow)
      /\ rcv \in [Streams -> Controllers] /\ queue' \in SUBSET Streams /\ queuedConn' \in BOOLEAN
    BY <1>1 DEF IInv, TypeOK, WindowInv
<1>3. \A t \in Streams : rcv[t].window \in Nat /\ rcv[t].window <= rcv[t].read + rcv[t].size
    BY <1>2 DEF IInv, WindowInv, Controllers
<1>4. conn.window \in Nat /\ conn.read \in Nat /\ conn.size \in Nat
    BY <1>2 DEF Controllers
<1>5. CASE rcv[s].final
  <2>1. UNCHANGED <<rcv, conn, updates>>
      BY <1>5 DEF QueueStreamUpdate
  <2>2. updates' \in SUBSET [stream : Streams \cup {"conn"}, limit : Nat] /\ updates' \ updates = {}
      BY <2>1 DEF IInv, TypeOK
  <2> QED
      BY <1>1, <1>2, <1>3, <1>4, <2>1, <2>2, QueueInv
<1>6. CASE ~rcv[s].final
  <2>1. PICK pace \in Paces, allow \in BOOLEAN :
          /\ rcv' = [rcv EXCEPT ![s] = getWindowUpdate(@, MaxStreamWindow, pace)]
          /\ conn' = IF rcv'[s].size > rcv[s].size
                     THEN EnsureMinimumWindowSize(conn, (3 * rcv'[s].size) \div 2, allow) ELSE conn
          /\ updates' = IF rcv'[s].window = rcv[s].window THEN updates
                        ELSE updates \cup {update(s, rcv[s], rcv'[s])}
      BY <1>6 DEF QueueStreamUpdate
  <2> DEFINE d == getWindowUpdate(rcv[s], MaxStreamWindow, pace)
  <2>2. /\ d \in Controllers /\ d.highest = rcv[s].highest
        /\ rcv[s].window <= d.window /\ d.window <= d.read + d.size
      BY <1>2, <1>3, UpdateMovesForward, SMTT(60) DEF Sizes
  <2>3. rcv' = [rcv EXCEPT ![s] = d]
      BY <2>1
  <2> HIDE DEF d
  <2>4. rcv' \in [Streams -> Controllers] /\ rcv'[s] = d /\ \A t \in Streams : t # s => rcv'[t] = rcv[t]
      BY <1>2, <2>2, <2>3
  <2>5. \A t \in Streams : /\ rcv'[t].highest = rcv[t].highest /\ rcv'[t].window >= rcv[t].window
                           /\ rcv'[t].window <= rcv'[t].read + rcv'[t].size
    <3>1. d.window >= rcv[s].window
        BY <1>3, <2>2 DEF Controllers
    <3>2. \A t \in Streams : rcv[t].window >= rcv[t].window
        BY <1>3
    <3> QED
        BY <1>3, <2>2, <2>4, <3>1, <3>2
  <2>6. /\ conn' \in Controllers /\ conn'.read = conn.read /\ conn'.highest = conn.highest
        /\ conn'.window = conn.window /\ conn.size <= conn'.size
        /\ conn'.size <= Larger(ConnWindow, MaxConnWindow)
    <3> DEFINE min == (3 * rcv'[s].size) \div 2
    <3>1. min \in Nat
        BY <2>2, <2>4 DEF Controllers
    <3>2. CASE rcv'[s].size > rcv[s].size
      <4>1. conn' = EnsureMinimumWindowSize(conn, min, allow)
          BY <2>1, <3>2
      <4> HIDE DEF min
      <4> QED
          BY <1>2, <3>1, <4>1, MinimumGrows
    <3>3. CASE ~(rcv'[s].size > rcv[s].size)
        BY <1>2, <1>4, <2>1, <3>3
    <3> QED
        BY <3>2, <3>3
  <2>7. conn'.window >= conn.window /\ conn'.window <= conn'.read + conn'.size
    <3>1. conn'.size \in Nat
        BY <2>6 DEF Controllers
    <3> QED
        BY <1>2, <1>4, <2>6, <3>1
  <2> DEFINE v == update(s, rcv[s], rcv'[s])
  <2>8. v \in [stream : Streams \cup {"conn"}, limit : Nat] /\ v.stream = s /\ v.limit <= rcv'[s].window
    <3>1. rcv'[s].window \in Nat
        BY <2>4 DEF Controllers
    <3> QED
        BY <3>1 DEF update
  <2>9. updates' \in {updates, updates \cup {v}}
      BY <2>1
  <2> HIDE DEF v
  <2>10. /\ updates' \in SUBSET [stream : Streams \cup {"conn"}, limit : Nat]
         /\ \A u \in updates' \ updates :
               u.limit <= (IF u.stream = "conn" THEN conn'.window ELSE rcv'[u.stream].window)
    <3>1. s # "conn"
        BY DEF Sizes
    <3> QED
        BY <2>8, <2>9, <3>1 DEF IInv, TypeOK
  <2> QED
      BY <1>1, <1>2, <2>4, <2>5, <2>6, <2>7, <2>10, QueueInv
<1> QED
    BY <1>5, <1>6

-----------------------------------------------------------------------------
\* Every step of the two endpoints keeps the invariant.
THEOREM Invariance ==
    ASSUME Sizes
    PROVE  FlowSpec => []IInv
<1>1. FlowInit => IInv
    BY InitInv
<1>2. IInv /\ [FlowNext]_fcVars => IInv'
  <2> SUFFICES ASSUME IInv, [FlowNext]_fcVars PROVE IInv'
      OBVIOUS
  <2>1. ASSUME NEW s \in Streams, NEW n \in 1 .. Total, AddBytesSent(s, n) PROVE IInv'
      BY <2>1, AddBytesSentInv
  <2>2. ASSUME NEW u \in updates, UpdateSendWindow(u) PROVE IInv'
      BY <2>2, UpdateSendWindowInv
  <2>3. ASSUME NEW f \in path, UpdateHighestReceived(f) PROVE IInv'
      BY <2>3, UpdateHighestReceivedInv
  <2>4. ASSUME NEW s \in Streams, Reads(s) PROVE IInv'
      BY <2>4, AddBytesReadInv, AbandonInv DEF Reads
  <2>5. ASSUME NEW s \in Streams, Reader(s) PROVE IInv'
      BY <2>5, ReaderInv
  <2>6. ASSUME NEW s \in Streams, QueueStreamUpdate(s) PROVE IInv'
      BY <2>6, QueueStreamUpdateInv
  <2>7. CASE QueueConnUpdate
      BY <2>7, QueueConnUpdateInv
  <2>8. CASE UNCHANGED fcVars
    <3>1. UNCHANGED <<bytesSent, maxData, connBytesSent, connMaxData, path, updates, rcv, conn,
                      queue, queuedConn, readers>>
        BY <2>8 DEF fcVars
    <3>2. /\ conn \in Controllers /\ rcv \in [Streams -> Controllers] /\ conn.read >= conn.read
          /\ \A t \in Streams : rcv[t].read >= rcv[t].read
          /\ queue \in SUBSET Streams /\ queuedConn \in BOOLEAN /\ readers \in [Streams -> Reading]
        BY DEF IInv, TypeOK, Controllers
    <3> QED
        BY <3>1, <3>2, ReadInv
  <2> QED
      BY <2>1, <2>2, <2>3, <2>4, <2>5, <2>6, <2>7, <2>8 DEF FlowNext
<1> QED
    BY <1>1, <1>2, PTL DEF FlowSpec

\* The type invariant, for any streams and any window sizes.
THEOREM TypeCorrect ==
    ASSUME Sizes
    PROVE  FlowSpec => []TypeOK
<1>1. IInv => TypeOK
    BY DEF IInv
<1> QED
    BY <1>1, Invariance, PTL

\* checkFlowControlViolation never reports a peer that runs this code, and the
\* connection counts every byte once: for any number of streams and bytes, any
\* window sizes in any order, and updates that are late, repeated or reordered.
THEOREM PeersKeepWindows ==
    ASSUME Sizes
    PROVE  FlowSpec => []WindowsAreKept
<1>1. IInv => WindowsAreKept
  <2> SUFFICES ASSUME IInv PROVE WindowsAreKept
      OBVIOUS
  <2>1. conn \in Controllers /\ bytesSent \in [Streams -> Nat] /\ maxData \in [Streams -> Nat]
        /\ connBytesSent \in Nat /\ connMaxData \in Nat /\ rcv \in [Streams -> Controllers]
      BY DEF IInv, TypeOK
  <2>2. conn.highest <= connBytesSent
    <3>1. highestOf(rcv) \in [Streams -> Nat] /\ \A t \in Streams : highestOf(rcv)[t] <= bytesSent[t]
        BY <2>1 DEF IInv, ReceiverInv, highestOf, Controllers
    <3> QED
        BY <2>1, <3>1, BytesMonotone DEF IInv, CountInv
  <2>3. conn.highest \in Nat /\ conn.window \in Nat /\ conn.read \in Nat /\ conn.size \in Nat
      BY <2>1 DEF Controllers
  <2>4. conn.highest <= conn.window
      BY <2>1, <2>2, <2>3 DEF IInv, SenderInv
  <2>5. ASSUME NEW s \in Streams PROVE rcv[s].highest <= rcv[s].window
    <3>1. rcv[s].highest \in Nat /\ rcv[s].window \in Nat /\ bytesSent[s] \in Nat /\ maxData[s] \in Nat
        BY <2>1 DEF Controllers
    <3> QED
        BY <3>1 DEF IInv, SenderInv, ReceiverInv
  <2>6. conn.window - conn.read <= Larger(ConnWindow, MaxConnWindow)
    <3>1. Larger(ConnWindow, MaxConnWindow) \in Nat
        BY DEF Sizes, Larger
    <3> QED
        BY <2>3, <3>1 DEF IInv, WindowInv
  <2>7. connMaxData <= conn.window
      BY DEF IInv, SenderInv
  <2>8. conn.highest = Cardinality(Bytes([s \in Streams |-> rcv[s].highest]))
      BY DEF IInv, CountInv, highestOf
  <2> QED
      BY <2>4, <2>5, <2>6, <2>7, <2>8 DEF WindowsAreKept
<1> QED
    BY <1>1, Invariance, PTL

-----------------------------------------------------------------------------
(* Path MTU discovery and the pacer (mtu_discoverer.go, pacer.go).         *)
MTUType ==
    /\ pathMTU \in PathMTUs /\ probeInFlight \in Nat /\ mtuCurrent \in Nat /\ mtuMax \in Nat
    /\ mtuLimit \in Nat /\ probeLost \in BOOLEAN

\* The probe in flight lies between the two ends of the search; the lower end was acknowledged,
\* the upper one is the limit given to Start or was lost on the path.
SearchInv ==
    /\ mtuCurrent <= pathMTU
    /\ probeInFlight # 0 => mtuCurrent < probeInFlight /\ probeInFlight < mtuMax
    /\ probeLost \/ mtuMax = mtuLimit \/ mtuMax > pathMTU
    /\ mtuMax = 0 => mtuLimit = 0

\* The pacer knows the size the search has found, and has not sent in the future.
PacerInv ==
    /\ clock \in Nat /\ bandwidth \in Bandwidths /\ pacerDatagramSize = mtuCurrent
    /\ budgetAtLastSent \in Nat
    /\ lastSentTime \in Nat \cup {never} /\ lastSentTime <= clock

MTUInv == MTUType /\ SearchInv /\ PacerInv

-----------------------------------------------------------------------------
\* The larger and the smaller of two numbers.
LEMMA MaxOfTwo ==
    ASSUME NEW a \in Int, NEW b \in Int
    PROVE  Max({a, b}) \in {a, b} /\ Max({a, b}) >= a /\ Max({a, b}) >= b
<1>1. \E x \in {a, b} : \A y \in {a, b} : x >= y
    OBVIOUS
<1> QED
    BY <1>1 DEF Max

LEMMA MinOfTwo ==
    ASSUME NEW a \in Int, NEW b \in Int
    PROVE  Min({a, b}) \in {a, b} /\ Min({a, b}) <= a /\ Min({a, b}) <= b
<1>1. \E x \in {a, b} : \A y \in {a, b} : x <= y
    OBVIOUS
<1> QED
    BY <1>1 DEF Min

\* Division of natural numbers.
LEMMA Quotient ==
    ASSUME NEW n \in Nat, NEW k \in Nat \ {0}
    PROVE  n \div k \in Nat /\ k * (n \div k) <= n /\ n < k * (n \div k) + k
OBVIOUS

LEMMA ProductIsNat == ASSUME NEW a \in Nat, NEW b \in Nat PROVE a * b \in Nat
OBVIOUS

LEMMA Monotone ==
    ASSUME NEW a \in Nat, NEW b \in Nat, NEW k \in Nat, a <= b
    PROVE  k * a <= k * b
OBVIOUS

\* A quotient is at least m if the dividend is at least m divisors.
LEMMA QuotientAtLeast ==
    ASSUME NEW n \in Nat, NEW k \in Nat \ {0}, NEW m \in Nat, n >= k * m
    PROVE  n \div k >= m
<1> DEFINE q == n \div k
<1>1. q \in Nat /\ k * q <= n /\ n < k * q + k
    BY Quotient
<1> HIDE DEF q
<1>2. k * m < k * q + k
    BY <1>1, ProductIsNat
<1>3. k * (q + 1) = k * q + k
    BY <1>1
<1>4. CASE q < m
  <2>1. k * (q + 1) <= k * m
      BY <1>1, <1>4, Monotone
  <2> QED
      BY <1>2, <1>3, <2>1, <1>1, ProductIsNat
<1> QED
    BY <1>1, <1>4 DEF q

\* The largest burst is a number of bytes that holds a full packet.
LEMMA BurstHoldsPacket ==
    ASSUME NEW bw \in Bandwidths, NEW size \in Nat
    PROVE  maxBurstSize(bw, size) \in Nat /\ maxBurstSize(bw, size) >= size
<1>0. /\ bw \in Nat /\ Second \in Nat \ {0} /\ MinPacingDelay + TimerGranularity \in Nat
      /\ MaxBurstSizePackets \in Nat \ {0}
    BY PacerAssumption
<1> DEFINE d == MinPacingDelay + TimerGranularity
           x == (d * bw) \div Second
           y == MaxBurstSizePackets * size
<1>1. d * bw \in Nat
    BY <1>0, ProductIsNat
<1>2. x \in Nat
    BY <1>0, <1>1, Quotient
<1>3. y \in Nat /\ y >= size
  <2>1. size * 1 <= size * MaxBurstSizePackets
      BY <1>0, Monotone
  <2>2. size * MaxBurstSizePackets = MaxBurstSizePackets * size /\ size * 1 = size
      BY <1>0
  <2> QED
      BY <1>0, <2>1, <2>2, ProductIsNat
<1> HIDE DEF x, y
<1>4. Max({x, y}) \in {x, y} /\ Max({x, y}) >= x /\ Max({x, y}) >= y
    BY <1>2, <1>3, MaxOfTwo
<1>5. maxBurstSize(bw, size) = Max({x, y})
    BY DEF maxBurstSize, x, y
<1> QED
    BY <1>2, <1>3, <1>4, <1>5

\* What the pacer adds to the budget in a time.
LEMMA BudgetGrows ==
    ASSUME MTUInv, lastSentTime # never, NEW now \in Nat, now >= lastSentTime
    PROVE  /\ (bandwidth * (now - lastSentTime)) \div Second \in Nat
           /\ bandwidth * (now - lastSentTime) \in Nat
<1>1. bandwidth \in Nat /\ now - lastSentTime \in Nat /\ Second \in Nat \ {0}
    BY PacerAssumption DEF MTUInv, PacerInv, never
<1>2. bandwidth * (now - lastSentTime) \in Nat
    BY <1>1, ProductIsNat
<1> QED
    BY <1>1, <1>2, Quotient

LEMMA BudgetIsNat ==
    ASSUME MTUInv
    PROVE  Budget(clock) \in Nat
<1>1. clock \in Nat /\ bandwidth \in Bandwidths /\ pacerDatagramSize \in Nat /\ budgetAtLastSent \in Nat
    BY DEF MTUInv, MTUType, PacerInv
<1>2. maxBurstSize(bandwidth, pacerDatagramSize) \in Nat
    BY <1>1, BurstHoldsPacket
<1>3. CASE lastSentTime = never
    BY <1>2, <1>3 DEF Budget
<1>4. CASE lastSentTime # never
  <2>1. (bandwidth * (clock - lastSentTime)) \div Second \in Nat
      BY <1>1, <1>4, BudgetGrows DEF MTUInv, PacerInv
  <2> DEFINE x == maxBurstSize(bandwidth, pacerDatagramSize)
             y == budgetAtLastSent + (bandwidth * (clock - lastSentTime)) \div Second
  <2>2. Budget(clock) = Min({x, y})
      BY <1>4 DEF Budget
  <2>3. x \in Nat /\ y \in Nat
      BY <1>1, <1>2, <2>1
  <2> HIDE DEF x, y
  <2>4. Min({x, y}) \in {x, y}
      BY <2>3, MinOfTwo
  <2> QED
      BY <2>2, <2>3, <2>4
<1> QED
    BY <1>3, <1>4

\* The delay, rounded up, is long enough for the missing bytes.
LEMMA DelayIsLongEnough ==
    ASSUME MTUInv, NEW missing \in Nat
    PROVE  /\ delayFor(missing) \in Nat
           /\ bandwidth * delayFor(missing) >= Second * missing
<1> DEFINE d == (Second * missing + bandwidth - 1) \div bandwidth
           sm == Second * missing
<1>1. bandwidth \in Nat \ {0} /\ Second \in Nat \ {0}
    BY PacerAssumption DEF MTUInv, PacerInv
<1>2. sm \in Nat
    BY <1>1, ProductIsNat
<1>3. sm + bandwidth - 1 \in Nat
    BY <1>1, <1>2
<1>4. d \in Nat /\ sm + bandwidth - 1 < bandwidth * d + bandwidth
    BY <1>1, <1>3, Quotient
<1>5. delayFor(missing) = d
    BY DEF delayFor
<1> HIDE DEF d, sm
<1>6. bandwidth * d \in Nat
    BY <1>1, <1>4, ProductIsNat
<1>7. bandwidth * d >= sm
    BY <1>1, <1>2, <1>4, <1>6
<1> QED
    BY <1>4, <1>5, <1>7 DEF sm

\* There is budget for a packet when the time that TimeUntilSend gives has come.
LEMMA TimerHasBudget ==
    ASSUME MTUInv
    PROVE  PacingTimerHasBudget
<1> SUFFICES ASSUME lastSentTime # never
             PROVE  Budget(Max({clock, TimeUntilSend})) >= pacerDatagramSize
    BY DEF PacingTimerHasBudget
<1>1. /\ clock \in Nat /\ lastSentTime \in Nat /\ lastSentTime <= clock
      /\ pacerDatagramSize \in Nat /\ budgetAtLastSent \in Nat
      /\ bandwidth \in Bandwidths /\ bandwidth \in Nat \ {0} /\ Second \in Nat \ {0} /\ MinPacingDelay \in Nat
    BY PacerAssumption DEF MTUInv, MTUType, PacerInv, never
<1>2. maxBurstSize(bandwidth, pacerDatagramSize) \in Nat /\ maxBurstSize(bandwidth, pacerDatagramSize) >= pacerDatagramSize
    BY <1>1, BurstHoldsPacket
<1> DEFINE t == Max({clock, TimeUntilSend})
           add == (bandwidth * (t - lastSentTime)) \div Second
           x == maxBurstSize(bandwidth, pacerDatagramSize)
<1>3. t \in Nat /\ t >= lastSentTime /\ add \in Nat /\ budgetAtLastSent + add >= pacerDatagramSize
  <2>1. CASE budgetAtLastSent >= pacerDatagramSize
    <3>1. TimeUntilSend = 0
        BY <2>1 DEF TimeUntilSend
    <3>2. t \in {clock, 0} /\ t >= clock
        BY <1>1, <3>1, MaxOfTwo
    <3>3. t \in Nat /\ t >= lastSentTime
        BY <1>1, <3>2
    <3>4. add \in Nat
        BY <3>3, BudgetGrows
    <3> QED
        BY <1>1, <2>1, <3>3, <3>4
  <2>2. CASE budgetAtLastSent < pacerDatagramSize
    <3> DEFINE missing == pacerDatagramSize - budgetAtLastSent
               d == delayFor(missing)
               wait == Max({MinPacingDelay, d})
    <3>1. missing \in Nat
        BY <1>1, <2>2
    <3>2. d \in Nat /\ bandwidth * d >= Second * missing
        BY <3>1, DelayIsLongEnough
    <3>3. TimeUntilSend = lastSentTime + wait
        BY <1>1, <2>2 DEF TimeUntilSend
    <3> HIDE DEF d
    <3>4. wait \in {MinPacingDelay, d} /\ wait >= d
        BY <1>1, <3>2, MaxOfTwo
    <3> HIDE DEF missing, wait
    <3>5. wait \in Nat /\ TimeUntilSend \in Nat
        BY <1>1, <3>2, <3>3, <3>4
    <3>6. t \in {clock, TimeUntilSend} /\ t >= clock /\ t >= TimeUntilSend
        BY <1>1, <3>5, MaxOfTwo
    <3> HIDE DEF t
    <3>7. t \in Nat /\ t >= lastSentTime /\ t - lastSentTime \in Nat /\ t - lastSentTime >= d
        BY <1>1, <3>2, <3>3, <3>4, <3>5, <3>6
    <3>8. bandwidth * d <= bandwidth * (t - lastSentTime)
        BY <1>1, <3>2, <3>7, Monotone
    <3>9. bandwidth * (t - lastSentTime) \in Nat /\ add \in Nat
        BY <3>7, BudgetGrows
    <3>10. /\ Second * missing \in Nat /\ bandwidth * d \in Nat
        BY <1>1, <3>1, <3>2, ProductIsNat
    <3>11. bandwidth * (t - lastSentTime) >= Second * missing
        BY <3>2, <3>8, <3>9, <3>10
    <3>12. add >= missing
        BY <1>1, <3>1, <3>9, <3>11, QuotientAtLeast
    <3> HIDE DEF add
    <3> QED
        BY <1>1, <3>7, <3>9, <3>12 DEF missing
  <2> QED
      BY <1>1, <2>1, <2>2
<1>4. Budget(t) = Min({x, budgetAtLastSent + add})
    BY DEF Budget
<1> HIDE DEF t, add, x
<1>5. Min({x, budgetAtLastSent + add}) \in {x, budgetAtLastSent + add}
  <2>1. x \in Int /\ budgetAtLastSent + add \in Int
      BY <1>1, <1>2, <1>3 DEF x
  <2> QED
      BY <2>1, MinOfTwo
<1>6. Budget(t) >= pacerDatagramSize
    BY <1>2, <1>3, <1>4, <1>5 DEF x
<1> QED
    BY <1>6 DEF t

-----------------------------------------------------------------------------
\* A new connection.
LEMMA MTUInitInv == MTUInit => MTUInv
<1> SUFFICES ASSUME MTUInit PROVE MTUInv
    OBVIOUS
<1>1. MTUType /\ SearchInv
    BY PathAssumption DEF MTUInit, MTUType, SearchInv
<1>2. maxBurstSize(bandwidth, StartSize) \in Nat
    BY PathAssumption, BurstHoldsPacket DEF MTUInit
<1>3. PacerInv
    BY <1>2 DEF MTUInit, PacerInv, never
<1> QED
    BY <1>1, <1>3 DEF MTUInv

\* Every step of the search and of the pacer.
LEMMA MTUNextInv == MTUInv /\ [MTUNext]_mtuVars => MTUInv'
<1> SUFFICES ASSUME MTUInv, [MTUNext]_mtuVars PROVE MTUInv'
    OBVIOUS
<1> USE DEF mtuState, pacerState
<1>0. pathMTU \in Nat
    BY PathAssumption DEF MTUInv, MTUType
<1>1. CASE Start
    BY <1>0, <1>1, PathAssumption DEF Start, MTUInv, MTUType, SearchInv, PacerInv
<1>2. CASE SendProbe
  <2>1. mtuMax - mtuCurrent > 1
      BY <1>2, PathAssumption DEF SendProbe, done, MTUInv, MTUType
  <2>2. (mtuMax + mtuCurrent) \div 2 \in Nat /\ mtuCurrent < (mtuMax + mtuCurrent) \div 2 /\ (mtuMax + mtuCurrent) \div 2 < mtuMax
      BY <2>1 DEF MTUInv, MTUType
  <2> QED
      BY <1>2, <2>2 DEF SendProbe, MTUInv, MTUType, SearchInv, PacerInv
<1>3. CASE OnAcked
    BY <1>0, <1>3 DEF OnAcked, MTUInv, MTUType, SearchInv, PacerInv
<1>4. CASE OnLost
  <2>1. probeLost' \in BOOLEAN /\ (probeLost' \/ probeInFlight > pathMTU)
    <3>1. probeLost' = (probeLost \/ probeInFlight <= pathMTU)
        BY <1>4 DEF OnLost
    <3>2. probeLost \in BOOLEAN /\ probeInFlight \in Nat
        BY DEF MTUInv, MTUType
    <3>3. CASE probeInFlight <= pathMTU
        BY <3>1, <3>3, Zenon
    <3>4. CASE ~(probeInFlight <= pathMTU)
      <4>1. probeLost' = probeLost
          BY <3>1, <3>2, <3>4, Zenon
      <4>2. probeInFlight > pathMTU
          BY <1>0, <3>2, <3>4
      <4> QED
          BY <3>2, <4>1, <4>2, Zenon
    <3> QED
        BY <3>3, <3>4
  <2>2. mtuMax' = probeInFlight /\ probeInFlight' = 0 /\ mtuMax' # 0
        /\ UNCHANGED <<pathMTU, mtuCurrent, mtuLimit, pacerState>>
      BY <1>4 DEF OnLost
  <2> QED
      BY <1>0, <2>1, <2>2 DEF MTUInv, MTUType, SearchInv, PacerInv
<1>5. CASE SentPacket
  <2> DEFINE b == Budget(clock)
  <2>1. b \in Nat
      BY BudgetIsNat
  <2>2. PICK size \in {1, pacerDatagramSize} :
          /\ budgetAtLastSent' = IF size >= b THEN 0 ELSE b - size
          /\ lastSentTime' = clock
          /\ UNCHANGED <<mtuState, clock, bandwidth, pacerDatagramSize>>
      BY <1>5 DEF SentPacket
  <2>3. size \in Nat
      BY DEF MTUInv, MTUType, PacerInv
  <2> HIDE DEF b
  <2>4. budgetAtLastSent' \in Nat
      BY <2>1, <2>2, <2>3
  <2> QED
      BY <2>2, <2>4 DEF MTUInv, MTUType, SearchInv, PacerInv
<1>6. CASE UpdateBandwidth
    BY <1>6 DEF UpdateBandwidth, MTUInv, MTUType, SearchInv, PacerInv
<1>7. CASE Tick
    BY <1>7 DEF Tick, MTUInv, MTUType, SearchInv, PacerInv, never
<1>8. CASE UNCHANGED mtuVars
    BY <1>8 DEF mtuVars, MTUInv, MTUType, SearchInv, PacerInv
<1> QED
    BY <1>1, <1>2, <1>3, <1>4, <1>5, <1>6, <1>7, <1>8 DEF MTUNext

\* The search has found the MTU.
LEMMA SearchFinds == MTUInv => MTUIsFound
<1> SUFFICES ASSUME MTUInv PROVE MTUIsFound
    OBVIOUS
<1>1. pathMTU \in Nat /\ mtuLimit \in Nat /\ mtuCurrent \in Nat /\ mtuMax \in Nat /\ MaxMTUDiff \in Nat
    BY PathAssumption DEF MTUInv, MTUType
<1>2. Min({pathMTU, mtuLimit}) \in Nat /\ Min({pathMTU, mtuLimit}) <= pathMTU /\ Min({pathMTU, mtuLimit}) <= mtuLimit
    BY <1>1, MinOfTwo
<1> QED
    BY <1>1, <1>2 DEF MTUIsFound, MTUInv, SearchInv, done

\* mtu_discoverer.go: for every path and every limit of the peer, packets never outgrow the path,
\* and the search ends within maxMTUDiff of the largest size both carry unless a probe that
\* would have fit was lost.
THEOREM PathMTUIsFound == MTUSpec => []MTUIsFound
BY MTUInitInv, MTUNextInv, SearchFinds, PTL DEF MTUSpec

\* pacer.go: for every bandwidth, packet size and time resolution there is budget for a full
\* packet when the pacing timer fires: the rounding of TimeUntilSend and of Budget agree.
THEOREM PacingTimerSuffices == MTUSpec => []PacingTimerHasBudget
<1>1. MTUInv => PacingTimerHasBudget
    BY TimerHasBudget
<1> QED
    BY <1>1, MTUInitInv, MTUNextInv, PTL DEF MTUSpec

-----------------------------------------------------------------------------
(* The packet packer (packet_packer.go, framer.go, repair_queue.go).  Its  *)
(* loops over frames are recursive functions; the lemmas up to LoopsAgree  *)
(* are what induction over the rounds of such a loop needs.                *)

\* The least element of a set of natural numbers.
LEMMA LeastOf == ASSUME NEW S \in SUBSET Nat, S # {} PROVE \E m \in S : \A k \in S : m <= k
<1>1. PICK x \in S : \A y \in S : ~ <<y, x>> \in OpToRel(<, Nat)
    BY NatLessThanWellFounded, WFMin
<1>2. \A y \in S : ~(y < x)
    BY <1>1 DEF OpToRel
<1> QED
    BY <1>2

\* Induction over the rounds of a loop: what every round preserves holds after each.
LEMMA RoundsKeep ==
    ASSUME NEW N \in Nat, NEW T, NEW f, f[0] \in T[0],
           \A n \in 1 .. N : f[n - 1] \in T[n - 1] => f[n] \in T[n]
    PROVE  \A n \in 0 .. N : f[n] \in T[n]
<1> DEFINE Bad == {n \in 0 .. N : f[n] \notin T[n]}
<1> SUFFICES ASSUME NEW x \in Bad PROVE FALSE
    OBVIOUS
<1>0. Bad \in SUBSET Nat /\ Bad # {}
    OBVIOUS
<1>1. PICK m \in Bad : \A k \in Bad : m <= k
  <2> HIDE DEF Bad
  <2> QED
      BY <1>0, LeastOf
<1>2. m # 0
    OBVIOUS
<1>3. m \in 1 .. N /\ m - 1 \in 0 .. N /\ ~(m <= m - 1)
    BY <1>2
<1>4. m - 1 \notin Bad
    BY <1>1, <1>3
<1> QED
    BY <1>3, <1>4

\* Rounds h of a loop that starts with c and is in set T[n] after n rounds.
IsLoop(N, S, T, c, h) ==
    /\ N \in Nat /\ T \in [0 .. N -> SUBSET S] /\ c \in T[0] /\ h \in [(1 .. N) \X S -> S]
    /\ \A n \in 1 .. N : \A x \in T[n - 1] : h[<<n, x>>] \in T[n]

\* The states after each of the rounds.
IsRun(N, S, T, c, h, g) ==
    g \in [0 .. N -> S] /\ \A n \in 0 .. N : g[n] \in T[n] /\ g[n] = IF n = 0 THEN c ELSE h[<<n, g[n - 1]>>]

\* A loop runs.
LEMMA LoopRuns ==
    ASSUME NEW N, NEW S, NEW T, NEW c, NEW h, IsLoop(N, S, T, c, h)
    PROVE  \E g : IsRun(N, S, T, c, h, g)
<1> USE DEF IsLoop
<1> DEFINE Upto(k) == \E g \in [0 .. k -> S] :
                        \A n \in 0 .. k : g[n] \in T[n] /\ g[n] = IF n = 0 THEN c ELSE h[<<n, g[n - 1]>>]
           Bad == {n \in 0 .. N : ~Upto(n)}
<1> SUFFICES Upto(N)
    BY DEF IsRun
<1> SUFFICES ASSUME NEW x \in Bad PROVE FALSE
    BY SMTT(60)
<1>0. Bad \in SUBSET Nat /\ Bad # {}
  <2> HIDE DEF Upto
  <2> QED
      OBVIOUS
<1>1. PICK m \in Bad : \A k \in Bad : m <= k
  <2> HIDE DEF Bad
  <2> QED
      BY <1>0, LeastOf
<1>2. Upto(0)
  <2> DEFINE g == [n \in 0 .. 0 |-> c]
  <2>1. g \in [0 .. 0 -> S] /\ \A n \in 0 .. 0 : g[n] \in T[n] /\ g[n] = IF n = 0 THEN c ELSE h[<<n, g[n - 1]>>]
      OBVIOUS
  <2> HIDE DEF g
  <2> QED
      BY <2>1
<1>3. m # 0
    BY <1>2
<1>4. m \in 1 .. N /\ m - 1 \in 0 .. N /\ ~(m <= m - 1)
    BY <1>3
<1>5. PICK g \in [0 .. m - 1 -> S] :
          \A n \in 0 .. m - 1 : g[n] \in T[n] /\ g[n] = IF n = 0 THEN c ELSE h[<<n, g[n - 1]>>]
    BY <1>1, <1>4
<1> DEFINE e == [n \in 0 .. m |-> IF n = m THEN h[<<m, g[m - 1]>>] ELSE g[n]]
<1>6. g[m - 1] \in T[m - 1] /\ g[m - 1] \in S
  <2>1. m - 1 \in 0 .. m - 1
      BY <1>4
  <2> QED
      BY <1>5, <2>1
<1>7. h[<<m, g[m - 1]>>] \in T[m] /\ h[<<m, g[m - 1]>>] \in S
    BY <1>4, <1>6
<1>8. e \in [0 .. m -> S]
    BY <1>4, <1>5, <1>7
<1>9. ASSUME NEW n \in 0 .. m PROVE e[n] \in T[n] /\ e[n] = IF n = 0 THEN c ELSE h[<<n, e[n - 1]>>]
  <2>1. CASE n = m
    <3>1. e[m - 1] = g[m - 1] /\ e[m] = h[<<m, g[m - 1]>>]
        BY <1>4
    <3> QED
        BY <2>1, <3>1, <1>3, <1>7
  <2>2. CASE n # m
    <3>1. n \in 0 .. m - 1
        BY <1>4, <2>2
    <3>2. e[n] = g[n] /\ (n # 0 => n - 1 \in 0 .. m /\ n - 1 # m /\ e[n - 1] = g[n - 1])
        BY <1>4, <2>2, <3>1
    <3> HIDE DEF e
    <3> QED
        BY <1>5, <3>1, <3>2
  <2> QED
      BY <2>1, <2>2
<1> HIDE DEF e
<1>10. Upto(m)
    BY <1>8, <1>9
<1> QED
    BY <1>10

\* The sums that TotalLen computes.
LEMMA TotalLenFn ==
    ASSUME NEW R, NEW s \in Seq(R), \A r \in R : r.len \in Nat
    PROVE  \E f : /\ f \in [0 .. Len(s) -> Nat] /\ f[0] = 0 /\ \A n \in 1 .. Len(s) : f[n] = f[n - 1] + s[n].len
                  /\ TotalLen(s) = f[Len(s)]
<1> DEFINE N == Len(s)
           body(f) == [n \in 0 .. N |-> IF n = 0 THEN 0 ELSE f[n - 1] + s[n].len]
           up == CHOOSE f : f = body(f)
           h == [p \in (1 .. N) \X Nat |-> p[2] + s[p[1]].len]
           T == [n \in 0 .. N |-> Nat]
<1>0. N \in Nat /\ \A n \in 1 .. N : s[n].len \in Nat
    OBVIOUS
<1>1. TotalLen(s) = up[N]
    BY DEF TotalLen
<1> HIDE DEF N
<1>2. /\ h \in [(1 .. N) \X Nat -> Nat]
      /\ \A n \in 1 .. N : \A x \in Nat : h[<<n, x>>] = x + s[n].len
    BY SMTT(60), <1>0
<1>3. /\ T \in [0 .. N -> SUBSET Nat] /\ \A n \in 0 .. N : T[n] = Nat
      /\ 0 \in T[0] /\ \A n \in 1 .. N : \A x \in T[n - 1] : h[<<n, x>>] \in T[n]
  <2>1. T \in [0 .. N -> SUBSET Nat] /\ \A n \in 0 .. N : T[n] = Nat
      OBVIOUS
  <2> HIDE DEF T, h
  <2>2. 0 \in 0 .. N /\ \A n \in 1 .. N : n \in 0 .. N /\ n - 1 \in 0 .. N
      BY <1>0
  <2> QED
      BY <1>0, <1>2, <2>1, <2>2
<1>4. PICK g : IsRun(N, Nat, T, 0, h, g)
  <2> HIDE DEF T, h
  <2>1. IsLoop(N, Nat, T, 0, h)
      BY <1>0, <1>2, <1>3 DEF IsLoop
  <2> QED
      BY <2>1, LoopRuns, Zenon
<1> HIDE DEF T, h
<1>5. g = body(g)
  <2>1. ASSUME NEW n \in 0 .. N PROVE g[n] = IF n = 0 THEN 0 ELSE g[n - 1] + s[n].len
    <3>1. n # 0 => n \in 1 .. N /\ n - 1 \in 0 .. N
        BY <1>0
    <3> QED
        BY <1>2, <1>4, <3>1 DEF IsRun
  <2> QED
      BY <2>1, <1>4 DEF IsRun
<1>6. up = body(up)
    BY <1>5
<1> HIDE DEF up
<1>7. up[0] = 0 /\ \A n \in 1 .. N : up[n] = up[n - 1] + s[n].len
    BY <1>0, <1>6
<1>8. \A n \in 0 .. N : up[n] \in T[n]
  <2>1. up[0] \in T[0]
      BY <1>3, <1>7
  <2>2. ASSUME NEW n \in 1 .. N, up[n - 1] \in T[n - 1] PROVE up[n] \in T[n]
    <3>1. n \in 0 .. N /\ n - 1 \in 0 .. N
        BY <1>0
    <3>2. up[n - 1] \in Nat /\ s[n].len \in Nat /\ up[n] = up[n - 1] + s[n].len /\ T[n] = Nat
        BY <1>0, <1>3, <1>7, <2>2, <3>1
    <3> QED
        BY <3>2
  <2> QED
      BY <1>0, <2>1, <2>2, RoundsKeep
<1>9. up \in [0 .. N -> Nat]
    BY <1>3, <1>6, <1>8
<1> QED
    BY <1>1, <1>7, <1>9 DEF N

\* Two loops that do the same.
LEMMA LoopsAgree ==
    ASSUME NEW N \in Nat, NEW f, NEW g, f[0] = g[0], \A n \in 1 .. N : f[n - 1] = g[n - 1] => f[n] = g[n]
    PROVE  f[N] = g[N]
<1> DEFINE T == [n \in 0 .. N |-> {g[n]}]
<1>1. \A n \in 0 .. N : T[n] = {g[n]}
    OBVIOUS
<1> HIDE DEF T
<1>2. f[0] \in T[0]
    BY <1>1
<1>3. ASSUME NEW n \in 1 .. N, f[n - 1] \in T[n - 1] PROVE f[n] \in T[n]
  <2>1. n \in 0 .. N /\ n - 1 \in 0 .. N
      OBVIOUS
  <2> QED
      BY <1>1, <1>3, <2>1
<1>4. \A n \in 0 .. N : f[n] \in T[n]
    BY <1>2, <1>3, RoundsKeep
<1> QED
    BY <1>1, <1>4

\* A frame more.
LEMMA TotalLenAppend ==
    ASSUME NEW R, NEW s \in Seq(R), NEW r \in R, \A x \in R : x.len \in Nat
    PROVE  TotalLen(Append(s, r)) = TotalLen(s) + r.len
<1> DEFINE t == Append(s, r)
           N == Len(s)
<1>1. N \in Nat /\ t \in Seq(R) /\ Len(t) = N + 1 /\ t[N + 1] = r /\ \A n \in 1 .. N : t[n] = s[n]
    OBVIOUS
<1> HIDE DEF t, N
<1>2. PICK f : f[0] = 0 /\ (\A n \in 1 .. N : f[n] = f[n - 1] + s[n].len) /\ TotalLen(s) = f[N]
    BY TotalLenFn DEF N
<1>3. PICK g : g[0] = 0 /\ (\A n \in 1 .. Len(t) : g[n] = g[n - 1] + t[n].len) /\ TotalLen(t) = g[Len(t)]
    BY <1>1, TotalLenFn
<1>4. \A n \in 1 .. N : n \in 1 .. Len(t)
    BY <1>1
<1>5. \A n \in 1 .. N : g[n - 1] = f[n - 1] => g[n] = f[n]
    BY <1>1, <1>2, <1>3, <1>4
<1>6. g[N] = f[N]
    BY <1>1, <1>2, <1>3, <1>5, LoopsAgree
<1>7. N + 1 \in 1 .. Len(t) /\ N + 1 - 1 = N
    BY <1>1
<1>8. g[N + 1] = g[N] + r.len
    BY <1>1, <1>3, <1>7
<1> QED
    BY <1>1, <1>2, <1>3, <1>6, <1>8 DEF t

\* No frames.
LEMMA TotalLenEmpty == TotalLen(<<>>) = 0
<1> DEFINE R == [len: Nat]
           e == <<>>
<1>1. e \in Seq(R) /\ Len(e) = 0 /\ \A x \in R : x.len \in Nat
    OBVIOUS
<1> HIDE DEF R, e
<1>2. \E f : f[0] = 0 /\ TotalLen(e) = f[Len(e)]
    BY <1>1, TotalLenFn
<1>3. TotalLen(e) = 0
    BY <1>1, <1>2
<1> QED
    BY <1>3 DEF e

\* A length is a number.
LEMMA TotalLenType ==
    ASSUME NEW R, NEW s \in Seq(R), \A x \in R : x.len \in Nat
    PROVE  TotalLen(s) \in Nat
<1>1. PICK f : f \in [0 .. Len(s) -> Nat] /\ TotalLen(s) = f[Len(s)]
    BY TotalLenFn
<1> QED
    BY <1>1

\* A last frame that is shorter by one.
LEMMA TotalLenShortened ==
    ASSUME NEW R, NEW s \in Seq(R), NEW t \in Seq(R), \A x \in R : x.len \in Nat,
           s # <<>>, Len(t) = Len(s), t[Len(s)].len = s[Len(s)].len - 1,
           \A n \in 1 .. Len(s) : n # Len(s) => t[n] = s[n]
    PROVE  TotalLen(t) = TotalLen(s) - 1
<1> DEFINE N == Len(s) - 1
<1>1. N \in Nat /\ Len(s) = N + 1 /\ Len(s) \in 1 .. Len(s) /\ Len(s) - 1 = N
    OBVIOUS
<1>2. PICK f : /\ f \in [0 .. Len(s) -> Nat] /\ f[0] = 0 /\ (\A n \in 1 .. Len(s) : f[n] = f[n - 1] + s[n].len)
               /\ TotalLen(s) = f[Len(s)]
    BY TotalLenFn
<1>3. PICK g : g[0] = 0 /\ (\A n \in 1 .. Len(t) : g[n] = g[n - 1] + t[n].len) /\ TotalLen(t) = g[Len(t)]
    BY TotalLenFn
<1>4. \A n \in 1 .. N : n \in 1 .. Len(s) /\ n # Len(s)
    BY <1>1
<1>5. \A n \in 1 .. N : g[n - 1] = f[n - 1] => g[n] = f[n]
    BY ZenonT(60), <1>1, <1>2, <1>3, <1>4
<1> HIDE DEF N
<1>6. g[N] = f[N]
  <2>1. N \in Nat /\ g[0] = f[0]
      BY <1>1, <1>2, <1>3
  <2> QED
      BY <2>1, <1>5, LoopsAgree, Zenon
<1>7. g[Len(s)] = g[N] + t[Len(s)].len /\ f[Len(s)] = f[N] + s[Len(s)].len
    BY <1>1, <1>2, <1>3
<1>8. f[N] \in Nat /\ s[Len(s)].len \in Nat
    BY <1>1, <1>2
<1> QED
    BY <1>2, <1>3, <1>6, <1>7, <1>8

-----------------------------------------------------------------------------
(* The STREAM frames of some streams *)

\* What framesOf has selected after each frame.
LEMMA FramesOfFn ==
    ASSUME NEW R, NEW s \in Seq(R), NEW ids
    PROVE  \E f : /\ f[0] = <<>>
                  /\ \A n \in 1 .. Len(s) : f[n] = IF s[n].id \in ids THEN Append(f[n - 1], s[n]) ELSE f[n - 1]
                  /\ framesOf(s, ids) = f[Len(s)]
<1> DEFINE N == Len(s)
           Step(n, x) == IF s[n].id \in ids THEN Append(x, s[n]) ELSE x
           body(f) == [n \in 0 .. N |-> IF n = 0 THEN <<>> ELSE IF s[n].id \in ids THEN Append(f[n - 1], s[n]) ELSE f[n - 1]]
           up == CHOOSE f : f = body(f)
           h == [p \in (1 .. N) \X Seq(R) |-> Step(p[1], p[2])]
           T == [n \in 0 .. N |-> Seq(R)]
<1>0. N \in Nat /\ \A n \in 1 .. N : s[n] \in R
    OBVIOUS
<1>1. framesOf(s, ids) = up[N]
    BY DEF framesOf
<1> HIDE DEF N
<1>2. \A n \in 1 .. N : \A x \in Seq(R) : Step(n, x) \in Seq(R)
    BY <1>0
<1>3. /\ h \in [(1 .. N) \X Seq(R) -> Seq(R)]
      /\ \A n \in 1 .. N : \A x \in Seq(R) : h[<<n, x>>] = Step(n, x)
  <2> HIDE DEF Step
  <2> QED
      BY <1>2
<1>4. IsLoop(N, Seq(R), T, <<>>, h)
  <2>1. T \in [0 .. N -> SUBSET Seq(R)] /\ (\A n \in 0 .. N : T[n] = Seq(R)) /\ <<>> \in Seq(R)
      OBVIOUS
  <2> HIDE DEF T, h, Step
  <2>2. 0 \in 0 .. N /\ \A n \in 1 .. N : n \in 0 .. N /\ n - 1 \in 0 .. N
      BY <1>0
  <2>3. \A n \in 1 .. N : \A x \in T[n - 1] : h[<<n, x>>] \in T[n]
      BY <1>2, <1>3, <2>1, <2>2
  <2> QED
      BY <1>0, <1>3, <2>1, <2>2, <2>3 DEF IsLoop
<1> HIDE DEF T, h
<1>5. PICK g : IsRun(N, Seq(R), T, <<>>, h, g)
    BY <1>4, LoopRuns, Zenon
<1>6. g = body(g)
  <2>1. ASSUME NEW n \in 0 .. N PROVE g[n] = IF n = 0 THEN <<>> ELSE Step(n, g[n - 1])
    <3>1. n # 0 => n \in 1 .. N /\ n - 1 \in 0 .. N
        BY <1>0
    <3> HIDE DEF Step
    <3> QED
        BY <1>3, <1>5, <3>1 DEF IsRun
  <2> QED
      BY <2>1, <1>5 DEF IsRun
<1>7. up = body(up)
    BY <1>6
<1> HIDE DEF up
<1>8. up[0] = <<>> /\ \A n \in 1 .. N : up[n] = IF s[n].id \in ids THEN Append(up[n - 1], s[n]) ELSE up[n - 1]
  <2>1. 0 \in 0 .. N /\ \A n \in 1 .. N : n \in 0 .. N /\ n # 0
      BY <1>0
  <2>2. up[0] = <<>>
      BY <1>7, <2>1
  <2>3. ASSUME NEW n \in 1 .. N PROVE up[n] = IF s[n].id \in ids THEN Append(up[n - 1], s[n]) ELSE up[n - 1]
    <3>1. n \in 0 .. N /\ n # 0
        BY <2>1
    <3>2. up[n] = body(up)[n]
        BY <1>7, Zenon
    <3> QED
        BY <3>1, <3>2
  <2> QED
      BY <2>2, <2>3
<1> QED
    BY <1>1, <1>8 DEF N

\* All frames are of these streams.
LEMMA FramesOfAll ==
    ASSUME NEW R, NEW s \in Seq(R), NEW ids, \A i \in 1 .. Len(s) : s[i].id \in ids
    PROVE  framesOf(s, ids) = s
<1> DEFINE g == [n \in 0 .. Len(s) |-> SubSeq(s, 1, n)]
<1>1. PICK f : /\ f[0] = <<>>
               /\ \A n \in 1 .. Len(s) : f[n] = IF s[n].id \in ids THEN Append(f[n - 1], s[n]) ELSE f[n - 1]
               /\ framesOf(s, ids) = f[Len(s)]
    BY FramesOfFn
<1>2. Len(s) \in Nat /\ g[0] = <<>> /\ g[Len(s)] = s
    OBVIOUS
<1>3. ASSUME NEW n \in 1 .. Len(s) PROVE g[n] = Append(g[n - 1], s[n])
    OBVIOUS
<1> HIDE DEF g
<1>4. \A n \in 1 .. Len(s) : f[n - 1] = g[n - 1] => f[n] = g[n]
    BY <1>1, <1>3
<1> QED
    BY <1>1, <1>2, <1>4, LoopsAgree

\* No frame is.
LEMMA FramesOfNone ==
    ASSUME NEW R, NEW s \in Seq(R), NEW ids, \A i \in 1 .. Len(s) : s[i].id \notin ids
    PROVE  framesOf(s, ids) = <<>>
<1> DEFINE g == [n \in 0 .. Len(s) |-> <<>>]
<1>1. PICK f : /\ f[0] = <<>>
               /\ \A n \in 1 .. Len(s) : f[n] = IF s[n].id \in ids THEN Append(f[n - 1], s[n]) ELSE f[n - 1]
               /\ framesOf(s, ids) = f[Len(s)]
    BY FramesOfFn
<1>2. Len(s) \in Nat /\ g[0] = <<>> /\ g[Len(s)] = <<>>
    OBVIOUS
<1>3. \A n \in 1 .. Len(s) : g[n] = g[n - 1]
    OBVIOUS
<1> HIDE DEF g
<1>4. \A n \in 1 .. Len(s) : f[n - 1] = g[n - 1] => f[n] = g[n]
    BY <1>1, <1>3
<1> QED
    BY <1>1, <1>2, <1>4, LoopsAgree

\* They are no longer than all of them.
LEMMA FramesOfShorter ==
    ASSUME NEW R, NEW s \in Seq(R), NEW ids, \A x \in R : x.len \in Nat
    PROVE  framesOf(s, ids) \in Seq(R) /\ TotalLen(framesOf(s, ids)) <= TotalLen(s)
<1> DEFINE N == Len(s)
<1>1. PICK f : /\ f[0] = <<>>
               /\ \A n \in 1 .. N : f[n] = IF s[n].id \in ids THEN Append(f[n - 1], s[n]) ELSE f[n - 1]
               /\ framesOf(s, ids) = f[N]
    BY FramesOfFn
<1>2. PICK g : /\ g \in [0 .. N -> Nat] /\ g[0] = 0 /\ (\A n \in 1 .. N : g[n] = g[n - 1] + s[n].len)
               /\ TotalLen(s) = g[N]
    BY TotalLenFn
<1>3. N \in Nat /\ \A n \in 1 .. N : s[n] \in R /\ n \in 0 .. N /\ n - 1 \in 0 .. N
    OBVIOUS
<1> HIDE DEF N
<1> DEFINE T == [n \in 0 .. N |-> {x \in Seq(R) : TotalLen(x) <= g[n]}]
<1>4. \A n \in 0 .. N : T[n] = {x \in Seq(R) : TotalLen(x) <= g[n]}
    OBVIOUS
<1> HIDE DEF T
<1>5. f[0] \in T[0]
  <2>1. 0 \in 0 .. N /\ f[0] = <<>> /\ g[0] = 0 /\ <<>> \in Seq(R)
      BY <1>1, <1>2, <1>3
  <2>2. TotalLen(f[0]) <= g[0]
      BY <2>1, TotalLenEmpty
  <2> QED
      BY <1>4, <2>1, <2>2
<1>6. ASSUME NEW n \in 1 .. N, f[n - 1] \in T[n - 1] PROVE f[n] \in T[n]
  <2>1. /\ f[n - 1] \in Seq(R) /\ TotalLen(f[n - 1]) <= g[n - 1] /\ g[n] = g[n - 1] + s[n].len
        /\ g[n - 1] \in Nat /\ s[n].len \in Nat /\ s[n] \in R
      BY <1>2, <1>3, <1>4, <1>6
  <2>2. TotalLen(f[n - 1]) \in Nat
      BY <2>1, TotalLenType
  <2>3. TotalLen(f[n - 1]) <= g[n]
      BY <2>1, <2>2
  <2>4. CASE s[n].id \notin ids
      BY <1>1, <1>3, <1>4, <2>1, <2>3, <2>4
  <2>5. CASE s[n].id \in ids
    <3>1. f[n] = Append(f[n - 1], s[n])
        BY <1>1, <2>5
    <3>2. TotalLen(f[n]) = TotalLen(f[n - 1]) + s[n].len
        BY <2>1, <3>1, TotalLenAppend
    <3>3. TotalLen(f[n]) <= g[n]
        BY <2>1, <2>2, <3>2
    <3>4. f[n] \in Seq(R)
        BY <2>1, <3>1
    <3> QED
        BY <1>3, <1>4, <3>3, <3>4
  <2> QED
      BY <2>4, <2>5
<1>7. \A n \in 0 .. N : f[n] \in T[n]
    BY <1>3, <1>5, <1>6, RoundsKeep
<1>8. N \in 0 .. N
    BY <1>3
<1> QED
    BY <1>1, <1>2, <1>4, <1>7, <1>8

\* A frame of one of two sets of streams is among those of the one or the other.
LEMMA FramesOfSplit ==
    ASSUME NEW R, NEW s \in Seq(R), NEW A, NEW B, \A i \in 1 .. Len(s) : s[i].id \in A \cup B,
           \A x \in R : x.len \in Nat,
           framesOf(s, A) = <<>>, framesOf(s, B) = <<>>
    PROVE  s = <<>>
<1> DEFINE N == Len(s)
<1> SUFFICES ASSUME s # <<>> PROVE FALSE
    OBVIOUS
<1>1. N \in 1 .. N /\ N - 1 \in 0 .. N /\ N \in Nat
    OBVIOUS
<1>2. ASSUME NEW ids, s[N].id \in ids PROVE framesOf(s, ids) # <<>>
  <2>1. PICK f : /\ f[0] = <<>>
                 /\ \A n \in 1 .. N : f[n] = IF s[n].id \in ids THEN Append(f[n - 1], s[n]) ELSE f[n - 1]
                 /\ framesOf(s, ids) = f[N]
      BY FramesOfFn
  <2>2. \A n \in 1 .. N : s[n] \in R
      OBVIOUS
  <2> DEFINE T == [n \in 0 .. N |-> Seq(R)]
  <2>3. \A n \in 0 .. N : T[n] = Seq(R)
      OBVIOUS
  <2> HIDE DEF T, N
  <2>4. f[0] \in T[0]
    <3>1. 0 \in 0 .. N /\ <<>> \in Seq(R)
        BY <1>1
    <3> QED
        BY <2>1, <2>3, <3>1
  <2>5. ASSUME NEW n \in 1 .. N, f[n - 1] \in T[n - 1] PROVE f[n] \in T[n]
    <3>1. n \in 0 .. N /\ n - 1 \in 0 .. N
        BY <1>1
    <3>2. f[n - 1] \in Seq(R)
        BY <2>3, <2>5, <3>1
    <3>3. f[n] \in Seq(R)
      <4>1. s[n] \in R /\ Append(f[n - 1], s[n]) \in Seq(R)
          BY <2>2, <3>2
      <4>2. f[n] = IF s[n].id \in ids THEN Append(f[n - 1], s[n]) ELSE f[n - 1]
          BY <2>1
      <4> QED
          BY <3>2, <4>1, <4>2
    <3> QED
        BY <2>3, <3>1, <3>3
  <2>6. \A n \in 0 .. N : f[n] \in T[n]
      BY <1>1, <2>4, <2>5, RoundsKeep
  <2>7. f[N - 1] \in Seq(R)
      BY <1>1, <2>3, <2>6
  <2>8. f[N] = Append(f[N - 1], s[N])
      BY <1>1, <1>2, <2>1
  <2> QED
      BY <2>1, <2>7, <2>8
<1>3. s[N].id \in A \cup B
    BY <1>1
<1> QED
    BY <1>2, <1>3

-----------------------------------------------------------------------------
(* The longest payload of a block *)

\* biggestSourceSymbol is no longer than any bound on the payloads.
LEMMA BiggestBound ==
    ASSUME NEW s \in Seq(Nat), NEW B \in Nat, \A i \in 1 .. Len(s) : s[i] <= B
    PROVE  biggestSourceSymbol(s) \in 0 .. B
<1> DEFINE N == Len(s)
           S == 0 .. B
           body(f) == [n \in 0 .. N |-> IF n = 0 THEN 0 ELSE Max2(f[n - 1], s[n])]
           up == CHOOSE f : f = body(f)
           h == [p \in (1 .. N) \X S |-> Max2(p[2], s[p[1]])]
           T == [n \in 0 .. N |-> S]
<1>0. N \in Nat /\ \A n \in 1 .. N : s[n] \in S
    OBVIOUS
<1>1. biggestSourceSymbol(s) = up[N]
    BY DEF biggestSourceSymbol
<1>2. 0 \in S /\ \A x, y \in S : Max2(x, y) \in S
    BY DEF Max2
<1> HIDE DEF N, S
<1>3. /\ h \in [(1 .. N) \X S -> S]
      /\ \A n \in 1 .. N : \A x \in S : h[<<n, x>>] = Max2(x, s[n])
    BY <1>0, <1>2
<1>4. /\ T \in [0 .. N -> SUBSET S] /\ \A n \in 0 .. N : T[n] = S
      /\ 0 \in T[0] /\ \A n \in 1 .. N : \A x \in T[n - 1] : h[<<n, x>>] \in T[n]
  <2>1. T \in [0 .. N -> SUBSET S] /\ \A n \in 0 .. N : T[n] = S
      OBVIOUS
  <2> HIDE DEF T, h
  <2>2. 0 \in 0 .. N /\ \A n \in 1 .. N : n \in 0 .. N /\ n - 1 \in 0 .. N
      BY <1>0
  <2> QED
      BY <1>0, <1>2, <1>3, <2>1, <2>2
<1> HIDE DEF T, h
<1>5. PICK g : IsRun(N, S, T, 0, h, g)
  <2>1. IsLoop(N, S, T, 0, h)
      BY <1>0, <1>3, <1>4 DEF IsLoop
  <2> QED
      BY <2>1, LoopRuns, Zenon
<1>6. g = body(g)
  <2>1. ASSUME NEW n \in 0 .. N PROVE g[n] = IF n = 0 THEN 0 ELSE Max2(g[n - 1], s[n])
    <3>1. n # 0 => n \in 1 .. N /\ n - 1 \in 0 .. N
        BY <1>0
    <3> QED
        BY <1>3, <1>5, <3>1 DEF IsRun
  <2> QED
      BY <2>1, <1>5 DEF IsRun
<1>7. up = body(up)
    BY <1>6
<1> HIDE DEF up
<1>8. up[0] = 0 /\ \A n \in 1 .. N : up[n] = Max2(up[n - 1], s[n])
    BY <1>0, <1>7
<1>9. \A n \in 0 .. N : up[n] \in T[n]
  <2>1. up[0] \in T[0]
      BY <1>4, <1>8
  <2>2. ASSUME NEW n \in 1 .. N, up[n - 1] \in T[n - 1] PROVE up[n] \in T[n]
    <3>1. n \in 0 .. N /\ n - 1 \in 0 .. N
        BY <1>0
    <3>2. up[n - 1] \in S /\ s[n] \in S /\ up[n] = Max2(up[n - 1], s[n]) /\ T[n] = S
        BY <1>0, <1>4, <1>8, <2>2, <3>1
    <3> QED
        BY <1>2, <3>2
  <2> QED
      BY <1>0, <2>1, <2>2, RoundsKeep
<1>10. N \in 0 .. N
    BY <1>0
<1> QED
    BY <1>1, <1>4, <1>9, <1>10 DEF S

-----------------------------------------------------------------------------
(* The STREAM frames of a packet *)

DelimitedFrame == [kind : {"stream"}, id : SendStreams, len : Nat \ {0}, dataLenPresent : {TRUE}]
PackedFrame == [kind : {"stream"}, id : SendStreams, len : Nat, dataLenPresent : BOOLEAN]
Popping == [queue : Seq(SendStreams), pending : [SendStreams -> Nat], frames : Seq(DelimitedFrame), length : Nat]

\* What the loop of AppendStreamFrames keeps true of the frames it has taken.
InRoom(a, maxLen) ==
    /\ TotalLen(a.frames) = a.length
    /\ a.frames # <<>> => MinStreamFrameSize <= maxLen /\ a.length <= maxLen + 1

\* One round of that loop.
LEMMA PopInRoom ==
    ASSUME NEW a \in Popping, NEW maxLen \in Int, a.queue # <<>>,
           InRoom(a, maxLen), ~(MinStreamFrameSize + a.length > maxLen)
    PROVE  /\ popFromStream(a, maxLen) \in Popping
           /\ InRoom(popFromStream(a, maxLen), maxLen)
           /\ Len(popFromStream(a, maxLen).queue) >= Len(a.queue) - 1
<1> DEFINE id == Head(a.queue)
           n == Min2(a.pending[id], maxLen - a.length)
           q == IF a.pending[id] > n THEN Append(Tail(a.queue), id) ELSE Tail(a.queue)
           p == [a.pending EXCEPT ![id] = @ - n]
           f == StreamFrame(id, n)
           b == [queue |-> q, pending |-> p, frames |-> Append(a.frames, f), length |-> a.length + n + 1]
<1>1. /\ a.queue \in Seq(SendStreams) /\ a.pending \in [SendStreams -> Nat]
      /\ a.frames \in Seq(DelimitedFrame) /\ a.length \in Nat
      /\ a = [queue |-> a.queue, pending |-> a.pending, frames |-> a.frames, length |-> a.length]
    BY DEF Popping
<1>2. id \in SendStreams /\ Tail(a.queue) \in Seq(SendStreams) /\ Len(Tail(a.queue)) = Len(a.queue) - 1 /\ Len(a.queue) \in Nat
    BY <1>1
<1> HIDE DEF id
<1>3. a.pending[id] \in Nat /\ MinStreamFrameSize \in Nat \ {0}
    BY <1>1, <1>2, PackerAssumption
<1>0. CASE a.pending[id] = 0
  <2> DEFINE c == [queue |-> Tail(a.queue), pending |-> a.pending, frames |-> a.frames, length |-> a.length]
  <2>1. popFromStream(a, maxLen) = [a EXCEPT !.queue = Tail(a.queue)]
      BY <1>0 DEF popFromStream, id
  <2>2. popFromStream(a, maxLen) = c
      BY <1>1, <2>1
  <2>3. c \in Popping
      BY <1>1, <1>2 DEF Popping
  <2>4. InRoom(c, maxLen)
      BY DEF InRoom
  <2>5. Len(c.queue) >= Len(a.queue) - 1
      BY <1>2
  <2> HIDE DEF c
  <2> QED
      BY <2>2, <2>3, <2>4, <2>5
<1> SUFFICES ASSUME a.pending[id] # 0
             PROVE  /\ popFromStream(a, maxLen) \in Popping
                    /\ InRoom(popFromStream(a, maxLen), maxLen)
                    /\ Len(popFromStream(a, maxLen).queue) >= Len(a.queue) - 1
    BY <1>0
<1>4. n \in Nat /\ n <= a.pending[id] /\ n <= maxLen - a.length /\ MinStreamFrameSize <= maxLen
    BY <1>1, <1>3, SMTT(60) DEF Min2
<1>5. popFromStream(a, maxLen) = b
  <2>1. popFromStream(a, maxLen) = [a EXCEPT !.queue = q, !.pending = p, !.frames = Append(a.frames, f), !.length = a.length + n + 1]
      BY DEF popFromStream, id
  <2> HIDE DEF n, q, p, f
  <2> QED
      BY <1>1, <2>1
<1> HIDE DEF n
<1>6. q \in Seq(SendStreams) /\ Len(q) >= Len(a.queue) - 1
    BY <1>2
<1>7. p \in [SendStreams -> Nat]
  <2>1. a.pending[id] - n \in Nat
      BY <1>3, <1>4
  <2> QED
      BY <1>1, <1>2, <2>1
<1>8. f \in DelimitedFrame /\ f.len = n + 1
    BY <1>2, <1>4 DEF StreamFrame, DelimitedFrame
<1>9. TotalLen(Append(a.frames, f)) = a.length + n + 1
  <2>1. \A x \in DelimitedFrame : x.len \in Nat
      BY DEF DelimitedFrame
  <2>2. TotalLen(Append(a.frames, f)) = TotalLen(a.frames) + f.len
      BY <1>1, <1>8, <2>1, TotalLenAppend
  <2>3. TotalLen(a.frames) = a.length
      BY DEF InRoom
  <2> QED
      BY <1>1, <1>4, <1>8, <2>2, <2>3
<1>10. a.length + n + 1 \in Nat /\ a.length + n + 1 <= maxLen + 1
    BY <1>1, <1>4
<1>11. Append(a.frames, f) \in Seq(DelimitedFrame)
    BY <1>1, <1>8
<1> HIDE DEF q, p, f
<1>12. b \in Popping
    BY <1>6, <1>7, <1>10, <1>11 DEF Popping
<1>13. InRoom(b, maxLen)
    BY <1>4, <1>9, <1>10 DEF InRoom
<1> QED
    BY <1>5, <1>6, <1>12, <1>13

\* The frames that the loop of AppendStreamFrames takes from the streams.
LEMMA StreamFramesPopped ==
    ASSUME NEW maxLen \in Int, streamQueue \in Seq(SendStreams), pending \in [SendStreams -> Nat]
    PROVE  \E popped \in Popping :
              /\ InRoom(popped, maxLen)
              /\ AppendStreamFrames(maxLen) = IF popped.frames = <<>> THEN popped
                     ELSE [popped EXCEPT !.frames = withoutLastDataLen(@), !.length = @ - 1]
<1> DEFINE N == Len(streamQueue)
           start == [queue |-> streamQueue, pending |-> pending, frames |-> <<>>, length |-> 0]
           Step(x) == IF MinStreamFrameSize + x.length > maxLen THEN x ELSE popFromStream(x, maxLen)
           body(f) == [n \in 0 .. N |-> IF n = 0 THEN start
                                         ELSE IF MinStreamFrameSize + f[n - 1].length > maxLen THEN f[n - 1]
                                              ELSE popFromStream(f[n - 1], maxLen)]
           up == CHOOSE f : f = body(f)
           T == [n \in 0 .. N |-> {x \in Popping : Len(x.queue) >= N - n /\ InRoom(x, maxLen)}]
           h == [p \in (1 .. N) \X Popping |-> IF p[2] \in T[p[1] - 1] THEN Step(p[2]) ELSE p[2]]
<1>0. N \in Nat
    OBVIOUS
<1>1. AppendStreamFrames(maxLen) = IF up[N].frames = <<>> THEN up[N]
          ELSE [up[N] EXCEPT !.frames = withoutLastDataLen(@), !.length = @ - 1]
    BY DEF AppendStreamFrames
<1>2. start \in Popping /\ InRoom(start, maxLen) /\ start.queue = streamQueue
  <2>1. start.frames = <<>> /\ start.length = 0 /\ start.queue = streamQueue
      OBVIOUS
  <2>2. start \in Popping
      BY DEF Popping
  <2> HIDE DEF start
  <2> QED
      BY <2>1, <2>2, TotalLenEmpty DEF InRoom
<1>3. T \in [0 .. N -> SUBSET Popping]
      /\ \A n \in 0 .. N : \A x : x \in T[n] <=> x \in Popping /\ Len(x.queue) >= N - n /\ InRoom(x, maxLen)
    OBVIOUS
<1>4. start \in T[0]
  <2>1. 0 \in 0 .. N /\ Len(start.queue) >= N - 0
      BY <1>0, <1>2
  <2> HIDE DEF start, T
  <2> QED
      BY <1>2, <1>3, <2>1
<1> HIDE DEF T, start, N
<1>5. ASSUME NEW n \in 1 .. N, NEW x \in T[n - 1] PROVE Step(x) \in T[n]
  <2>1. n - 1 \in 0 .. N /\ n \in 0 .. N
      BY <1>0
  <2>2. x \in Popping /\ Len(x.queue) >= N - (n - 1) /\ InRoom(x, maxLen) /\ x.queue \in Seq(SendStreams)
      BY <1>3, <2>1 DEF Popping
  <2>3. Len(x.queue) \in Nat /\ Len(x.queue) >= 1 /\ Len(x.queue) - 1 >= N - n /\ Len(x.queue) >= N - n /\ x.queue # <<>>
      BY SMTT(60), <1>0, <2>2
  <2>4. CASE MinStreamFrameSize + x.length > maxLen
      BY <1>3, <2>1, <2>2, <2>3, <2>4
  <2>5. CASE ~(MinStreamFrameSize + x.length > maxLen)
    <3> DEFINE y == popFromStream(x, maxLen)
    <3>1. y \in Popping /\ InRoom(y, maxLen) /\ Len(y.queue) >= Len(x.queue) - 1
        BY <2>2, <2>3, <2>5, PopInRoom
    <3>2. Step(x) = y
        BY <2>5
    <3> HIDE DEF y
    <3>3. Len(y.queue) \in Nat
        BY <3>1 DEF Popping
    <3>4. Len(y.queue) >= N - n
        BY <1>0, <2>3, <3>1, <3>3
    <3> QED
        BY <1>3, <2>1, <3>1, <3>2, <3>4
  <2> QED
      BY <2>4, <2>5
<1>6. /\ h \in [(1 .. N) \X Popping -> Popping]
      /\ \A n \in 1 .. N : \A x \in T[n - 1] : h[<<n, x>>] = Step(x)
  <2> HIDE DEF Step
  <2>1. \A n \in 1 .. N : n \in 0 .. N /\ n - 1 \in 0 .. N
      BY <1>0
  <2>2. \A n \in 0 .. N : T[n] \subseteq Popping
      BY <1>3
  <2>3. \A n \in 1 .. N, x \in Popping : (IF x \in T[n - 1] THEN Step(x) ELSE x) \in Popping
      BY <1>5, <2>1, <2>2
  <2> QED
      BY <2>1, <2>2, <2>3
<1> HIDE DEF h, Step
<1>7. PICK g : IsRun(N, Popping, T, start, h, g)
  <2>1. IsLoop(N, Popping, T, start, h)
      BY <1>0, <1>3, <1>4, <1>5, <1>6 DEF IsLoop
  <2> QED
      BY <2>1, LoopRuns, Zenon
<1>8. g = body(g)
  <2>1. ASSUME NEW n \in 0 .. N PROVE g[n] = IF n = 0 THEN start ELSE Step(g[n - 1])
    <3>1. n # 0 => n \in 1 .. N /\ n - 1 \in 0 .. N
        BY <1>0
    <3> QED
        BY <1>6, <1>7, <3>1 DEF IsRun
  <2>2. g = [n \in 0 .. N |-> IF n = 0 THEN start ELSE Step(g[n - 1])]
      BY <2>1, <1>7, SMTT(60) DEF IsRun
  <2> QED
      BY <2>2, Zenon DEF Step
<1>9. up = body(up)
    BY <1>8
<1> HIDE DEF up
<1>10. up[0] = start /\ \A n \in 1 .. N : up[n] = Step(up[n - 1])
  <2>1. up = [n \in 0 .. N |-> IF n = 0 THEN start ELSE Step(up[n - 1])]
      BY <1>9, Zenon DEF Step
  <2>2. 0 \in 0 .. N /\ \A n \in 1 .. N : n \in 0 .. N /\ n # 0
      BY <1>0
  <2> QED
      BY <2>1, <2>2
<1>11. \A n \in 0 .. N : up[n] \in T[n]
  <2>1. up[0] \in T[0]
      BY <1>4, <1>10
  <2>2. ASSUME NEW n \in 1 .. N, up[n - 1] \in T[n - 1] PROVE up[n] \in T[n]
      BY <1>5, <1>10, <2>2
  <2> QED
      BY <1>0, <2>1, <2>2, RoundsKeep
<1>12. up[N] \in Popping /\ InRoom(up[N], maxLen)
  <2>1. N \in 0 .. N
      BY <1>0
  <2> QED
      BY <1>3, <1>11, <2>1
<1> QED
    BY <1>1, <1>12, Zenon

\* A frame without its DataLen field.
LEMMA Shortened ==
    ASSUME NEW x \in DelimitedFrame
    PROVE  LET r == [kind |-> x.kind, id |-> x.id, len |-> x.len - 1, dataLenPresent |-> FALSE]
           IN  /\ r \in PackedFrame /\ r.len = x.len - 1
               /\ [x EXCEPT !.dataLenPresent = FALSE, !.len = x.len - 1] = r
<1>1. /\ x.kind \in {"stream"} /\ x.id \in SendStreams /\ x.len \in Nat \ {0}
      /\ x = [kind |-> x.kind, id |-> x.id, len |-> x.len, dataLenPresent |-> x.dataLenPresent]
    BY DEF DelimitedFrame
<1>2. PICK n \in Nat : n = x.len - 1
    BY <1>1
<1> DEFINE r == [kind |-> x.kind, id |-> x.id, len |-> n, dataLenPresent |-> FALSE]
<1>3. r \in PackedFrame
    BY <1>1, <1>2, Zenon DEF PackedFrame
<1>4. r.len = n
    OBVIOUS
<1>5. [x EXCEPT !.dataLenPresent = FALSE, !.len = n] = r
  <2>1. x \in [kind : {"stream"}, id : SendStreams, len : Nat \ {0}, dataLenPresent : {TRUE}]
      BY DEF DelimitedFrame
  <2> SUFFICES ASSUME NEW g, g = [x EXCEPT !.dataLenPresent = FALSE, !.len = n]
               PROVE  g = r
      OBVIOUS
  <2> QED
      BY <2>1, Zenon
<1> QED
    BY <1>2, <1>3, <1>4, <1>5, Zenon

\* Without the DataLen field, the last frame is shorter by one.
LEMMA LastFrameUndelimited ==
    ASSUME NEW s \in Seq(DelimitedFrame), s # <<>>
    PROVE  /\ withoutLastDataLen(s) \in Seq(PackedFrame)
           /\ Len(withoutLastDataLen(s)) = Len(s)
           /\ TotalLen(withoutLastDataLen(s)) = TotalLen(s) - 1
           /\ \A i \in 1 .. Len(s) : i # Len(s) => withoutLastDataLen(s)[i].dataLenPresent
<1> DEFINE t == withoutLastDataLen(s)
           N == Len(s)
           r == [kind |-> s[N].kind, id |-> s[N].id, len |-> s[N].len - 1, dataLenPresent |-> FALSE]
<1>1. N \in Nat /\ N \in 1 .. N /\ s[N] \in DelimitedFrame /\ \A i \in 1 .. N : s[i] \in DelimitedFrame
    OBVIOUS
<1>2. /\ r \in PackedFrame /\ r.len = s[N].len - 1
      /\ [s[N] EXCEPT !.dataLenPresent = FALSE, !.len = s[N].len - 1] = r
    BY <1>1, Shortened
<1>3. DelimitedFrame \subseteq PackedFrame
    BY DEF DelimitedFrame, PackedFrame
<1>4. t = [i \in 1 .. N |-> IF i = N THEN r ELSE s[i]]
  <2>1. s \in [1 .. N -> DelimitedFrame]
      BY LenProperties
  <2>2. [s EXCEPT ![N].dataLenPresent = FALSE, ![N].len = @ - 1] = [s EXCEPT ![N] = [s[N] EXCEPT !.dataLenPresent = FALSE, !.len = s[N].len - 1]]
    <3> DEFINE y == [s[N] EXCEPT !.dataLenPresent = FALSE]
    <3>1. s[N] = [kind |-> s[N].kind, id |-> s[N].id, len |-> s[N].len, dataLenPresent |-> s[N].dataLenPresent]
        BY <1>1 DEF DelimitedFrame
    <3> QED
        BY <1>1, <3>1
  <2>3. t = [s EXCEPT ![N] = r]
      BY <1>2, <2>2 DEF withoutLastDataLen
  <2> HIDE DEF t, r, N
  <2> QED
      BY <1>1, <2>1, <2>3
<1> HIDE DEF t, r
<1>5. /\ Len(t) = N /\ t[N] = r /\ (\A i \in 1 .. N : i # N => t[i] = s[i])
      /\ t \in Seq(PackedFrame) /\ s \in Seq(PackedFrame)
    BY <1>1, <1>2, <1>3, <1>4
<1>6. \A x \in PackedFrame : x.len \in Nat
    BY DEF PackedFrame
<1>7. TotalLen(t) = TotalLen(s) - 1
  <2>1. t[N].len = s[N].len - 1 /\ \A n \in 1 .. N : n # N => t[n] = s[n]
      BY <1>2, <1>5
  <2> QED
      BY <1>5, <1>6, <2>1, TotalLenShortened
<1>8. \A i \in 1 .. N : i # N => t[i].dataLenPresent
  <2>1. \A x \in DelimitedFrame : x.dataLenPresent = TRUE
      BY DEF DelimitedFrame
  <2> QED
      BY <1>1, <1>5, <2>1
<1> QED
    BY <1>5, <1>7, <1>8 DEF t

\* AppendStreamFrames: the frames fit in the room there is, and all but the last are delimited.
LEMMA StreamFramesFit ==
    ASSUME NEW maxLen \in Int, streamQueue \in Seq(SendStreams), pending \in [SendStreams -> Nat],
           NEW str, str = AppendStreamFrames(maxLen)
    PROVE  /\ str.queue \in Seq(SendStreams) /\ str.pending \in [SendStreams -> Nat]
           /\ str.frames \in Seq(PackedFrame) /\ str.length \in Nat
           /\ TotalLen(str.frames) = str.length
           /\ str.frames = <<>> => str.length = 0
           /\ str.frames # <<>> => MinStreamFrameSize <= maxLen /\ str.length <= maxLen
           /\ \A i \in 1 .. Len(str.frames) : i # Len(str.frames) => str.frames[i].dataLenPresent
<1>1. PICK popped \in Popping :
              /\ InRoom(popped, maxLen)
              /\ str = IF popped.frames = <<>> THEN popped
                     ELSE [popped EXCEPT !.frames = withoutLastDataLen(@), !.length = @ - 1]
    BY StreamFramesPopped
<1>2. /\ popped.queue \in Seq(SendStreams) /\ popped.pending \in [SendStreams -> Nat]
      /\ popped.frames \in Seq(DelimitedFrame) /\ popped.length \in Nat
      /\ popped = [queue |-> popped.queue, pending |-> popped.pending, frames |-> popped.frames, length |-> popped.length]
    BY DEF Popping
<1>3. DelimitedFrame \subseteq PackedFrame
    BY DEF DelimitedFrame, PackedFrame
<1>4. CASE popped.frames = <<>>
  <2>1. str = popped
      BY <1>1, <1>4
  <2>2. str.length = 0
      BY <1>1, <1>4, <2>1, TotalLenEmpty DEF InRoom
  <2>3. str.frames = <<>> /\ <<>> \in Seq(PackedFrame) /\ \A i \in 1 .. Len(<<>>) : FALSE
      BY <1>4, <2>1
  <2>4. TotalLen(str.frames) = str.length
      BY <2>2, <2>3, TotalLenEmpty
  <2>5. str.queue \in Seq(SendStreams) /\ str.pending \in [SendStreams -> Nat] /\ str.length \in Nat
      BY <1>2, <2>1
  <2> QED
      BY <2>2, <2>3, <2>4, <2>5
<1>5. CASE popped.frames # <<>>
  <2> DEFINE t == withoutLastDataLen(popped.frames)
  <2>1. str = [popped EXCEPT !.frames = t, !.length = popped.length - 1]
      BY <1>1, <1>5
  <2>2. /\ t \in Seq(PackedFrame) /\ Len(t) = Len(popped.frames) /\ TotalLen(t) = TotalLen(popped.frames) - 1
        /\ \A i \in 1 .. Len(t) : i # Len(t) => t[i].dataLenPresent
      BY <1>2, <1>5, LastFrameUndelimited
  <2> HIDE DEF t
  <2>3. str.queue = popped.queue /\ str.pending = popped.pending /\ str.frames = t /\ str.length = popped.length - 1
      BY <1>2, <2>1
  <2>4. TotalLen(t) = popped.length - 1 /\ MinStreamFrameSize <= maxLen /\ popped.length <= maxLen + 1
      BY <1>1, <1>5, <2>2 DEF InRoom
  <2>5. TotalLen(t) \in Nat
    <3>1. \A x \in PackedFrame : x.len \in Nat
        BY DEF PackedFrame
    <3> QED
        BY <2>2, <3>1, TotalLenType
  <2>6. popped.length - 1 \in Nat /\ popped.length - 1 <= maxLen
      BY <1>2, <2>4, <2>5
  <2>7. t # <<>>
      BY <1>2, <1>5, <2>2
  <2> QED
      BY <1>2, <2>2, <2>3, <2>4, <2>6, <2>7
<1> QED
    BY <1>4, <1>5

-----------------------------------------------------------------------------
(* What composeNextPacket puts together *)

DatagramToSend == [len : DatagramLens, fec : FECDatagrams]

\* The assumptions, in the form the steps below use.
LEMMA PackerConstants ==
    /\ MaxFrameSize \in Nat /\ AckLen \in Nat /\ 1 <= AckLen /\ AckLen + 1 <= MaxFrameSize
    /\ MinStreamFrameSize \in Nat /\ 1 <= MinStreamFrameSize
    /\ MaxFECHeaderOverhead \in Nat /\ SourceSymbolHeader \in Nat /\ RepairOverhead \in Nat
    /\ SourceSymbolHeader <= MaxFECHeaderOverhead /\ RepairOverhead <= MaxFECHeaderOverhead
    /\ totNumSourceSymbols \in Nat /\ 1 <= totNumSourceSymbols /\ totNumRepairSymbols \in Nat /\ maxRepairSendQueueLen \in Nat
    /\ MaxNonAckElicitingAcks \in Nat /\ MaxInputs \in Nat
    /\ \A n \in DatagramLens : n \in Nat /\ 1 <= n
    BY PackerAssumption, PackerInputAssumption

\* Each kind of frame is a Frame.
LEMMA FrameTypes ==
    /\ \A n \in Nat : RepairFrame(n) \in Frame /\ RepairFrame(n).len = n
    /\ \A d \in DatagramToSend : DatagramFrame(d) \in Frame /\ DatagramFrame(d).len = d.len
    /\ ControlFrame \in Frame
    /\ PackedFrame \subseteq Frame /\ \A x \in Frame : x.len \in Nat
<1>1. ASSUME NEW k \in {"control", "datagram", "repair"}, NEW n \in Nat
      PROVE  [kind |-> k, id |-> 0, len |-> n, dataLenPresent |-> TRUE] \in Frame
  <2>1. k \in {"control", "datagram", "repair", "stream"} /\ 0 \in SendStreams \cup {0}
      OBVIOUS
  <2> QED
      BY <2>1, Zenon DEF Frame
<1>2. \A n \in Nat : RepairFrame(n) \in Frame /\ RepairFrame(n).len = n
    BY <1>1, Zenon DEF RepairFrame
<1>3. \A d \in DatagramToSend : DatagramFrame(d) \in Frame /\ DatagramFrame(d).len = d.len
  <2>1. \A d \in DatagramToSend : d.len \in Nat
      BY PackerConstants DEF DatagramToSend
  <2> QED
      BY <1>1, <2>1, Zenon DEF DatagramFrame
<1>4. ControlFrame \in Frame
  <2>1. 1 \in Nat
      OBVIOUS
  <2> QED
      BY <1>1, <2>1, Zenon DEF ControlFrame
<1>5. PackedFrame \subseteq Frame
    BY DEF PackedFrame, Frame
<1>6. \A x \in Frame : x.len \in Nat
    BY DEF Frame
<1> QED
    BY <1>2, <1>3, <1>4, <1>5, <1>6

\* Two lists of frames, one after the other.
LEMMA BothLists ==
    ASSUME NEW R, NEW s \in Seq(R), NEW t \in Seq(R)
    PROVE  s \o t \in Seq(R) /\ (s \o t = <<>> => s = <<>> /\ t = <<>>)
    OBVIOUS

\* The ACK, the repair frame and the datagram fit in the packet.
LEMMA FrontFacts ==
    ASSUME PackTypeOK, NEW m \in Nat, NEW allowed \in BOOLEAN, m <= MaxFrameSize, allowed => m = MaxFrameSize,
           NEW front, front = composeAckRepairDatagram(m, allowed)
    PROVE  /\ front.maxFrameSize = m /\ front.length \in Nat /\ front.length <= m
           /\ front.hasAck \in BOOLEAN /\ front.noSpace \in BOOLEAN /\ front.discarded \in BOOLEAN
           /\ front.frames \in Seq(Frame) /\ front.fecFrames \in Seq(Frame)
           /\ front.frames = <<>> /\ front.fecFrames = <<>> => front.length = IF front.hasAck THEN AckLen ELSE 0
           /\ front.datagrams \in Seq(DatagramToSend)
           /\ front.repairFrames = IF repairFrames # <<>> /\ Head(repairFrames) <= m - (IF front.hasAck THEN AckLen ELSE 0)
                                   THEN Tail(repairFrames) ELSE repairFrames
           /\ front.noSpace => repairFrames # <<>> /\ ~(Head(repairFrames) <= m)
           /\ FECDatagrams \subseteq {FALSE} => front.fecFrames = <<>>
<1> DEFINE hasAck == GetAckFrame(allowed)
           ackLen == IF hasAck THEN AckLen ELSE 0
           hasRepair == repairFrames # <<>>
           added == hasRepair /\ Head(repairFrames) <= m - ackLen
           repairLen == IF added THEN Head(repairFrames) ELSE 0
           used == ackLen + repairLen
           d == Head(datagrams)
           fits == datagrams # <<>> /\ d.len <= m - used
           discarded == datagrams # <<>> /\ discardsDatagram(fits, hasAck, added)
           datagram(fec) == IF fits /\ d.fec = fec THEN <<DatagramFrame(d)>> ELSE <<>>
           repair == IF added THEN <<RepairFrame(Head(repairFrames))>> ELSE <<>>
<1>0. /\ front.maxFrameSize = m /\ front.length = used + IF fits THEN d.len ELSE 0
      /\ front.hasAck = hasAck /\ front.noSpace = (hasRepair /\ ~added /\ ~hasAck) /\ front.discarded = discarded
      /\ front.frames = repair \o datagram(FALSE) /\ front.fecFrames = datagram(TRUE)
      /\ front.datagrams = (IF fits \/ discarded THEN Tail(datagrams) ELSE datagrams)
      /\ front.repairFrames = (IF added THEN Tail(repairFrames) ELSE repairFrames)
    BY DEF composeAckRepairDatagram, afterPop, datagramRoom
<1>1. /\ repairFrames \in Seq(Nat) /\ datagrams \in Seq(DatagramToSend)
    BY DEF PackTypeOK, DatagramToSend
<1>2. hasAck \in BOOLEAN /\ (hasAck => allowed) /\ discarded \in BOOLEAN
    BY DEF GetAckFrame, discardsDatagram
<1> HIDE DEF hasAck
<1>3. ackLen \in Nat /\ ackLen <= m
    BY <1>2, PackerConstants
<1>4. hasRepair => Head(repairFrames) \in Nat
    BY <1>1
<1>5. repairLen \in Nat /\ used \in Nat /\ used <= m /\ (~added => used = ackLen)
  <2> HIDE DEF ackLen
  <2> QED
      BY <1>3, <1>4
<1>6. datagrams # <<>> => d \in DatagramToSend /\ Tail(datagrams) \in Seq(DatagramToSend)
    BY <1>1, HeadTailProperties
<1>7. datagrams # <<>> => d.len \in Nat /\ 1 <= d.len /\ d.fec \in FECDatagrams /\ d.fec \in BOOLEAN
    BY <1>6, PackerConstants, PackerInputAssumption DEF DatagramToSend
<1>8. front.length \in Nat /\ front.length <= m
  <2> HIDE DEF used, d
  <2> QED
      BY <1>0, <1>5, <1>7
<1>9. \A fec \in BOOLEAN : datagram(fec) \in Seq(Frame)
  <2>1. fits => DatagramFrame(d) \in Frame
      BY <1>6, FrameTypes
  <2> HIDE DEF fits, d
  <2> QED
      BY <2>1
<1>10. repair \in Seq(Frame) /\ (repair = <<>> => ~added)
  <2>1. added => RepairFrame(Head(repairFrames)) \in Frame
      BY <1>4, FrameTypes
  <2> HIDE DEF added
  <2> QED
      BY <2>1
<1>11. front.frames \in Seq(Frame) /\ front.fecFrames \in Seq(Frame)
  <2>1. datagram(FALSE) \in Seq(Frame) /\ datagram(TRUE) \in Seq(Frame) /\ repair \in Seq(Frame)
      BY <1>9, <1>10
  <2>2. front.frames = repair \o datagram(FALSE) /\ front.fecFrames = datagram(TRUE)
      BY <1>0
  <2> HIDE DEF repair, datagram
  <2>3. repair \o datagram(FALSE) \in Seq(Frame)
      BY <2>1, BothLists, Zenon
  <2> QED
      BY <2>1, <2>2, <2>3
<1>12. ASSUME front.frames = <<>>, front.fecFrames = <<>> PROVE front.length = IF front.hasAck THEN AckLen ELSE 0
  <2>1. repair = <<>> /\ datagram(FALSE) = <<>> /\ datagram(TRUE) = <<>>
    <3>1. datagram(FALSE) \in Seq(Frame) /\ repair \in Seq(Frame)
        BY <1>9, <1>10
    <3>2. front.frames = repair \o datagram(FALSE) /\ front.fecFrames = datagram(TRUE)
        BY <1>0
    <3> HIDE DEF repair, datagram
    <3>3. repair \o datagram(FALSE) = <<>> /\ datagram(TRUE) = <<>>
        BY <1>12, <3>2
    <3> QED
        BY <3>1, <3>3, BothLists, Zenon
  <2>2. ~added
      BY <1>10, <2>1
  <2>3. ~fits
    <3> SUFFICES ASSUME fits PROVE FALSE
        OBVIOUS
    <3>1. d.fec = TRUE \/ d.fec = FALSE
        BY <1>7, Zenon
    <3> HIDE DEF d
    <3> QED
        BY <2>1, <3>1
  <2>4. front.length = used + 0
      BY <1>0, <2>3, Zenon
  <2> HIDE DEF used
  <2>5. front.length = ackLen
      BY <1>3, <1>5, <2>2, <2>4
  <2> QED
      BY <1>0, <2>5, Zenon
<1>13. front.datagrams \in Seq(DatagramToSend)
    BY <1>0, <1>1, <1>6
<1>14. FECDatagrams \subseteq {FALSE} => front.fecFrames = <<>>
  <2> SUFFICES ASSUME FECDatagrams \subseteq {FALSE}, fits, d.fec = TRUE PROVE FALSE
      BY <1>0
  <2>1. d.fec \in {FALSE}
      BY <1>7, Zenon
  <2> QED
      BY <2>1, Zenon
<1>15. front.noSpace => repairFrames # <<>> /\ ~(Head(repairFrames) <= m)
  <2>1. front.noSpace => hasRepair /\ ~added /\ ~hasAck
      BY <1>0
  <2>2. ~hasAck => m - ackLen = m
      BY <1>3
  <2> QED
      BY <2>1, <2>2
<1> QED
    BY <1>0, <1>2, <1>8, <1>11, <1>12, <1>13, <1>14, <1>15

\* The repair frame at the head of the queue is packed, or held back, or the packer fails.
LEMMA FrontRepair ==
    ASSUME NEW m, NEW allowed, NEW front, front = composeAckRepairDatagram(m, allowed), repairFrames # <<>>
    PROVE  front.repairFrames = Tail(repairFrames) \/ front.noSpace \/ front.heldBack
<1> DEFINE hasAck == GetAckFrame(allowed)
           added == Head(repairFrames) <= m - (IF hasAck THEN AckLen ELSE 0)
<1>1. front.repairFrames = IF added THEN Tail(repairFrames) ELSE repairFrames
    BY DEF composeAckRepairDatagram, afterPop
<1>2. (~added /\ ~hasAck => front.noSpace) /\ (~added /\ hasAck => front.heldBack)
    BY DEF composeAckRepairDatagram
<1> HIDE DEF added, hasAck
<1> QED
    BY <1>1, <1>2

\* The control frames fit in what is left, and the STREAM frames get the rest.
LEMMA ControlFacts ==
    ASSUME NEW front, NEW m \in Nat, front.maxFrameSize = m, front.length \in Nat, front.length <= m,
           appData \in Nat, controlFrames \in Nat, NEW ctl, ctl = composeControl(front)
    PROVE  /\ ctl.retransmitted \in Nat /\ ctl.retransmitted <= appData
           /\ ctl.control \in Nat /\ ctl.control <= controlFrames
           /\ ctl.length = front.length + ctl.retransmitted + ctl.control /\ ctl.length <= m
           /\ ctl.streamRoom = 0 \/ ctl.streamRoom <= m - ctl.length
           /\ fecSender => ctl.streamRoom = 0 \/ ctl.streamRoom = m - ctl.length - MaxFECHeaderOverhead
           /\ ctl.streamRoom \in Int
<1> DEFINE reserve == IF fecSender THEN MaxFECHeaderOverhead ELSE 0
           more == ~(front.hasAck /\ ~HasData /\ appData = 0)
           room == front.maxFrameSize - front.length
           retransmitted == IF more THEN Max2(0, Min2(appData, room - MinStreamFrameSize + 1)) ELSE 0
           control == IF more THEN Min2(controlFrames, room - retransmitted) ELSE 0
           used == front.length + retransmitted + control
<1>1. /\ ctl.retransmitted = retransmitted /\ ctl.control = control /\ ctl.length = used
      /\ ctl.streamRoom = IF more THEN front.maxFrameSize - used - reserve ELSE 0
    BY DEF composeControl, StreamRoom, AppendControlFrames
<1>6. reserve \in Nat /\ (fecSender => reserve = MaxFECHeaderOverhead)
    BY PackerConstants
<1> HIDE DEF reserve
<1>2. room \in Nat /\ room = m - front.length
    OBVIOUS
<1> HIDE DEF more, room
<1>3. retransmitted \in Nat /\ retransmitted <= appData /\ retransmitted <= room
    BY <1>2, PackerConstants DEF Max2, Min2
<1> HIDE DEF retransmitted
<1>4. control \in Nat /\ control <= controlFrames /\ retransmitted + control <= room
    BY <1>2, <1>3 DEF Min2
<1> HIDE DEF control
<1>5. used \in Nat /\ used <= m
    BY <1>2, <1>3, <1>4
<1> HIDE DEF used
<1> QED
    BY <1>1, <1>3, <1>4, <1>5, <1>6 DEF used

\* What composeNextPacket returns: it fits, in the types of the packer's state.
Payload(pl, m) ==
    /\ pl.length \in Nat /\ pl.length <= m
    /\ pl.hasAck \in BOOLEAN /\ pl.noSpace \in BOOLEAN
    /\ pl.frames \in Seq(Frame) /\ pl.fecFrames \in Seq(Frame) /\ pl.streamFrames \in Seq(Frame)
    /\ pl.streamQueue \in Seq(SendStreams) /\ pl.pending \in [SendStreams -> Nat]
    /\ pl.controlFrames \in Nat /\ pl.appData \in Nat /\ pl.datagrams \in Seq(DatagramToSend)
    /\ TotalLen(pl.fecFrames) \in Nat
    /\ onlyAck(pl) => pl.length = IF pl.hasAck THEN AckLen ELSE 0
    /\ pl.repairFrames = IF repairFrames # <<>> /\ Head(repairFrames) <= m - (IF pl.hasAck THEN AckLen ELSE 0)
                         THEN Tail(repairFrames) ELSE repairFrames
    /\ pl.noSpace => repairFrames # <<>> /\ ~(Head(repairFrames) <= m)
    /\ repairFrames # <<>> => pl.repairFrames = Tail(repairFrames) \/ pl.noSpace \/ pl.heldBack

\* Without FEC datagrams, what a fec.Sender protects leaves room for the FEC headers.
Protected(pl, m) ==
    /\ fecStreams = {} => pl.fecFrames = <<>>
    /\ pl.fecFrames # <<>> /\ fecSender =>
                              /\ pl.length + MaxFECHeaderOverhead <= m
                              /\ TotalLen(pl.fecFrames) + MaxFECHeaderOverhead <= m

\* Only the last frame of a list is not delimited.
Undelimited(streamFrames, fecFrames) ==
    /\ \A i \in DOMAIN streamFrames : ~streamFrames[i].dataLenPresent => i = Len(streamFrames) /\ fecFrames = <<>>
    /\ \A i \in DOMAIN fecFrames : ~fecFrames[i].dataLenPresent => i = Len(fecFrames)

\* composeNextPacket.
LEMMA PayloadFacts ==
    ASSUME PackTypeOK, NEW m \in Nat, NEW allowed \in BOOLEAN, m <= MaxFrameSize, allowed => m = MaxFrameSize,
           NEW front, front = composeAckRepairDatagram(m, allowed),
           NEW ctl, ctl = composeControl(front),
           NEW str, str = AppendStreamFrames(ctl.streamRoom),
           NEW pl, pl = composeNextPacket(front, ctl, str)
    PROVE  /\ Payload(pl, m)
           /\ FECDatagrams \subseteq {FALSE} => Protected(pl, m)
           /\ FECDatagrams \subseteq {FALSE} /\ fecStreams \in {{}, SendStreams} => Undelimited(pl.streamFrames, pl.fecFrames)
<1> DEFINE strFec == framesOf(str.frames, fecStreams)
           strPlain == framesOf(str.frames, SendStreams \ fecStreams)
           ctlFrames == Copies(ControlFrame, ctl.retransmitted + ctl.control)
<1>1. /\ streamQueue \in Seq(SendStreams) /\ pending \in [SendStreams -> Nat]
      /\ controlFrames \in Nat /\ appData \in Nat /\ fecStreams \subseteq SendStreams
    BY DEF PackTypeOK
<1>2. /\ front.maxFrameSize = m /\ front.length \in Nat /\ front.length <= m
      /\ front.hasAck \in BOOLEAN /\ front.noSpace \in BOOLEAN /\ front.discarded \in BOOLEAN
      /\ front.frames \in Seq(Frame) /\ front.fecFrames \in Seq(Frame)
      /\ (front.frames = <<>> /\ front.fecFrames = <<>> => front.length = IF front.hasAck THEN AckLen ELSE 0)
      /\ front.datagrams \in Seq(DatagramToSend)
      /\ front.repairFrames = (IF repairFrames # <<>> /\ Head(repairFrames) <= m - (IF front.hasAck THEN AckLen ELSE 0)
                              THEN Tail(repairFrames) ELSE repairFrames)
      /\ (front.noSpace => repairFrames # <<>> /\ ~(Head(repairFrames) <= m))
      /\ (FECDatagrams \subseteq {FALSE} => front.fecFrames = <<>>)
    BY FrontFacts, ZenonT(60)
<1>3. /\ ctl.retransmitted \in Nat /\ ctl.retransmitted <= appData
      /\ ctl.control \in Nat /\ ctl.control <= controlFrames
      /\ ctl.length = front.length + ctl.retransmitted + ctl.control /\ ctl.length <= m
      /\ (ctl.streamRoom = 0 \/ ctl.streamRoom <= m - ctl.length)
      /\ (fecSender => ctl.streamRoom = 0 \/ ctl.streamRoom = m - ctl.length - MaxFECHeaderOverhead)
      /\ ctl.streamRoom \in Int
  <2>1. appData \in Nat /\ controlFrames \in Nat /\ front.maxFrameSize = m /\ front.length \in Nat /\ front.length <= m
      BY <1>1, <1>2
  <2> QED
      BY <2>1, ControlFacts
<1>4. /\ str.queue \in Seq(SendStreams) /\ str.pending \in [SendStreams -> Nat]
      /\ str.frames \in Seq(PackedFrame) /\ str.length \in Nat
      /\ TotalLen(str.frames) = str.length
      /\ (str.frames = <<>> => str.length = 0)
      /\ (str.frames # <<>> => MinStreamFrameSize <= ctl.streamRoom /\ str.length <= ctl.streamRoom)
      /\ \A i \in 1 .. Len(str.frames) : i # Len(str.frames) => str.frames[i].dataLenPresent
    BY <1>1, <1>3, StreamFramesFit, Zenon
<1>5. /\ pl.noSpace = front.noSpace /\ pl.heldBack = front.heldBack /\ pl.length = ctl.length + str.length /\ pl.hasAck = front.hasAck
      /\ pl.frames = front.frames \o ctlFrames /\ pl.fecFrames = front.fecFrames \o strFec
      /\ pl.streamFrames = strPlain /\ pl.streamQueue = str.queue /\ pl.pending = str.pending
      /\ pl.controlFrames = controlFrames - ctl.control /\ pl.appData = appData - ctl.retransmitted
      /\ pl.datagrams = front.datagrams /\ pl.repairFrames = front.repairFrames
    BY DEF composeNextPacket
<1>6. ctl.length \in Nat /\ pl.length \in Nat /\ pl.length <= m
      /\ (str.frames # <<>> /\ fecSender => pl.length + MaxFECHeaderOverhead <= m /\ str.length + MaxFECHeaderOverhead <= m)
  <2>1. CASE str.frames = <<>>
    <3>1. str.length = 0 /\ pl.length = ctl.length + str.length
        BY <1>4, <1>5, <2>1
    <3>2. ctl.length \in Nat /\ ctl.length <= m
      <4>1. front.length \in Nat
          BY <1>2
      <4> QED
          BY <1>3, <4>1
    <3>3. pl.length = ctl.length
        BY <3>1, <3>2
    <3> QED
        BY <2>1, <3>2, <3>3
  <2>2. CASE str.frames # <<>>
    <3>1. ctl.streamRoom <= m - ctl.length /\ (fecSender => ctl.streamRoom = m - ctl.length - MaxFECHeaderOverhead)
        BY <1>3, <1>4, <2>2, PackerConstants
    <3>2. /\ str.length <= m - ctl.length /\ ctl.length \in Nat
          /\ (fecSender => str.length <= m - ctl.length - MaxFECHeaderOverhead)
      <4>1. ctl.length \in Nat
          BY <1>2, <1>3
      <4>2. str.length <= ctl.streamRoom /\ str.length \in Nat /\ ctl.streamRoom \in Int
          BY <1>3, <1>4, <2>2
      <4> QED
          BY <3>1, <4>1, <4>2, PackerConstants
    <3> QED
        BY SMTT(60), <1>4, <1>5, <3>2, PackerConstants
  <2> QED
      BY <2>1, <2>2
<1>7. pl.controlFrames \in Nat /\ pl.appData \in Nat
    BY <1>1, <1>3, <1>5
<1>8. /\ str.frames \in Seq(Frame) /\ \A i \in 1 .. Len(str.frames) : str.frames[i].id \in SendStreams
  <2>1. \A i \in 1 .. Len(str.frames) : str.frames[i] \in PackedFrame
      BY <1>4
  <2>2. PackedFrame \subseteq Frame /\ \A x \in PackedFrame : x.id \in SendStreams
      BY FrameTypes DEF PackedFrame
  <2> QED
      BY <1>4, <2>1, <2>2
<1>9. \A x \in Frame : x.len \in Nat
    BY FrameTypes
<1>10. /\ strFec \in Seq(Frame) /\ TotalLen(strFec) <= str.length
       /\ strPlain \in Seq(Frame)
    BY <1>4, <1>8, <1>9, FramesOfShorter
<1>11. ctlFrames \in Seq(Frame) /\ (ctlFrames = <<>> => ctl.retransmitted = 0 /\ ctl.control = 0)
  <2>1. PICK n \in Nat : n = ctl.retransmitted + ctl.control
      BY <1>3
  <2>2. Copies(ControlFrame, n) \in Seq(Frame) /\ Len(Copies(ControlFrame, n)) = n
      BY FrameTypes DEF Copies
  <2>3. ctlFrames = <<>> => n = 0
      BY <2>1, <2>2
  <2> QED
      BY <1>3, <2>1, <2>2, <2>3
<1> HIDE DEF ctlFrames
<1>12. pl.frames \in Seq(Frame) /\ pl.fecFrames \in Seq(Frame) /\ pl.streamFrames \in Seq(Frame)
  <2>1. front.frames \o ctlFrames \in Seq(Frame) /\ front.fecFrames \o strFec \in Seq(Frame)
      BY <1>2, <1>10, <1>11, BothLists, Zenon
  <2> HIDE DEF strFec, strPlain
  <2> QED
      BY <1>5, <1>10, <2>1
<1>13. TotalLen(pl.fecFrames) \in Nat
    BY <1>9, <1>12, TotalLenType
<1>14. ASSUME onlyAck(pl) PROVE pl.length = IF pl.hasAck THEN AckLen ELSE 0
  <2>1. front.frames = <<>> /\ ctlFrames = <<>> /\ front.fecFrames = <<>> /\ strFec = <<>> /\ strPlain = <<>>
    <3>1. front.frames \o ctlFrames = <<>> /\ front.fecFrames \o strFec = <<>> /\ strPlain = <<>>
        BY <1>5, <1>14, Zenon DEF onlyAck
    <3>2. front.frames \in Seq(Frame) /\ front.fecFrames \in Seq(Frame) /\ strFec \in Seq(Frame) /\ ctlFrames \in Seq(Frame)
        BY <1>2, <1>10, <1>11
    <3> HIDE DEF strFec, strPlain
    <3>3. front.frames = <<>> /\ ctlFrames = <<>>
        BY <3>1, <3>2, BothLists, Zenon
    <3>4. front.fecFrames = <<>> /\ strFec = <<>>
        BY <3>1, <3>2, BothLists, Zenon
    <3> QED
        BY <3>1, <3>3, <3>4
  <2>2. str.frames = <<>>
    <3>1. \A i \in 1 .. Len(str.frames) : str.frames[i].id \in fecStreams \cup (SendStreams \ fecStreams)
        BY <1>8
    <3> QED
        BY <1>8, <1>9, <2>1, <3>1, FramesOfSplit
  <2>3. str.length = 0 /\ ctl.retransmitted = 0 /\ ctl.control = 0
      BY <1>4, <1>11, <2>1, <2>2
  <2>4. pl.length = front.length
      BY <1>2, <1>3, <1>5, <2>3
  <2> QED
      BY <1>2, <1>5, <2>1, <2>4, Zenon
<1>15. Payload(pl, m)
  <2>1. /\ pl.hasAck \in BOOLEAN /\ pl.noSpace \in BOOLEAN
        /\ pl.streamQueue \in Seq(SendStreams) /\ pl.pending \in [SendStreams -> Nat] /\ pl.datagrams \in Seq(DatagramToSend)
        /\ pl.repairFrames = (IF repairFrames # <<>> /\ Head(repairFrames) <= m - (IF pl.hasAck THEN AckLen ELSE 0)
                             THEN Tail(repairFrames) ELSE repairFrames)
        /\ (pl.noSpace => repairFrames # <<>> /\ ~(Head(repairFrames) <= m))
      BY <1>2, <1>4, <1>5, ZenonT(60)
  <2>2. repairFrames # <<>> => pl.repairFrames = Tail(repairFrames) \/ pl.noSpace \/ pl.heldBack
      BY <1>5, FrontRepair
  <2> QED
      BY <1>6, <1>7, <1>12, <1>13, <1>14, <2>1, <2>2, Zenon DEF Payload
<1>16. ASSUME FECDatagrams \subseteq {FALSE} PROVE pl.fecFrames = strFec
  <2>1. front.fecFrames = <<>>
      BY <1>2, <1>16
  <2>2. pl.fecFrames = front.fecFrames \o strFec
      BY <1>5
  <2>3. <<>> \o strFec = strFec
      BY <1>10
  <2> HIDE DEF strFec
  <2> QED
      BY <2>1, <2>2, <2>3
<1>17. ASSUME FECDatagrams \subseteq {FALSE} PROVE Protected(pl, m)
  <2>1. fecStreams = {} => strFec = <<>>
      BY <1>8, FramesOfNone
  <2>2. str.frames = <<>> => strFec = <<>>
    <3>1. str.frames = <<>> => \A i \in 1 .. Len(str.frames) : str.frames[i].id \notin fecStreams
        BY <1>8
    <3> QED
        BY <1>8, <3>1, FramesOfNone
  <2>3. TotalLen(strFec) \in Nat
      BY <1>13, <1>16, <1>17
  <2> HIDE DEF strFec
  <2>4. strFec # <<>> /\ fecSender => TotalLen(strFec) + MaxFECHeaderOverhead <= m /\ pl.length + MaxFECHeaderOverhead <= m
      BY <1>4, <1>6, <1>10, <2>2, <2>3, PackerConstants
  <2> QED
      BY <1>16, <1>17, <2>1, <2>4 DEF Protected
<1>18. ASSUME FECDatagrams \subseteq {FALSE}, fecStreams \in {{}, SendStreams} PROVE Undelimited(pl.streamFrames, pl.fecFrames)
  <2>0. \A i \in DOMAIN str.frames : ~str.frames[i].dataLenPresent => i = Len(str.frames)
      BY SMTT(60), <1>4
  <2>1. pl.fecFrames = strFec /\ pl.streamFrames = strPlain
      BY <1>5, <1>16, <1>18
  <2>2. CASE fecStreams = {}
    <3>1. strFec = <<>>
        BY <1>8, <2>2, FramesOfNone
    <3>2. strPlain = str.frames
        BY <1>8, <2>2, FramesOfAll
    <3>3. \A i \in DOMAIN <<>> : FALSE
        OBVIOUS
    <3> HIDE DEF strFec, strPlain
    <3> QED
        BY <2>0, <2>1, <3>1, <3>2, <3>3 DEF Undelimited
  <2>3. CASE fecStreams = SendStreams
    <3>1. strFec = str.frames
        BY <1>8, <2>3, FramesOfAll
    <3>2. strPlain = <<>>
        BY <1>8, <2>3, FramesOfNone
    <3>3. \A i \in DOMAIN <<>> : FALSE
        OBVIOUS
    <3> HIDE DEF strFec, strPlain
    <3> QED
        BY <2>0, <2>1, <3>1, <3>2, <3>3 DEF Undelimited
  <2> QED
      BY <1>18, <2>2, <2>3
<1> QED
    BY <1>15, <1>17, <1>18

\* What PackWithin does with the payload that was composed and the source symbol that was added.
Packs(pl, added) ==
    LET ping == needsPing(pl)
        size == pl.length + (IF pl.fecFrames # <<>> THEN SourceSymbolHeader ELSE 0)
                          + (IF ping THEN 1 ELSE 0)
        outcome == PackOutcome(pl, added, size)
    IN  /\ status = "ok"
        /\ pl.length > 0 \/ pl.noSpace \/ pl.discarded \/ pl.streamQueue # streamQueue
        /\ status' = outcome
        /\ packet' = IF outcome # "ok" \/ pl.length = 0 THEN NoPacket
                     ELSE [hasAck |-> pl.hasAck,
                           frames |-> IF ping THEN Append(pl.frames, ControlFrame) ELSE pl.frames,
                           streamFrames |-> pl.streamFrames, fecFrames |-> pl.fecFrames,
                           size |-> size]
        /\ streamQueue' = pl.streamQueue
        /\ pending' = pl.pending
        /\ controlFrames' = pl.controlFrames
        /\ appData' = pl.appData
        /\ datagrams' = pl.datagrams
        /\ block' = added.block
        /\ repairFrames' = IF outcome \in {"ok", "packet too large"} THEN pl.repairFrames \o added.repairs
                           ELSE pl.repairFrames
        /\ heldBack' = IF pl.repairFrames = <<>> THEN 0
                       ELSE IF pl.heldBack THEN heldBack + 1 ELSE heldBack
        /\ ack' = IF pl.hasAck THEN "none" ELSE ack
        /\ nonAckEliciting' = IF pl.length = 0 THEN nonAckEliciting
                              ELSE IF onlyAck(pl) /\ ~ping THEN nonAckEliciting + 1 ELSE 0
        /\ UNCHANGED <<fecStreams, fecSender, confirmed, inputs>>

AddedTo(pl) == IF pl.fecFrames = <<>> \/ ~fecSender THEN [block |-> block, repairs |-> <<>>]
               ELSE AddSourceSymbolFrame(TotalLen(pl.fecFrames))

\* A step of the packer: a payload with the facts above.
LEMMA PackStep ==
    ASSUME PackTypeOK, NEW occupied \in 0 .. MaxFrameSize, PackWithin(occupied)
    PROVE  \E pl : /\ Packs(pl, AddedTo(pl))
                   /\ Payload(pl, MaxFrameSize - occupied)
                   /\ FECDatagrams \subseteq {FALSE} => Protected(pl, MaxFrameSize - occupied)
                   /\ FECDatagrams \subseteq {FALSE} /\ fecStreams \in {{}, SendStreams} => Undelimited(pl.streamFrames, pl.fecFrames)
<1>1. PICK front \in {composeAckRepairDatagram(MaxFrameSize - occupied, occupied = 0)} :
        \E ctl \in {composeControl(front)} :
        \E str \in {AppendStreamFrames(ctl.streamRoom)} :
        \E pl \in {composeNextPacket(front, ctl, str)} :
        \E added \in {IF pl.fecFrames = <<>> \/ ~fecSender THEN [block |-> block, repairs |-> <<>>]
                      ELSE AddSourceSymbolFrame(TotalLen(pl.fecFrames))} : Packs(pl, added)
    BY Zenon DEF PackWithin, Packs
<1>2. PICK ctl \in {composeControl(front)} :
        \E str \in {AppendStreamFrames(ctl.streamRoom)} :
        \E pl \in {composeNextPacket(front, ctl, str)} : Packs(pl, AddedTo(pl))
    BY <1>1, Zenon DEF AddedTo
<1>3. PICK str \in {AppendStreamFrames(ctl.streamRoom)} :
        \E pl \in {composeNextPacket(front, ctl, str)} : Packs(pl, AddedTo(pl))
    BY <1>2, Zenon
<1>4. PICK pl \in {composeNextPacket(front, ctl, str)} : Packs(pl, AddedTo(pl))
    BY <1>3, Zenon
<1>5. PICK m \in Nat : m = MaxFrameSize - occupied
    BY PackerConstants
<1> DEFINE allowed == occupied = 0
<1>6. allowed \in BOOLEAN
    BY Zenon
<1>7. m <= MaxFrameSize /\ (allowed => m = MaxFrameSize)
    BY <1>5, PackerConstants
<1>8. front = composeAckRepairDatagram(m, allowed) /\ ctl = composeControl(front)
      /\ str = AppendStreamFrames(ctl.streamRoom) /\ pl = composeNextPacket(front, ctl, str)
    BY <1>5, Zenon
<1> HIDE DEF allowed
<1>9. /\ Payload(pl, m) /\ (FECDatagrams \subseteq {FALSE} => Protected(pl, m))
      /\ (FECDatagrams \subseteq {FALSE} /\ fecStreams \in {{}, SendStreams} => Undelimited(pl.streamFrames, pl.fecFrames))
    BY <1>6, <1>7, <1>8, PayloadFacts, Zenon
<1> QED
    BY <1>4, <1>5, <1>9, Zenon

\* AddSourceSymbolFrame: a payload more in the block, or the repair frames of a block that is complete.
LEMMA AddedFacts ==
    ASSUME block \in Seq(Nat), Len(block) < totNumSourceSymbols, NEW p \in Nat,
           NEW a, a = AddSourceSymbolFrame(p)
    PROVE  /\ a.block \in Seq(Nat) /\ Len(a.block) < totNumSourceSymbols /\ a.repairs \in Seq(Nat)
           /\ \/ /\ a.block = Append(block, p) /\ a.repairs = <<>>
              \/ /\ a.block = <<>> /\ Len(a.repairs) = totNumRepairSymbols /\ Len(block) + 1 >= totNumSourceSymbols
           /\ \A B \in Nat : (\A i \in 1 .. Len(block) : block[i] <= B) /\ p <= B
                  => /\ \A i \in 1 .. Len(a.block) : a.block[i] <= B
                     /\ \A i \in 1 .. Len(a.repairs) : a.repairs[i] <= B + RepairOverhead
<1> DEFINE filled == Append(block, p)
           big == biggestSourceSymbol(filled)
<1>1. /\ filled \in Seq(Nat) /\ Len(filled) = Len(block) + 1 /\ Len(block) \in Nat
      /\ \A i \in 1 .. Len(filled) : filled[i] = IF i = Len(block) + 1 THEN p ELSE block[i]
    OBVIOUS
<1>2. ASSUME NEW B \in Nat, \A i \in 1 .. Len(block) : block[i] <= B, p <= B
      PROVE  (\A i \in 1 .. Len(filled) : filled[i] <= B) /\ big \in 0 .. B
  <2>1. \A i \in 1 .. Len(filled) : filled[i] <= B
      BY <1>1, <1>2
  <2> HIDE DEF filled
  <2> QED
      BY <1>1, <2>1, BiggestBound
<1>3. \E B \in Nat : (\A i \in 1 .. Len(block) : block[i] <= B) /\ p <= B
  <2> DEFINE Above(s, B) == \A i \in 1 .. Len(s) : s[i] <= B
             T == [n \in 0 .. Len(block) |-> {B \in Nat : p <= B /\ \A i \in 1 .. n : block[i] <= B}]
             c == [n \in 0 .. Len(block) |-> CHOOSE B : B \in T[n]]
  <2>1. \A n \in 0 .. Len(block) : \A B : B \in T[n] <=> B \in Nat /\ p <= B /\ \A i \in 1 .. n : block[i] <= B
      OBVIOUS
  <2>2. \A n \in 0 .. Len(block) : (\E B : B \in T[n]) => c[n] \in T[n]
    <3> HIDE DEF T
    <3> QED
        OBVIOUS
  <2> HIDE DEF T, c
  <2>3. c[0] \in T[0]
    <3>1. 0 \in 0 .. Len(block) /\ p <= p
        BY <1>1
    <3>2. p \in T[0]
        BY <2>1, <3>1
    <3> QED
        BY <2>2, <3>1, <3>2
  <2>4. ASSUME NEW n \in 1 .. Len(block), c[n - 1] \in T[n - 1] PROVE c[n] \in T[n]
    <3> DEFINE B == c[n - 1]
               D == Max2(B, block[n])
    <3>1. n - 1 \in 0 .. Len(block) /\ n \in 0 .. Len(block)
        BY <1>1
    <3>2. B \in Nat /\ p <= B /\ \A i \in 1 .. (n - 1) : block[i] <= B
        BY <2>1, <2>4, <3>1
    <3> HIDE DEF B
    <3>3. block[n] \in Nat
        OBVIOUS
    <3>4. D \in Nat /\ B <= D /\ block[n] <= D /\ p <= D
        BY <3>2, <3>3 DEF Max2
    <3> HIDE DEF D
    <3>5. \A i \in 1 .. n : block[i] <= D
      <4> TAKE i \in 1 .. n
      <4>1. CASE i = n
          BY <3>4, <4>1
      <4>2. CASE i # n
        <5>1. i \in 1 .. (n - 1) /\ block[i] \in Nat
            BY <4>2
        <5> QED
            BY <3>2, <3>4, <5>1
      <4> QED
          BY <4>1, <4>2
    <3>6. D \in T[n]
        BY <2>1, <3>1, <3>4, <3>5
    <3> QED
        BY <2>2, <3>1, <3>6
  <2>5. \A n \in 0 .. Len(block) : c[n] \in T[n]
      BY <1>1, <2>3, <2>4, RoundsKeep
  <2>6. Len(block) \in 0 .. Len(block)
      BY <1>1
  <2> QED
      BY <2>1, <2>5, <2>6
<1>4. big \in Nat
  <2>1. PICK B \in Nat : (\A i \in 1 .. Len(block) : block[i] <= B) /\ p <= B
      BY <1>3
  <2>2. big \in 0 .. B
      BY <1>2, <2>1
  <2> HIDE DEF big
  <2> QED
      BY <2>2
<1> HIDE DEF big
<1>5. CASE Len(filled) < totNumSourceSymbols
  <2>1. a.block = filled /\ a.repairs = <<>>
      BY <1>5 DEF AddSourceSymbolFrame
  <2> HIDE DEF filled
  <2> QED
      BY <1>1, <1>2, <1>5, <2>1 DEF filled
<1>6. CASE ~(Len(filled) < totNumSourceSymbols)
  <2>1. a.block = <<>> /\ a.repairs = Copies(big + RepairOverhead, totNumRepairSymbols)
      BY <1>6 DEF AddSourceSymbolFrame, big
  <2>2. /\ a.repairs \in Seq(Nat) /\ Len(a.repairs) = totNumRepairSymbols
        /\ \A i \in 1 .. Len(a.repairs) : a.repairs[i] = big + RepairOverhead
    <3>1. PICK v \in Nat : v = big + RepairOverhead
        BY <1>4, PackerConstants
    <3>2. PICK n \in Nat : n = totNumRepairSymbols
        BY PackerConstants
    <3>3. a.repairs = [i \in 1 .. n |-> v]
        BY <2>1, <3>1, <3>2 DEF Copies
    <3>4. a.repairs \in Seq(Nat) /\ Len(a.repairs) = n /\ \A i \in 1 .. Len(a.repairs) : a.repairs[i] = v
        BY <3>3
    <3> QED
        BY <3>1, <3>2, <3>4
  <2>3. Len(block) + 1 >= totNumSourceSymbols
      BY <1>1, <1>6, PackerConstants
  <2>4. \A B \in Nat : big \in 0 .. B => \A i \in 1 .. Len(a.repairs) : a.repairs[i] <= B + RepairOverhead
      BY <1>4, <2>2, PackerConstants
  <2>5. a.block \in Seq(Nat) /\ Len(a.block) < totNumSourceSymbols /\ \A i \in 1 .. Len(a.block) : FALSE
      BY <2>1, PackerConstants
  <2> QED
      BY <1>2, <2>1, <2>2, <2>3, <2>4, <2>5
<1> QED
    BY <1>5, <1>6

\* The connection uses none of the datagrams that are FEC protected.
PlainDatagrams == FECDatagrams \subseteq {FALSE}

\* No stream opened with FEC has data before the handshake is confirmed.
FECAfterHandshake == ~EarlyFEC

\* The streams are opened all with FEC or all without.
StreamsOfOneKind == FECStreamSets \subseteq {{}, SendStreams}

\* The code has no more repair symbols than source symbols.
FewRepairSymbols == totNumRepairSymbols <= totNumSourceSymbols

\* The type of the state; and streams that use FEC wait for the end of the handshake.
PackTypeInv ==
    /\ PackTypeOK
    /\ fecStreams \in FECStreamSets
    /\ FECAfterHandshake /\ fecStreams # {} => confirmed

\* What the source and repair symbols that wait leave free in a packet.
SymbolsFit ==
    /\ fecStreams = {} => block = <<>> /\ repairFrames = <<>>
    /\ \A i \in 1 .. Len(block) : block[i] + MaxFECHeaderOverhead <= MaxFrameSize
    /\ \A i \in 1 .. Len(repairFrames) : repairFrames[i] + MaxFECHeaderOverhead <= MaxFrameSize + RepairOverhead
    /\ PacketFits

\* Each packet that adds to the block takes a repair frame with it, or is one that an ACK held back.
RepairsLag ==
    /\ RepairsLagBehindACKs
    /\ status = "ok" => repairFrames = <<>> \/ Len(repairFrames) + Len(block) <= totNumRepairSymbols + heldBack

PacketType == [hasAck : BOOLEAN, frames : Seq(Frame), streamFrames : Seq(Frame), fecFrames : Seq(Frame), size : Nat]

\* What PackOutcome says of the packet.
LEMMA OutcomeFacts ==
    ASSUME NEW pl, NEW added, NEW size, NEW o, o = PackOutcome(pl, added, size)
    PROVE  /\ o \in {"ok", "no space for repair frame", "no fec.Sender", "repair queue full", "packet too large"}
           /\ pl.noSpace => o = "no space for repair frame"
           /\ o = "packet too large" => pl.fecFrames = <<>> \/ fecSender
           /\ o = "no space for repair frame" => pl.noSpace
           /\ o = "repair queue full" => Len(pl.repairFrames) + Len(added.repairs) > maxRepairSendQueueLen
           /\ o = "packet too large" => size > MaxFrameSize
           /\ o \in {"ok", "packet too large"} => ~(Len(pl.repairFrames) + Len(added.repairs) > maxRepairSendQueueLen)
<1>1. CASE pl.noSpace
  <2>1. o = "no space for repair frame"
      BY <1>1 DEF PackOutcome, AddPanics
  <2> QED
      BY <1>1, <2>1
<1>5. CASE ~pl.noSpace /\ pl.fecFrames # <<>> /\ ~fecSender
  <2>1. o = "no fec.Sender"
      BY <1>5 DEF PackOutcome, AddPanics
  <2> QED
      BY <1>5, <2>1
<1> DEFINE may == ~pl.noSpace /\ ~(pl.fecFrames # <<>> /\ ~fecSender)
<1>2. CASE may /\ Len(pl.repairFrames) + Len(added.repairs) > maxRepairSendQueueLen
  <2>1. o = "repair queue full"
      BY <1>2 DEF PackOutcome, AddPanics
  <2> QED
      BY <1>2, <2>1
<1>3. CASE may /\ ~(Len(pl.repairFrames) + Len(added.repairs) > maxRepairSendQueueLen) /\ size > MaxFrameSize
  <2>1. o = "packet too large"
      BY <1>3 DEF PackOutcome, AddPanics
  <2> QED
      BY <1>3, <2>1
<1>4. CASE may /\ ~(Len(pl.repairFrames) + Len(added.repairs) > maxRepairSendQueueLen) /\ ~(size > MaxFrameSize)
  <2>1. o = "ok"
      BY <1>4 DEF PackOutcome, AddPanics
  <2> QED
      BY <1>4, <2>1
<1> QED
    BY <1>1, <1>2, <1>3, <1>4, <1>5

\* The repair frames that stay are some of those that waited, and the symbols are of the right type.
LEMMA SymbolFacts ==
    ASSUME PackTypeOK, NEW pl, NEW m \in Nat, Payload(pl, m), NEW added, added = AddedTo(pl)
    PROVE  /\ pl.repairFrames \in Seq(Nat) /\ Len(pl.repairFrames) <= Len(repairFrames)
           /\ \A i \in 1 .. Len(pl.repairFrames) : \E j \in 1 .. Len(repairFrames) : pl.repairFrames[i] = repairFrames[j]
           /\ added.block \in Seq(Nat) /\ Len(added.block) < totNumSourceSymbols /\ added.repairs \in Seq(Nat)
<1>1. repairFrames \in Seq(Nat) /\ block \in Seq(Nat) /\ Len(block) < totNumSourceSymbols
    BY DEF PackTypeOK
<1>2. (pl.repairFrames = Tail(repairFrames) /\ repairFrames # <<>>) \/ pl.repairFrames = repairFrames
    BY DEF Payload
<1>3. /\ pl.repairFrames \in Seq(Nat) /\ Len(pl.repairFrames) <= Len(repairFrames)
      /\ \A i \in 1 .. Len(pl.repairFrames) : \E j \in 1 .. Len(repairFrames) : pl.repairFrames[i] = repairFrames[j]
  <2>1. CASE pl.repairFrames = repairFrames
      BY SMTT(60), <1>1, <2>1
  <2>2. CASE pl.repairFrames = Tail(repairFrames) /\ repairFrames # <<>>
    <3>1. /\ Tail(repairFrames) \in Seq(Nat) /\ Len(Tail(repairFrames)) = Len(repairFrames) - 1 /\ Len(repairFrames) \in Nat
          /\ \A i \in 1 .. Len(Tail(repairFrames)) : Tail(repairFrames)[i] = repairFrames[i + 1]
        BY <1>1, <2>2
    <3>2. \A i \in 1 .. Len(Tail(repairFrames)) : i + 1 \in 1 .. Len(repairFrames)
        BY <3>1
    <3> QED
        BY <2>2, <3>1, <3>2
  <2> QED
      BY <1>2, <2>1, <2>2
<1>4. added.block \in Seq(Nat) /\ Len(added.block) < totNumSourceSymbols /\ added.repairs \in Seq(Nat)
  <2>1. CASE pl.fecFrames = <<>> \/ ~fecSender
    <3>1. added.block = block /\ added.repairs = <<>>
        BY <2>1 DEF AddedTo
    <3> QED
        BY <1>1, <3>1
  <2>2. CASE ~(pl.fecFrames = <<>> \/ ~fecSender)
    <3>1. added = AddSourceSymbolFrame(TotalLen(pl.fecFrames)) /\ TotalLen(pl.fecFrames) \in Nat
        BY <2>2 DEF AddedTo, Payload
    <3> QED
        BY <1>1, <3>1, AddedFacts
  <2> QED
      BY <2>1, <2>2
<1> QED
    BY <1>3, <1>4

\* The type of the state after a packet.
LEMMA PackTyped ==
    ASSUME PackTypeOK, NEW pl, NEW m \in Nat, Payload(pl, m), Packs(pl, AddedTo(pl))
    PROVE  PackTypeOK'
<1> DEFINE added == AddedTo(pl)
           ping == needsPing(pl)
           size == pl.length + (IF pl.fecFrames # <<>> THEN SourceSymbolHeader ELSE 0) + (IF ping THEN 1 ELSE 0)
           o == PackOutcome(pl, added, size)
           sent == [hasAck |-> pl.hasAck, frames |-> IF ping THEN Append(pl.frames, ControlFrame) ELSE pl.frames,
                    streamFrames |-> pl.streamFrames, fecFrames |-> pl.fecFrames, size |-> size]
<1>1. /\ status' = o /\ packet' = (IF o # "ok" \/ pl.length = 0 THEN NoPacket ELSE sent)
      /\ repairFrames' = (IF o \in {"ok", "packet too large"} THEN pl.repairFrames \o added.repairs ELSE pl.repairFrames)
      /\ heldBack' = (IF pl.repairFrames = <<>> THEN 0 ELSE IF pl.heldBack THEN heldBack + 1 ELSE heldBack)
      /\ ack' = (IF pl.hasAck THEN "none" ELSE ack)
      /\ nonAckEliciting' = (IF pl.length = 0 THEN nonAckEliciting
                             ELSE IF onlyAck(pl) /\ ~ping THEN nonAckEliciting + 1 ELSE 0)
    BY Zenon DEF Packs
<1>2. /\ streamQueue' = pl.streamQueue /\ pending' = pl.pending /\ controlFrames' = pl.controlFrames
      /\ appData' = pl.appData /\ datagrams' = pl.datagrams /\ block' = added.block
      /\ UNCHANGED <<fecStreams, fecSender, confirmed, inputs>>
    BY Zenon DEF Packs
<1>3. /\ fecStreams \subseteq SendStreams /\ fecSender \in BOOLEAN /\ heldBack \in Nat
      /\ confirmed \in BOOLEAN /\ inputs \in 0 .. MaxInputs
      /\ nonAckEliciting \in 0 .. MaxNonAckElicitingAcks /\ ack \in {"none", "held", "queued"}
      /\ repairFrames \in Seq(Nat) /\ Len(repairFrames) <= maxRepairSendQueueLen
    BY DEF PackTypeOK
<1>4. /\ pl.length \in Nat /\ pl.hasAck \in BOOLEAN /\ pl.frames \in Seq(Frame) /\ pl.fecFrames \in Seq(Frame)
      /\ pl.streamFrames \in Seq(Frame) /\ pl.streamQueue \in Seq(SendStreams) /\ pl.pending \in [SendStreams -> Nat]
      /\ pl.controlFrames \in Nat /\ pl.appData \in Nat /\ pl.datagrams \in Seq(DatagramToSend)
      /\ (onlyAck(pl) => pl.length = IF pl.hasAck THEN AckLen ELSE 0)
    BY Zenon DEF Payload
<1>5. /\ pl.repairFrames \in Seq(Nat) /\ added.repairs \in Seq(Nat) /\ added.block \in Seq(Nat) /\ Len(added.block) < totNumSourceSymbols
      /\ Len(pl.repairFrames) <= Len(repairFrames)
    BY SymbolFacts
<1>6. size \in Nat
  <2> HIDE DEF ping
  <2> QED
      BY SMTT(60), <1>4, PackerConstants
<1>7. nonAckEliciting' \in 0 .. MaxNonAckElicitingAcks
  <2>1. CASE pl.length # 0 /\ onlyAck(pl) /\ ~ping
    <3>1. pl.hasAck
        BY <1>4, <2>1
    <3>2. ~(nonAckEliciting >= MaxNonAckElicitingAcks)
        BY <2>1, <3>1 DEF needsPing
    <3>3. nonAckEliciting' = nonAckEliciting + 1
        BY <1>1, <2>1
    <3> QED
        BY <1>3, <3>2, <3>3, PackerConstants
  <2>2. CASE ~(pl.length # 0 /\ onlyAck(pl) /\ ~ping)
    <3>1. nonAckEliciting' = nonAckEliciting \/ nonAckEliciting' = 0
        BY <1>1, <2>2
    <3> QED
        BY <1>3, <3>1, PackerConstants
  <2> QED
      BY <2>1, <2>2
<1> HIDE DEF added, size
<1>8. o \in {"ok", "no space for repair frame", "no fec.Sender", "repair queue full", "packet too large"}
      /\ (o \in {"ok", "packet too large"} => ~(Len(pl.repairFrames) + Len(added.repairs) > maxRepairSendQueueLen))
    BY OutcomeFacts
<1> HIDE DEF o, ping
<1>9. repairFrames' \in Seq(Nat) /\ Len(repairFrames') <= maxRepairSendQueueLen
  <2>1. CASE o \in {"ok", "packet too large"}
    <3> DEFINE s == pl.repairFrames
               t == added.repairs
    <3>1. s \in Seq(Nat) /\ t \in Seq(Nat) /\ ~(Len(s) + Len(t) > maxRepairSendQueueLen) /\ repairFrames' = s \o t
        BY <1>1, <1>5, <1>8, <2>1
    <3> HIDE DEF s, t
    <3>2. s \o t \in Seq(Nat) /\ Len(s \o t) = Len(s) + Len(t)
        BY <3>1
    <3> QED
        BY <3>1, <3>2, PackerConstants
  <2>2. CASE o \notin {"ok", "packet too large"}
    <3>1. repairFrames' = pl.repairFrames
        BY <1>1, <2>2
    <3> QED
        BY <1>3, <1>5, <3>1, PackerConstants
  <2> QED
      BY <2>1, <2>2
<1>10. packet' \in PacketType
  <2>1. NoPacket \in PacketType
    <3>1. <<>> \in Seq(Frame) /\ 0 \in Nat
        OBVIOUS
    <3> QED
        BY <3>1, Zenon DEF NoPacket, PacketType
  <2>2. (IF ping THEN Append(pl.frames, ControlFrame) ELSE pl.frames) \in Seq(Frame)
    <3>1. Append(pl.frames, ControlFrame) \in Seq(Frame)
        BY <1>4, FrameTypes
    <3> QED
        BY <1>4, <3>1
  <2>3. sent \in PacketType
      BY <1>4, <1>6, <2>2, Zenon DEF PacketType
  <2> HIDE DEF sent
  <2> QED
      BY <1>1, <2>1, <2>3
<1>11. /\ confirmed' \in BOOLEAN /\ fecSender' \in BOOLEAN
       /\ status' \in {"ok", "no space for repair frame", "no fec.Sender", "repair queue full", "packet too large"}
    BY <1>1, <1>2, <1>3, <1>8
<1>12. ack' \in {"none", "held", "queued"} /\ fecStreams' \subseteq SendStreams /\ inputs' \in 0 .. MaxInputs
    BY <1>1, <1>2, <1>3
<1>13. /\ pending' \in [SendStreams -> Nat] /\ streamQueue' \in Seq(SendStreams)
       /\ controlFrames' \in Nat /\ appData' \in Nat /\ datagrams' \in Seq(DatagramToSend)
       /\ block' \in Seq(Nat) /\ Len(block') < totNumSourceSymbols
    BY <1>2, <1>4, <1>5
<1>14. heldBack' \in Nat
  <2>1. heldBack' = 0 \/ heldBack' = heldBack + 1 \/ heldBack' = heldBack
      BY <1>1, Zenon
  <2> QED
      BY <1>3, <2>1
<1> QED
    BY <1>7, <1>9, <1>10, <1>11, <1>12, <1>13, <1>14, Zenon DEF PackTypeOK, PacketType, DatagramToSend

\* A packet fits, and so do the symbols that it adds.
LEMMA PackFits ==
    ASSUME PackTypeInv, SymbolsFit, PlainDatagrams, FECAfterHandshake,
           NEW occupied \in 0 .. MaxFrameSize, occupied = 0 \/ ~confirmed,
           NEW pl, NEW m \in Nat, m = MaxFrameSize - occupied,
           Payload(pl, m), Protected(pl, m), Packs(pl, AddedTo(pl))
    PROVE  SymbolsFit'
<1> DEFINE added == AddedTo(pl)
           ping == needsPing(pl)
           size == pl.length + (IF pl.fecFrames # <<>> THEN SourceSymbolHeader ELSE 0) + (IF ping THEN 1 ELSE 0)
           o == PackOutcome(pl, added, size)
           Fits(n) == n + MaxFECHeaderOverhead <= MaxFrameSize + RepairOverhead
<1>1. /\ status' = o /\ block' = added.block /\ UNCHANGED <<fecStreams, confirmed>>
      /\ repairFrames' = (IF o \in {"ok", "packet too large"} THEN pl.repairFrames \o added.repairs ELSE pl.repairFrames)
    BY Zenon DEF Packs
<1>2. /\ repairFrames \in Seq(Nat) /\ block \in Seq(Nat) /\ Len(block) < totNumSourceSymbols
      /\ (fecStreams # {} => confirmed)
    BY DEF PackTypeInv, PackTypeOK
<1>3. /\ (fecStreams = {} => block = <<>> /\ repairFrames = <<>>)
      /\ \A i \in 1 .. Len(block) : block[i] + MaxFECHeaderOverhead <= MaxFrameSize
      /\ \A i \in 1 .. Len(repairFrames) : Fits(repairFrames[i])
    BY DEF SymbolsFit
<1>4. /\ pl.repairFrames \in Seq(Nat) /\ Len(pl.repairFrames) <= Len(repairFrames)
      /\ \A i \in 1 .. Len(pl.repairFrames) : \E j \in 1 .. Len(repairFrames) : pl.repairFrames[i] = repairFrames[j]
      /\ added.block \in Seq(Nat) /\ added.repairs \in Seq(Nat)
    BY SymbolFacts DEF PackTypeInv
<1>5. ~pl.noSpace
  <2> SUFFICES ASSUME pl.noSpace PROVE FALSE
      OBVIOUS
  <2>1. repairFrames # <<>> /\ ~(Head(repairFrames) <= m)
      BY DEF Payload
  <2>2. fecStreams # {}
      BY <1>3, <2>1
  <2>3. occupied = 0
      BY <1>2, <2>2
  <2>4. Head(repairFrames) \in Nat /\ Head(repairFrames) = repairFrames[1] /\ 1 \in 1 .. Len(repairFrames)
      BY <1>2, <2>1
  <2>5. Fits(Head(repairFrames))
      BY <1>3, <2>4
  <2> QED
      BY <2>1, <2>3, <2>4, <2>5, PackerConstants
<1>6. pl.length \in Nat /\ pl.length <= m /\ (onlyAck(pl) => pl.length = IF pl.hasAck THEN AckLen ELSE 0)
    BY Zenon DEF Payload
<1>7. pl.fecFrames = <<>> \/ fecSender => ~(size > MaxFrameSize)
  <2> SUFFICES ASSUME pl.fecFrames = <<>> \/ fecSender PROVE ~(size > MaxFrameSize)
      OBVIOUS
  <2>1. m <= MaxFrameSize
      BY PackerConstants
  <2>2. CASE pl.fecFrames # <<>>
    <3>1. ~ping
        BY <2>2 DEF needsPing, onlyAck
    <3>2. size = pl.length + SourceSymbolHeader + 0
        BY <2>2, <3>1
    <3>3. pl.length + MaxFECHeaderOverhead <= m
        BY <2>2 DEF Protected
    <3> QED
        BY <1>6, <2>1, <3>2, <3>3, PackerConstants
  <2>3. CASE pl.fecFrames = <<>> /\ ping
    <3>1. onlyAck(pl) /\ pl.hasAck
        BY <2>3 DEF needsPing
    <3>2. size = AckLen + 0 + 1
        BY <1>6, <2>3, <3>1
    <3> QED
        BY <3>2, PackerConstants
  <2>4. CASE pl.fecFrames = <<>> /\ ~ping
    <3>1. size = pl.length + 0 + 0
        BY <2>4
    <3> QED
        BY <1>6, <2>1, <3>1, PackerConstants
  <2> QED
      BY <2>2, <2>3, <2>4
<1>8. o \notin {"packet too large", "no space for repair frame"}
  <2> HIDE DEF added, size
  <2>1. (o = "no space for repair frame" => pl.noSpace) /\ (o = "packet too large" => size > MaxFrameSize)
        /\ (o = "packet too large" => pl.fecFrames = <<>> \/ fecSender)
      BY OutcomeFacts
  <2> HIDE DEF o
  <2> QED
      BY <1>5, <1>7, <2>1
<1>9. /\ (fecStreams = {} => added.block = <<>> /\ added.repairs = <<>>)
      /\ \A i \in 1 .. Len(added.block) : added.block[i] + MaxFECHeaderOverhead <= MaxFrameSize
      /\ \A i \in 1 .. Len(added.repairs) : Fits(added.repairs[i])
  <2>1. CASE pl.fecFrames = <<>> \/ ~fecSender
    <3>1. added.block = block /\ added.repairs = <<>>
        BY <2>1 DEF AddedTo
    <3>2. \A i \in 1 .. Len(<<>>) : FALSE
        OBVIOUS
    <3> HIDE DEF added, Fits
    <3> QED
        BY <1>3, <3>1, <3>2
  <2>2. CASE ~(pl.fecFrames = <<>> \/ ~fecSender)
    <3> DEFINE p == TotalLen(pl.fecFrames)
               B == MaxFrameSize - MaxFECHeaderOverhead
    <3>1. added = AddSourceSymbolFrame(p) /\ p \in Nat
        BY <2>2 DEF AddedTo, Payload
    <3>2. fecStreams # {} /\ p + MaxFECHeaderOverhead <= m
        BY <2>2 DEF Protected
    <3> HIDE DEF p, added
    <3>3. B \in Nat /\ p <= B
        BY <3>1, <3>2, PackerConstants
    <3>4. \A i \in 1 .. Len(block) : block[i] <= B
      <4> TAKE i \in 1 .. Len(block)
      <4>1. block[i] \in Nat /\ block[i] + MaxFECHeaderOverhead <= MaxFrameSize
          BY <1>2, <1>3
      <4> QED
          BY <4>1, PackerConstants
    <3> HIDE DEF B
    <3>5. /\ \A i \in 1 .. Len(added.block) : added.block[i] <= B
          /\ \A i \in 1 .. Len(added.repairs) : added.repairs[i] <= B + RepairOverhead
        BY <1>2, <3>1, <3>3, <3>4, AddedFacts
    <3>6. /\ \A i \in 1 .. Len(added.block) : added.block[i] \in Nat
          /\ \A i \in 1 .. Len(added.repairs) : added.repairs[i] \in Nat
        BY SMTT(60), <1>4
    <3>7. \A n \in Nat : (n <= B => n + MaxFECHeaderOverhead <= MaxFrameSize)
                         /\ (n <= B + RepairOverhead => Fits(n))
        BY PackerConstants DEF B
    <3> HIDE DEF Fits
    <3> QED
        BY <3>2, <3>5, <3>6, <3>7
  <2> QED
      BY <2>1, <2>2
<1> HIDE DEF added, o, size
<1>10. \A i \in 1 .. Len(pl.repairFrames) : Fits(pl.repairFrames[i])
  <2> HIDE DEF Fits
  <2> QED
      BY <1>3, <1>4
<1>11. /\ (fecStreams' = {} => repairFrames' = <<>>)
       /\ \A i \in 1 .. Len(repairFrames') : Fits(repairFrames'[i])
  <2> HIDE DEF Fits
  <2>1. CASE o \in {"ok", "packet too large"}
    <3> DEFINE s == pl.repairFrames
               t == added.repairs
    <3>1. s \in Seq(Nat) /\ t \in Seq(Nat) /\ repairFrames' = s \o t
        BY <1>1, <1>4, <2>1
    <3>2. (\A i \in 1 .. Len(s) : Fits(s[i])) /\ (\A i \in 1 .. Len(t) : Fits(t[i]))
        BY <1>9, <1>10
    <3>3. fecStreams = {} => s = <<>> /\ t = <<>>
      <4>1. repairFrames = <<>> => s = <<>>
          BY <1>2, <1>4
      <4> QED
          BY <1>3, <1>9, <4>1
    <3> HIDE DEF s, t
    <3>4. ASSUME NEW i \in 1 .. Len(s \o t) PROVE Fits((s \o t)[i])
      <4>1. Len(s) \in Nat /\ Len(t) \in Nat /\ Len(s \o t) = Len(s) + Len(t)
          BY <3>1
      <4>2. CASE i <= Len(s)
        <5>1. (s \o t)[i] = s[i] /\ i \in 1 .. Len(s)
            BY <3>1, <4>1, <4>2
        <5> QED
            BY <3>2, <5>1
      <4>3. CASE ~(i <= Len(s))
        <5>1. (s \o t)[i] = t[i - Len(s)] /\ i - Len(s) \in 1 .. Len(t)
            BY <3>1, <4>1, <4>3
        <5> QED
            BY <3>2, <5>1
      <4> QED
          BY <4>2, <4>3
    <3>5. <<>> \o <<>> = <<>>
        OBVIOUS
    <3>6. fecStreams' = {} => repairFrames' = <<>>
        BY <1>1, <3>1, <3>3, <3>5
    <3> QED
        BY <3>1, <3>4, <3>6
  <2>2. CASE o \notin {"ok", "packet too large"}
    <3>1. repairFrames' = pl.repairFrames /\ fecStreams' = fecStreams
        BY <1>1, <2>2
    <3>2. repairFrames = <<>> => pl.repairFrames = <<>>
        BY <1>2, <1>4
    <3> QED
        BY <1>3, <1>10, <3>1, <3>2
  <2> QED
      BY <2>1, <2>2
<1>12. PacketFits'
    BY <1>1, <1>8 DEF PacketFits
<1>13. /\ (fecStreams' = {} => block' = <<>>)
       /\ \A i \in 1 .. Len(block') : block'[i] + MaxFECHeaderOverhead <= MaxFrameSize
    BY <1>1, <1>9
<1> QED
    BY <1>11, <1>12, <1>13 DEF SymbolsFit

\* The arithmetic of the next lemma: a queue of R frames and a block of L lag by h; after the packet, P of
\* those frames are left, A are added, the block has K, and the lag is g.
LEMMA LagOfPacket ==
    ASSUME NEW r \in Nat, NEW S \in Nat, NEW R \in Nat, NEW L \in Nat, NEW h \in Nat, NEW g \in Nat,
           NEW P \in Nat, NEW A \in Nat, NEW K \in Nat, r <= S,
           R = 0 \/ R + L <= r + h,
           P = 0 \/ (P = R - 1 /\ h <= g) \/ (P = R /\ h + 1 <= g),
           \/ (K = L \/ K = L + 1) /\ A = 0
           \/ K = 0 /\ A = r /\ L + 1 >= S
    PROVE  P + A <= r + g /\ (P + A = 0 \/ P + A + K <= r + g)
<1>1. P = 0 \/ P + L + 1 <= r + g
    OBVIOUS
<1>2. CASE P = 0
    BY <1>2
<1>3. CASE P # 0
    BY <1>1, <1>3
<1> QED
    BY <1>2, <1>3

\* Each packet takes a repair frame with it, unless an ACK holds it back or the packer fails.
LEMMA PackRepairs ==
    ASSUME PackTypeOK, RepairsLag, FewRepairSymbols,
           NEW pl, NEW m \in Nat, Payload(pl, m), Packs(pl, AddedTo(pl))
    PROVE  RepairsLag'
<1> DEFINE added == AddedTo(pl)
           ping == needsPing(pl)
           size == pl.length + (IF pl.fecFrames # <<>> THEN SourceSymbolHeader ELSE 0) + (IF ping THEN 1 ELSE 0)
           o == PackOutcome(pl, added, size)
           R == Len(repairFrames)
           L == Len(block)
           P == Len(pl.repairFrames)
           A == Len(added.repairs)
           K == Len(added.block)
           H == heldBack'
<1>1. /\ status' = o /\ block' = added.block /\ status = "ok"
      /\ repairFrames' = (IF o \in {"ok", "packet too large"} THEN pl.repairFrames \o added.repairs ELSE pl.repairFrames)
      /\ H = (IF pl.repairFrames = <<>> THEN 0 ELSE IF pl.heldBack THEN heldBack + 1 ELSE heldBack)
    BY Zenon DEF Packs
<1>2. /\ repairFrames \in Seq(Nat) /\ block \in Seq(Nat) /\ L < totNumSourceSymbols
      /\ R \in Nat /\ L \in Nat /\ heldBack \in Nat
  <2>1. repairFrames \in Seq(Nat) /\ block \in Seq(Nat) /\ L < totNumSourceSymbols /\ heldBack \in Nat
      BY DEF PackTypeOK
  <2> QED
      BY <2>1
<1>3. repairFrames = <<>> \/ R + L <= totNumRepairSymbols + heldBack
    BY <1>1 DEF RepairsLag
<1>4. pl.repairFrames \in Seq(Nat) /\ added.repairs \in Seq(Nat) /\ added.block \in Seq(Nat)
    BY SymbolFacts
<1>5. /\ (pl.repairFrames = repairFrames \/ (pl.repairFrames = Tail(repairFrames) /\ repairFrames # <<>>))
      /\ (repairFrames # <<>> => pl.repairFrames = Tail(repairFrames) \/ pl.noSpace \/ pl.heldBack)
    BY DEF Payload
<1>6. P \in Nat /\ A \in Nat /\ K \in Nat /\ (pl.repairFrames = <<>> <=> P = 0) /\ (repairFrames = <<>> <=> R = 0)
      /\ (repairFrames # <<>> => Len(Tail(repairFrames)) = R - 1)
    BY <1>2, <1>4
<1>7. Len(pl.repairFrames \o added.repairs) = P + A /\ (P = 0 /\ A = 0 => pl.repairFrames \o added.repairs = <<>>)
  <2> DEFINE s == pl.repairFrames
             t == added.repairs
  <2>1. s \in Seq(Nat) /\ t \in Seq(Nat)
      BY <1>4
  <2> HIDE DEF s, t
  <2>2. Len(s \o t) = Len(s) + Len(t) /\ s \o t \in Seq(Nat)
      BY <2>1
  <2>3. Len(s \o t) = 0 => s \o t = <<>>
      BY <2>2
  <2> QED
      BY <2>1, <2>2, <2>3 DEF s, t
<1>8. (\/ /\ (K = L \/ K = L + 1) /\ A = 0
       \/ /\ K = 0 /\ A = totNumRepairSymbols /\ L + 1 >= totNumSourceSymbols)
  <2>1. CASE pl.fecFrames = <<>> \/ ~fecSender
    <3>1. added.block = block /\ added.repairs = <<>>
        BY <2>1 DEF AddedTo
    <3> HIDE DEF added
    <3> QED
        BY <1>2, <3>1
  <2>2. CASE ~(pl.fecFrames = <<>> \/ ~fecSender)
    <3> DEFINE p == TotalLen(pl.fecFrames)
    <3>1. added = AddSourceSymbolFrame(p) /\ p \in Nat
        BY <2>2 DEF AddedTo, Payload
    <3> HIDE DEF p, added
    <3>2. \/ /\ added.block = Append(block, p) /\ added.repairs = <<>>
          \/ /\ added.block = <<>> /\ Len(added.repairs) = totNumRepairSymbols /\ L + 1 >= totNumSourceSymbols
        BY <1>2, <3>1, AddedFacts
    <3> QED
        BY <1>2, <3>1, <3>2
  <2> QED
      BY <2>1, <2>2
<1>9. /\ o \in {"ok", "no space for repair frame", "no fec.Sender", "repair queue full", "packet too large"}
      /\ (pl.noSpace => o = "no space for repair frame")
      /\ (o = "repair queue full" => P + A > maxRepairSendQueueLen)
  <2> HIDE DEF added, size
  <2> QED
      BY OutcomeFacts
<1> HIDE DEF added, o, size
\* What is left of the queue and its lag.
<1>10. /\ H \in Nat /\ (P = 0 \/ (P = R - 1 /\ heldBack <= H) \/ (P = R /\ heldBack <= H))
       /\ (~pl.noSpace => P = 0 \/ (P = R - 1 /\ heldBack <= H) \/ (P = R /\ heldBack + 1 <= H))
  <2>1. CASE pl.repairFrames = <<>>
    <3>1. P = 0 /\ H = 0
        BY <1>1, <1>6, <2>1
    <3> QED
        BY <3>1
  <2>2. CASE pl.repairFrames # <<>>
    <3>1. H = (IF pl.heldBack THEN heldBack + 1 ELSE heldBack)
        BY <1>1, <2>2
    <3>2. repairFrames # <<>>
      <4>1. pl.repairFrames = repairFrames \/ repairFrames # <<>>
          BY <1>5
      <4> QED
          BY <2>2, <4>1
    <3>3. (pl.repairFrames = repairFrames => P = R) /\ (pl.repairFrames = Tail(repairFrames) => P = R - 1)
        BY <1>6, <3>2
    <3>4. H \in Nat /\ heldBack <= H /\ (pl.heldBack => heldBack + 1 <= H)
        BY <1>2, <3>1
    <3>5. P = R \/ P = R - 1
        BY <1>5, <3>3
    <3>6. P = R - 1 \/ pl.noSpace \/ pl.heldBack
        BY <1>5, <3>2, <3>3
    <3> HIDE DEF P, R, H
    <3> QED
        BY <3>4, <3>5, <3>6, Zenon
  <2> QED
      BY <2>1, <2>2
<1>11. /\ P <= totNumRepairSymbols + H
       /\ (~pl.noSpace => /\ P + A <= totNumRepairSymbols + H
                          /\ (P + A = 0 \/ P + A + K <= totNumRepairSymbols + H))
  <2>1. R = 0 \/ R + L <= totNumRepairSymbols + heldBack
      BY <1>3, <1>6
  <2>2. totNumRepairSymbols \in Nat /\ totNumSourceSymbols \in Nat /\ totNumRepairSymbols <= totNumSourceSymbols
      BY PackerConstants DEF FewRepairSymbols
  <2>3. R \in Nat /\ L \in Nat /\ heldBack \in Nat /\ P \in Nat /\ A \in Nat /\ K \in Nat
      BY <1>2, <1>6
  <2> HIDE DEF P, A, K, R, L, H
  <2>4. P <= totNumRepairSymbols + H
      BY <1>10, <2>1, <2>2, <2>3
  <2>5. ~pl.noSpace => /\ P + A <= totNumRepairSymbols + H
                       /\ (P + A = 0 \/ P + A + K <= totNumRepairSymbols + H)
      BY <1>8, <1>10, <2>1, <2>2, <2>3, LagOfPacket
  <2> QED
      BY <2>4, <2>5
<1>12. CASE o \in {"ok", "packet too large"}
  <2>1. ~pl.noSpace /\ repairFrames' = pl.repairFrames \o added.repairs /\ block' = added.block /\ status' # "repair queue full"
      BY <1>1, <1>9, <1>12
  <2>2. Len(repairFrames') = P + A /\ Len(block') = K /\ (P + A = 0 => repairFrames' = <<>>)
    <3>1. P \in Nat /\ A \in Nat
        BY <1>6
    <3>2. P + A = 0 => P = 0 /\ A = 0
      <4> HIDE DEF P, A
      <4> QED
          BY <3>1
    <3> QED
        BY <1>7, <2>1, <3>2
  <2> HIDE DEF P, A, K
  <2> QED
      BY <1>11, <2>1, <2>2 DEF RepairsLag, RepairsLagBehindACKs
<1>13. CASE o \notin {"ok", "packet too large"}
  <2>1. repairFrames' = pl.repairFrames /\ status' = o /\ o # "ok"
      BY <1>1, <1>13
  <2>2. o = "repair queue full" => totNumRepairSymbols + H > maxRepairSendQueueLen
    <3>1. o = "repair queue full" => ~pl.noSpace /\ P + A > maxRepairSendQueueLen
        BY <1>9
    <3>2. P \in Nat /\ A \in Nat /\ H \in Nat
        BY <1>6, <1>10
    <3>3. o = "repair queue full" => P + A > maxRepairSendQueueLen /\ P + A <= totNumRepairSymbols + H
        BY <1>11, <3>1
    <3>4. totNumRepairSymbols \in Nat /\ maxRepairSendQueueLen \in Nat
        BY PackerConstants
    <3>5. \A x, y, z, w \in Nat : x + y > z /\ x + y <= w => w > z
        OBVIOUS
    <3>6. totNumRepairSymbols + H \in Nat
      <4>1. \A x, y \in Nat : x + y \in Nat
          OBVIOUS
      <4>2. H \in Nat
          BY <3>2, Zenon
      <4> QED
          BY <3>4, <4>1, <4>2, Zenon
    <3> HIDE DEF P, A, H
    <3> QED
        BY <3>2, <3>3, <3>4, <3>5, <3>6, Zenon
  <2> QED
      BY <1>11, <2>1, <2>2 DEF RepairsLag, RepairsLagBehindACKs
<1> QED
    BY <1>12, <1>13

\* AppendPacket and PackCoalescedPacket are calls of PackWithin.
LEMMA PacketIsPacked ==
    ASSUME AppendPacket \/ PackCoalescedPacket
    PROVE  \E occupied \in 0 .. MaxFrameSize : PackWithin(occupied) /\ (occupied = 0 \/ ~confirmed)
<1>1. 0 \in 0 .. MaxFrameSize /\ CoalescedSizes \subseteq 0 .. MaxFrameSize
    BY PackerConstants, PackerInputAssumption
<1>2. CASE AppendPacket
    BY <1>1, <1>2, Zenon DEF AppendPacket
<1>3. CASE PackCoalescedPacket
  <2>1. ~confirmed /\ \E occupied \in CoalescedSizes \cup {0} : PackWithin(occupied)
      BY <1>3, Zenon DEF PackCoalescedPacket
  <2>2. PICK occupied \in CoalescedSizes \cup {0} : PackWithin(occupied)
      BY <2>1, Zenon
  <2>3. occupied \in 0 .. MaxFrameSize
      BY <1>1, <2>2
  <2> QED
      BY <2>1, <2>2, <2>3, Zenon
<1> QED
    BY <1>2, <1>3, Zenon

\* What the other actions leave alone.
LEMMA OtherSteps ==
    ASSUME PackTypeOK, [PackNext]_packVars, ~(AppendPacket \/ PackCoalescedPacket)
    PROVE  /\ PackTypeOK'
           /\ UNCHANGED <<fecStreams, heldBack, repairFrames, block, packet, status>>
           /\ confirmed => confirmed'
<1> DEFINE Keeps == UNCHANGED <<fecStreams, fecSender, heldBack, repairFrames, block, packet, status, nonAckEliciting>>
<1>0. /\ fecStreams \subseteq SendStreams /\ pending \in [SendStreams -> Nat] /\ streamQueue \in Seq(SendStreams)
      /\ controlFrames \in Nat /\ appData \in Nat /\ inputs \in 0 .. MaxInputs
      /\ datagrams \in Seq(DatagramToSend) /\ ack \in {"none", "held", "queued"}
      /\ confirmed \in BOOLEAN
    BY DEF PackTypeOK, DatagramToSend
<1>1. ASSUME Keeps, pending' \in [SendStreams -> Nat], streamQueue' \in Seq(SendStreams), controlFrames' \in Nat, appData' \in Nat,
             inputs' \in 0 .. MaxInputs, datagrams' \in Seq(DatagramToSend), ack' \in {"none", "held", "queued"},
             confirmed' \in BOOLEAN
      PROVE  PackTypeOK'
    BY <1>1, Zenon DEF PackTypeOK, DatagramToSend
<1>2. Input => inputs' \in 0 .. MaxInputs
    BY <1>0, PackerConstants DEF Input
<1>3. ASSUME NEW id \in SendStreams, NEW n \in WriteLens, Write(id, n)
      PROVE  PackTypeOK' /\ Keeps /\ confirmed' = confirmed
  <2>1. n \in Nat
      BY PackerInputAssumption
  <2>2. pending' = [pending EXCEPT ![id] = @ + n] /\ (streamQueue' = streamQueue \/ streamQueue' = Append(streamQueue, id)) /\ Input
      BY <1>3, Zenon DEF Write
  <2>3. Keeps /\ UNCHANGED <<controlFrames, appData, datagrams, ack, confirmed>>
      BY <1>3 DEF Write
  <2>4. pending' \in [SendStreams -> Nat]
      BY <1>0, <2>1, <2>2
  <2>5. streamQueue' \in Seq(SendStreams)
    <3>1. Append(streamQueue, id) \in Seq(SendStreams)
        BY <1>0
    <3> QED
        BY <1>0, <2>2, <3>1
  <2> QED
      BY <1>0, <1>1, <1>2, <2>2, <2>3, <2>4, <2>5
<1>11. ASSUME NEW id \in SendStreams, CancelWrite(id)
      PROVE  PackTypeOK' /\ Keeps /\ confirmed' = confirmed
  <2>1. pending' = [pending EXCEPT ![id] = 0] /\ controlFrames' = controlFrames + 1 /\ Input
      BY <1>11, Zenon DEF CancelWrite
  <2>2. Keeps /\ UNCHANGED <<streamQueue, appData, datagrams, ack, confirmed>>
      BY <1>11 DEF CancelWrite
  <2>3. pending' \in [SendStreams -> Nat] /\ controlFrames' \in Nat
      BY <1>0, <2>1
  <2> QED
      BY <1>0, <1>1, <1>2, <2>1, <2>2, <2>3
<1>4. ASSUME NEW n \in DatagramLens, NEW fec \in FECDatagrams, SendDatagram(n, fec)
      PROVE  PackTypeOK' /\ Keeps /\ confirmed' = confirmed
  <2>1. [len |-> n, fec |-> fec] \in DatagramToSend
      BY Zenon DEF DatagramToSend
  <2>2. datagrams' = Append(datagrams, [len |-> n, fec |-> fec]) /\ Input
      BY <1>4, Zenon DEF SendDatagram
  <2> DEFINE d == [len |-> n, fec |-> fec]
  <2> HIDE DEF d
  <2>3. datagrams' \in Seq(DatagramToSend)
    <3>1. d \in DatagramToSend /\ datagrams' = Append(datagrams, d)
        BY <2>1, <2>2, Zenon DEF d
    <3> QED
        BY <1>0, <3>1
  <2>4. Keeps /\ UNCHANGED <<pending, streamQueue, controlFrames, appData, ack, confirmed>>
      BY <1>4 DEF SendDatagram
  <2> QED
      BY <1>0, <1>1, <1>2, <2>2, <2>3, <2>4
<1>5. ASSUME QueueControlFrame
      PROVE  PackTypeOK' /\ Keeps /\ confirmed' = confirmed
  <2>1. controlFrames' \in Nat /\ Input /\ Keeps /\ UNCHANGED <<pending, streamQueue, appData, datagrams, ack, confirmed>>
      BY <1>0, <1>5 DEF QueueControlFrame
  <2> QED
      BY <1>0, <1>1, <1>2, <2>1
<1>6. ASSUME OnControlLost
      PROVE  PackTypeOK' /\ Keeps /\ confirmed' = confirmed
  <2>1. appData' \in Nat /\ Input /\ Keeps /\ UNCHANGED <<pending, streamQueue, controlFrames, datagrams, ack, confirmed>>
      BY <1>0, <1>6 DEF OnControlLost
  <2> QED
      BY <1>0, <1>1, <1>2, <2>1
<1>7. ASSUME NEW urgency \in {"held", "queued"}, ReceivePacket(urgency)
      PROVE  PackTypeOK' /\ Keeps /\ confirmed' = confirmed
  <2>1. ack' = urgency /\ Input /\ Keeps /\ UNCHANGED <<pending, streamQueue, controlFrames, appData, datagrams, confirmed>>
      BY <1>7 DEF ReceivePacket
  <2> QED
      BY <1>0, <1>1, <1>2, <2>1
<1>8. ASSUME ConfirmHandshake
      PROVE  PackTypeOK' /\ Keeps /\ confirmed'
  <2>1. confirmed' = TRUE
      BY <1>8, Zenon DEF ConfirmHandshake
  <2>2. Keeps /\ UNCHANGED <<pending, streamQueue, controlFrames, appData, datagrams, ack, inputs>>
      BY <1>8 DEF ConfirmHandshake
  <2>3. confirmed' \in BOOLEAN
      BY <2>1, Zenon
  <2>4. PackTypeOK'
      BY <1>0, <1>1, <2>2, <2>3
  <2> QED
      BY <2>1, <2>2, <2>4
<1>9. ASSUME UNCHANGED packVars
      PROVE  PackTypeOK' /\ Keeps /\ confirmed' = confirmed
  <2>1. Keeps /\ UNCHANGED <<pending, streamQueue, controlFrames, appData, datagrams, ack, inputs, confirmed>>
      BY <1>9 DEF packVars
  <2> QED
      BY <1>0, <1>1, <2>1
<1> HIDE DEF Keeps
<1>10. PackTypeOK' /\ Keeps /\ (confirmed => confirmed')
  <2>1. CASE UNCHANGED packVars
      BY <1>9, <2>1
  <2>2. CASE PackNext
    <3>1. CASE \E id \in SendStreams, n \in WriteLens : Write(id, n)
        BY <1>3, <3>1, Zenon
    <3>7. CASE \E id \in SendStreams : CancelWrite(id)
        BY <1>11, <3>7, Zenon
    <3>2. CASE \E n \in DatagramLens, fec \in FECDatagrams : SendDatagram(n, fec)
        BY <1>4, <3>2, Zenon
    <3>3. CASE QueueControlFrame
        BY <1>5, <3>3
    <3>4. CASE OnControlLost
        BY <1>6, <3>4
    <3>5. CASE \E urgency \in {"held", "queued"} : ReceivePacket(urgency)
        BY <1>7, <3>5, Zenon
    <3>6. CASE ConfirmHandshake
        BY <1>8, <3>6, Zenon
    <3> QED
        BY <2>2, <3>1, <3>2, <3>3, <3>4, <3>5, <3>6, <3>7, Zenon DEF PackNext
  <2> QED
      BY <2>1, <2>2, Zenon
<1> QED
    BY <1>10, Zenon DEF Keeps

\* The packer starts with nothing packed.
LEMMA PackInitInv ==
    ASSUME PackInit
    PROVE  /\ PackTypeInv /\ (PlainDatagrams /\ FECAfterHandshake => SymbolsFit)
           /\ RepairsLag /\ NothingFollowsUndelimitedFrame
<1> USE DEF PackInit
<1>1. NoPacket \in PacketType
  <2>1. <<>> \in Seq(Frame) /\ 0 \in Nat
      OBVIOUS
  <2> QED
      BY <2>1, Zenon DEF NoPacket, PacketType
<1>2. fecStreams \subseteq SendStreams /\ fecStreams \in FECStreamSets
    BY PackerInputAssumption
<1>3. confirmed \in BOOLEAN /\ fecSender \in BOOLEAN /\ (FECAfterHandshake /\ fecStreams # {} => confirmed)
    BY Zenon DEF FECAfterHandshake
<1>4. /\ pending \in [SendStreams -> Nat] /\ streamQueue \in Seq(SendStreams)
      /\ controlFrames \in Nat /\ appData \in Nat /\ inputs \in 0 .. MaxInputs
      /\ nonAckEliciting \in 0 .. MaxNonAckElicitingAcks /\ datagrams \in Seq(DatagramToSend)
      /\ repairFrames \in Seq(Nat) /\ Len(repairFrames) <= maxRepairSendQueueLen
      /\ block \in Seq(Nat) /\ Len(block) < totNumSourceSymbols
      /\ ack \in {"none", "held", "queued"} /\ heldBack \in Nat
      /\ status \in {"ok", "no space for repair frame", "no fec.Sender", "repair queue full", "packet too large"}
    BY PackerConstants
<1>5. PackTypeOK
    BY <1>1, <1>2, <1>3, <1>4, Zenon DEF PackTypeOK, PacketType, DatagramToSend
<1>6. SymbolsFit /\ RepairsLag
    BY PackerConstants DEF SymbolsFit, RepairsLag, PacketFits, RepairsLagBehindACKs
<1>7. NothingFollowsUndelimitedFrame
  <2>1. packet.streamFrames = <<>> /\ packet.fecFrames = <<>>
      BY DEF NoPacket
  <2>2. \A i \in DOMAIN <<>> : FALSE
      OBVIOUS
  <2> QED
      BY <2>1, <2>2 DEF NothingFollowsUndelimitedFrame
<1> QED
    BY <1>2, <1>3, <1>5, <1>6, <1>7, Zenon DEF PackTypeInv

\* Each step preserves the parts of the invariant.
LEMMA PackTypeStep ==
    ASSUME PackTypeInv, [PackNext]_packVars
    PROVE  PackTypeInv'
<1>1. PackTypeOK /\ fecStreams \in FECStreamSets /\ (FECAfterHandshake /\ fecStreams # {} => confirmed)
    BY Zenon DEF PackTypeInv
<1>2. CASE AppendPacket \/ PackCoalescedPacket
  <2>1. PICK occupied \in 0 .. MaxFrameSize : PackWithin(occupied)
      BY <1>2, PacketIsPacked, Zenon
  <2>2. PICK pl : Packs(pl, AddedTo(pl)) /\ Payload(pl, MaxFrameSize - occupied)
      BY <1>1, <2>1, PackStep, Zenon
  <2>3. MaxFrameSize - occupied \in Nat
      BY PackerConstants
  <2>4. PackTypeOK'
      BY <1>1, <2>2, <2>3, PackTyped, Zenon
  <2>5. fecStreams' = fecStreams /\ confirmed' = confirmed
      BY <2>2, Zenon DEF Packs
  <2> QED
      BY <1>1, <2>4, <2>5, Zenon DEF PackTypeInv, FECAfterHandshake
<1>3. CASE ~(AppendPacket \/ PackCoalescedPacket)
  <2>1. PackTypeOK' /\ fecStreams' = fecStreams /\ (confirmed => confirmed')
      BY <1>1, <1>3, OtherSteps, Zenon
  <2> QED
      BY <1>1, <2>1, Zenon DEF PackTypeInv, FECAfterHandshake
<1> QED
    BY <1>2, <1>3

LEMMA SymbolsFitStep ==
    ASSUME PlainDatagrams, FECAfterHandshake, PackTypeInv, SymbolsFit, [PackNext]_packVars
    PROVE  SymbolsFit'
<1>1. PackTypeOK
    BY DEF PackTypeInv
<1>2. CASE AppendPacket \/ PackCoalescedPacket
  <2>1. PICK occupied \in 0 .. MaxFrameSize : PackWithin(occupied) /\ (occupied = 0 \/ ~confirmed)
      BY <1>2, PacketIsPacked, Zenon
  <2>2. PICK pl : /\ Packs(pl, AddedTo(pl)) /\ Payload(pl, MaxFrameSize - occupied)
                  /\ Protected(pl, MaxFrameSize - occupied)
      BY <1>1, <2>1, PackStep, Zenon DEF PlainDatagrams
  <2>3. MaxFrameSize - occupied \in Nat
      BY PackerConstants
  <2> QED
      BY <2>1, <2>2, <2>3, PackFits, Zenon
<1>3. CASE ~(AppendPacket \/ PackCoalescedPacket)
  <2>1. UNCHANGED <<fecStreams, repairFrames, block, status>>
      BY <1>1, <1>3, OtherSteps, Zenon
  <2> QED
      BY <2>1, Zenon DEF SymbolsFit, PacketFits
<1> QED
    BY <1>2, <1>3

LEMMA RepairsLagStep ==
    ASSUME FewRepairSymbols, PackTypeInv, RepairsLag, [PackNext]_packVars
    PROVE  RepairsLag'
<1>1. PackTypeOK
    BY DEF PackTypeInv
<1>2. CASE AppendPacket \/ PackCoalescedPacket
  <2>1. PICK occupied \in 0 .. MaxFrameSize : PackWithin(occupied)
      BY <1>2, PacketIsPacked, Zenon
  <2>2. PICK pl : Packs(pl, AddedTo(pl)) /\ Payload(pl, MaxFrameSize - occupied)
      BY <1>1, <2>1, PackStep, Zenon
  <2>3. MaxFrameSize - occupied \in Nat
      BY PackerConstants
  <2> QED
      BY <1>1, <2>2, <2>3, PackRepairs, Zenon
<1>3. CASE ~(AppendPacket \/ PackCoalescedPacket)
  <2>1. UNCHANGED <<heldBack, repairFrames, block, status>>
      BY <1>1, <1>3, OtherSteps, Zenon
  <2> QED
      BY <2>1, Zenon DEF RepairsLag, RepairsLagBehindACKs
<1> QED
    BY <1>2, <1>3

LEMMA UndelimitedStep ==
    ASSUME PlainDatagrams, StreamsOfOneKind, PackTypeInv, NothingFollowsUndelimitedFrame, [PackNext]_packVars
    PROVE  NothingFollowsUndelimitedFrame'
<1>1. PackTypeOK /\ fecStreams \in {{}, SendStreams}
    BY DEF PackTypeInv, StreamsOfOneKind
<1>2. CASE AppendPacket \/ PackCoalescedPacket
  <2>1. PICK occupied \in 0 .. MaxFrameSize : PackWithin(occupied)
      BY <1>2, PacketIsPacked, Zenon
  <2>2. PICK pl : Packs(pl, AddedTo(pl)) /\ Undelimited(pl.streamFrames, pl.fecFrames)
      BY <1>1, <2>1, PackStep, Zenon DEF PlainDatagrams
  <2>3. \/ packet' = NoPacket
        \/ packet'.streamFrames = pl.streamFrames /\ packet'.fecFrames = pl.fecFrames
    <3>1. \E a, b, c : packet' = NoPacket \/ packet' = [hasAck |-> a, frames |-> b, streamFrames |-> pl.streamFrames, fecFrames |-> pl.fecFrames, size |-> c]
        BY <2>2, Zenon DEF Packs
    <3> QED
        BY <3>1
  <2>4. Undelimited(packet'.streamFrames, packet'.fecFrames)
    <3>1. NoPacket.streamFrames = <<>> /\ NoPacket.fecFrames = <<>>
        BY DEF NoPacket
    <3>2. \A i \in DOMAIN <<>> : FALSE
        OBVIOUS
    <3>3. Undelimited(<<>>, <<>>)
        BY <3>2 DEF Undelimited
    <3> QED
        BY <2>2, <2>3, <3>1, <3>3, Zenon
  <2> QED
      BY <2>4, Zenon DEF Undelimited, NothingFollowsUndelimitedFrame
<1>3. CASE ~(AppendPacket \/ PackCoalescedPacket)
  <2>1. packet' = packet
      BY <1>1, <1>3, OtherSteps, Zenon
  <2> QED
      BY <2>1, Zenon DEF NothingFollowsUndelimitedFrame
<1> QED
    BY <1>2, <1>3

\* packet_packer.go: the type of the packer's state, for any sizes, streams and block code.
THEOREM PackerTypeCorrect == PackSpec => []PackTypeOK
<1>1. PackInit => PackTypeInv
    BY PackInitInv
<1>2. PackTypeInv /\ [PackNext]_packVars => PackTypeInv'
    BY PackTypeStep
<1>3. PackTypeInv => PackTypeOK
    BY DEF PackTypeInv
<1> QED
    BY <1>1, <1>2, <1>3, PTL DEF PackSpec

\* packet_packer.go composeNextPacket, appendShortHeaderPacket: for any packet size, block code, headers
\* that fit in MAX_FEC_HEADER_OVERHEAD and traffic, no packet comes out larger than the path allows, and no
\* repair frame is too long for an otherwise empty packet.  The two hypotheses are those under which the
\* code keeps room: without the one the SOURCE_SYMBOL header meets a datagram that fills the packet,
\* without the other a repair frame meets a packet that Initial and Handshake packets share.
THEOREM PacketsFit ==
    ASSUME PlainDatagrams, FECAfterHandshake
    PROVE  PackSpec => []PacketFits
<1>1. PackInit => PackTypeInv /\ SymbolsFit
    BY PackInitInv
<1>2. PackTypeInv /\ SymbolsFit /\ [PackNext]_packVars => (PackTypeInv /\ SymbolsFit)'
    BY PackTypeStep, SymbolsFitStep
<1>3. SymbolsFit => PacketFits
    BY DEF SymbolsFit
<1> QED
    BY <1>1, <1>2, <1>3, PTL DEF PackSpec

\* repair_queue.go, packet_packer.go composeNextPacket: for any sizes, traffic and kinds of streams and
\* datagrams, with no more repair than source symbols in a block, REPAIR frames pile up only behind ACKs:
\* each packet that adds a source symbol takes a repair frame along or counts as one that an ACK held back,
\* so the queue can only run full, and Add panic, after that many ACKs.
THEOREM RepairsOnlyLagBehindACKs ==
    ASSUME FewRepairSymbols
    PROVE  PackSpec => []RepairsLagBehindACKs
<1> DEFINE Inv == PackTypeInv /\ RepairsLag
<1>1. PackInit => Inv
    BY PackInitInv
<1>2. Inv /\ [PackNext]_packVars => Inv'
    BY PackTypeStep, RepairsLagStep
<1>3. Inv => RepairsLagBehindACKs
    BY DEF RepairsLag
<1> QED
    BY <1>1, <1>2, <1>3, PTL DEF PackSpec

\* framer.go AppendStreamFrames, packet_packer.go: for any number of streams and any data, a STREAM frame
\* without a length is the last of its packet, or of its source symbol, as long as the streams are all
\* opened with FEC or all without.  With both kinds it is not (the run packer_mixed_streams).
THEOREM UndelimitedFrameIsLast ==
    ASSUME PlainDatagrams, StreamsOfOneKind
    PROVE  PackSpec => []NothingFollowsUndelimitedFrame
<1>1. PackInit => PackTypeInv /\ NothingFollowsUndelimitedFrame
    BY PackInitInv
<1>2. PackTypeInv /\ NothingFollowsUndelimitedFrame /\ [PackNext]_packVars => (PackTypeInv /\ NothingFollowsUndelimitedFrame)'
    BY PackTypeStep, UndelimitedStep
<1> QED
    BY <1>1, <1>2, PTL DEF PackSpec
=============================================================================
