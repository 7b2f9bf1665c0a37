--------------------------- MODULE StreamsProofs ---------------------------
(***************************************************************************)
(* Proofs about the streams of a connection.                               *)
(*                                                                         *)
(* The outgoing and the incoming streams map agree on their limits, for    *)
(* any limits and any number of goroutines, and no call of OpenStreamSync  *)
(* waits for a stream it could open.                                       *)
(*                                                                         *)
(* A receive stream hands the application the bytes of the stream in       *)
(* order, however the peer framed, repeated and overlapped them; no Read   *)
(* waits for something that is there; and the stream ends once.            *)
(***************************************************************************)
EXTENDS StreamsMap, ReceiveStream, FiniteSetTheorems, SequenceTheorems, WellFoundedInduction, TLAPS

-----------------------------------------------------------------------------
(* The streams maps.                                                       *)

\* The accepter allows a stream at least: a client remembers a limit for 0-RTT that the
\* server may not lower.
Limits == maxNumStreams \in Nat \ {0} /\ MaxStreamCount \in Nat

\* AcceptStream is called by one goroutine at a time: a call that starts takes the
\* signal that a waiting one is to get.
OneAccepter == \A a, b \in Accepters : a = b

\* Types of what the limits depend on.
OutType ==
    /\ nextStream \in Nat /\ nextStream >= 1 /\ maxStream \in Int
    /\ lowestInQueue \in Nat /\ highestInQueue \in Nat
    /\ openQueue \in SUBSET Nat /\ woken \in SUBSET openQueue
    /\ opener \in [Openers -> Int]

InType ==
    /\ inStreams \in SUBSET Nat /\ nextStreamToAccept \in Nat
    /\ nextStreamToOpen \in Nat /\ nextStreamToOpen >= 1 /\ inMaxStream \in Nat
    /\ accepter \in [Accepters -> BOOLEAN]
    /\ offered \in SUBSET Nat

\* The opener keeps its limit, which the accepter has given or has raised since.
LinkInv ==
    /\ nextStream = 1 \/ nextStream - 1 <= maxStream
    /\ maxStream <= inMaxStream
    /\ \A n \in offered : n <= inMaxStream

\* The accepter's limit leaves room for maxNumStreams streams, and no more.
RoomInv ==
    /\ IsFiniteSet(inStreams)
    /\ \A n \in inStreams : n < nextStreamToOpen
    /\ maxNumStreams <= inMaxStream
    /\ nextStreamToOpen - 1 <= inMaxStream
    /\ inMaxStream <= nextStreamToOpen + (maxNumStreams - Cardinality(inStreams)) - 1

\* Waiting calls queue in the order they came, each at its place, and only the first
\* holds a signal.
QueueInv ==
    /\ \A p \in openQueue : lowestInQueue <= p /\ p < highestInQueue
    /\ \A p \in openQueue : \E o \in Openers : opener[o] = p
    /\ \A w \in woken, p \in openQueue : w <= p

\* An AcceptStream that waits unsignalled has no stream to return.
AcceptInv == \A a \in Accepters : (accepter[a] /\ ~newStreamChan) => nextStreamToAccept \notin inStreams

\* The invariant of the streams maps.
IInv ==
    /\ OutType /\ InType /\ LinkInv /\ RoomInv /\ QueueInv
    /\ ~LateCancel => OpenerIsWoken
    /\ OneAccepter => AcceptInv

-----------------------------------------------------------------------------
\* A step of the outgoing map leaves the incoming one alone.
LEMMA OutStep ==
    ASSUME IInv, UNCHANGED inVars,
           OutType', QueueInv', ~LateCancel => OpenerIsWoken',
           nextStream' = 1 \/ nextStream' - 1 <= maxStream', maxStream' <= inMaxStream
    PROVE  IInv'
<1>1. UNCHANGED <<inStreams, nextStreamToAccept, nextStreamToOpen, inMaxStream, newStreamChan,
                  accepter, offered>>
    BY DEF inVars
<1>2. InType'
    BY <1>1 DEF IInv, InType
<1>3. LinkInv'
    BY <1>1 DEF IInv, LinkInv
<1>4. RoomInv'
    BY <1>1 DEF IInv, RoomInv
<1>5. OneAccepter => AcceptInv'
    BY <1>1 DEF IInv, AcceptInv
<1> QED
    BY <1>2, <1>3, <1>4, <1>5 DEF IInv

\* A step of the incoming map leaves the outgoing one alone, and its limit only grows.
LEMMA InStep ==
    ASSUME IInv, UNCHANGED outVars,
           InType', RoomInv', OneAccepter => AcceptInv',
           inMaxStream <= inMaxStream', \A n \in offered' : n <= inMaxStream'
    PROVE  IInv'
<1>1. UNCHANGED <<nextStream, maxStream, lowestInQueue, highestInQueue, openQueue, woken, opener>>
    BY DEF outVars
<1>2. OutType'
    BY <1>1 DEF IInv, OutType
<1>3. LinkInv'
  <2>1. maxStream \in Int /\ inMaxStream \in Nat /\ inMaxStream' \in Nat
      BY DEF IInv, OutType, InType
  <2>2. maxStream' <= inMaxStream'
      BY <1>1, <2>1 DEF IInv, LinkInv
  <2>3. nextStream' = 1 \/ nextStream' - 1 <= maxStream'
      BY <1>1 DEF IInv, LinkInv
  <2> QED
      BY <2>2, <2>3 DEF LinkInv
<1>4. QueueInv'
    BY <1>1 DEF IInv, QueueInv
<1>5. ~LateCancel => OpenerIsWoken'
    BY <1>1 DEF IInv, OpenerIsWoken
<1> QED
    BY <1>2, <1>3, <1>4, <1>5 DEF IInv

\* What the steps below start from.
LEMMA OutFacts ==
    ASSUME IInv
    PROVE  /\ nextStream \in Nat /\ nextStream >= 1 /\ maxStream \in Int /\ inMaxStream \in Nat
           /\ lowestInQueue \in Nat /\ highestInQueue \in Nat
           /\ openQueue \in SUBSET Nat /\ woken \in SUBSET openQueue
           /\ opener \in [Openers -> Int]
           /\ nextStream = 1 \/ nextStream - 1 <= maxStream
           /\ maxStream <= inMaxStream
           /\ \A p \in openQueue : lowestInQueue <= p /\ p < highestInQueue
           /\ \A p \in openQueue : \E o \in Openers : opener[o] = p
           /\ \A w \in woken, p \in openQueue : w <= p
           /\ ~LateCancel => OpenerIsWoken
BY DEF IInv, OutType, InType, LinkInv, QueueInv

-----------------------------------------------------------------------------
(* Outgoing *)

\* OpenStream gives way to waiting calls.
LEMMA OpenStreamInv ==
    ASSUME IInv, OpenStream
    PROVE  IInv'
<1>1. UNCHANGED inVars /\ UNCHANGED <<openQueue, lowestInQueue, highestInQueue, maxStream, opener, woken>>
    BY DEF OpenStream
<1>2. CASE openQueue # {} \/ nextStream > maxStream
  <2>1. nextStream' = nextStream
      BY <1>2 DEF OpenStream
  <2>2. OutType' /\ QueueInv' /\ (~LateCancel => OpenerIsWoken')
      BY <1>1, <2>1, OutFacts DEF OutType, QueueInv, OpenerIsWoken
  <2> QED
      BY <1>1, <2>1, <2>2, OutFacts, OutStep
<1>3. CASE ~(openQueue # {} \/ nextStream > maxStream)
  <2>1. nextStream' = nextStream + 1
      BY <1>3 DEF OpenStream, openStream
  <2>2. openQueue = {} /\ nextStream <= maxStream
      BY <1>3, OutFacts
  <2>3. OutType'
      BY <1>1, <2>1, OutFacts DEF OutType
  <2>4. QueueInv' /\ OpenerIsWoken'
      BY <1>1, <2>2 DEF QueueInv, OpenerIsWoken, IInv, OutType
  <2>5. nextStream' - 1 <= maxStream' /\ maxStream' <= inMaxStream
      BY <1>1, <2>1, <2>2, OutFacts
  <2> QED
      BY <1>1, <2>3, <2>4, <2>5, OutStep
<1> QED
    BY <1>2, <1>3

\* OpenStreamSync opens a stream if nobody waits, and else waits behind the others.
LEMMA OpenStreamSyncInv ==
    ASSUME IInv, NEW o \in Openers, OpenStreamSync(o)
    PROVE  IInv'
<1>1. UNCHANGED inVars /\ UNCHANGED <<maxStream, woken>> /\ opener[o] = Idle
    BY DEF OpenStreamSync
<1>2. CASE openQueue = {} /\ nextStream <= maxStream
  <2>1. nextStream' = nextStream + 1 /\ UNCHANGED <<openQueue, lowestInQueue, highestInQueue, opener>>
      BY <1>2 DEF OpenStreamSync, openStream
  <2>2. OutType'
      BY <1>1, <2>1, OutFacts DEF OutType
  <2>3. QueueInv' /\ OpenerIsWoken'
      BY <1>1, <1>2, <2>1 DEF QueueInv, OpenerIsWoken, IInv, OutType
  <2>4. nextStream' - 1 <= maxStream' /\ maxStream' <= inMaxStream
      BY <1>1, <1>2, <2>1, OutFacts
  <2> QED
      BY <1>1, <2>2, <2>3, <2>4, OutStep
<1>3. CASE ~(openQueue = {} /\ nextStream <= maxStream)
  <2>1. /\ opener' = [opener EXCEPT ![o] = highestInQueue]
        /\ highestInQueue' = highestInQueue + 1
        /\ lowestInQueue' = IF openQueue = {} THEN highestInQueue ELSE lowestInQueue
        /\ openQueue' = openQueue \cup {highestInQueue}
        /\ nextStream' = nextStream
      BY <1>3 DEF OpenStreamSync
  <2>2. OutType'
      BY <1>1, <2>1, OutFacts DEF OutType
  <2>3. /\ opener'[o] = highestInQueue
        /\ \A x \in Openers : x # o => opener'[x] = opener[x]
        /\ \A p \in openQueue : p \in Nat /\ p # Idle
      BY <2>1, OutFacts DEF Idle
  <2>4. \A p \in openQueue' : lowestInQueue' <= p /\ p < highestInQueue'
      BY <2>1, OutFacts
  <2>5. \A p \in openQueue' : \E x \in Openers : opener'[x] = p
    <3>1. ASSUME NEW p \in openQueue PROVE \E x \in Openers : opener'[x] = p
        BY <1>1, <2>3, OutFacts
    <3> QED
        BY <2>1, <2>3, <3>1
  <2>6. \A w \in woken', p \in openQueue' : w <= p
    <3>1. \A w \in woken : w \in Nat /\ w < highestInQueue
        BY OutFacts
    <3> QED
        BY <1>1, <2>1, <3>1, OutFacts
  <2>7. ~LateCancel => OpenerIsWoken'
    <3> SUFFICES ASSUME ~LateCancel, nextStream' <= maxStream' PROVE \E x \in Openers : opener'[x] \in woken'
        BY DEF OpenerIsWoken
    <3>1. openQueue # {}
        BY <1>1, <1>3, <2>1
    <3>2. PICK x \in Openers : opener[x] \in woken
        BY <1>1, <2>1, <3>1, OutFacts DEF OpenerIsWoken
    <3>3. x # o
        BY <1>1, <2>3, <3>2, OutFacts
    <3> QED
        BY <1>1, <2>3, <3>2, <3>3
  <2>8. nextStream' = 1 \/ nextStream' - 1 <= maxStream'
      BY <1>1, <2>1, OutFacts
  <2> QED
      BY <1>1, <2>2, <2>4, <2>5, <2>6, <2>7, <2>8, OutFacts, OutStep DEF QueueInv
<1> QED
    BY <1>2, <1>3

\* The first of the places that are left.
LEMMA FirstPlace ==
    ASSUME NEW q, q \subseteq Nat, q # {}
    PROVE  \E p \in q : \A x \in q : p <= x
<1>1. PICK p \in q : \A y \in q : ~ <<y, p>> \in OpToRel(<, Nat)
    BY NatLessThanWellFounded, WFMin
<1>2. \A y \in q : ~(y < p)
    BY <1>1 DEF OpToRel
<1> QED
    BY <1>2

\* unblockOpenSync signals the first of the waiting calls, and only it.
LEMMA SignalsFirst ==
    ASSUME NEW q, q \subseteq Nat, NEW lowest \in Nat, \A p \in q : lowest <= p,
           NEW signals, signals = unblockOpenSync(q, lowest)
    PROVE  /\ \A w \in signals : w \in woken \/ (w \in q /\ \A x \in q : w <= x)
           /\ woken \subseteq signals
           /\ q # {} => \E p \in q : p \in signals
<1>1. \A w \in signals : w \in woken \/ (w \in q /\ \A x \in q : w <= x)
    BY DEF unblockOpenSync
<1>2. woken \subseteq signals
    BY DEF unblockOpenSync
<1>3. ASSUME q # {} PROVE \E p \in q : p \in signals
  <2>1. PICK p \in q : \A x \in q : p <= x
      BY <1>3, FirstPlace
  <2>2. p >= lowest
      BY <2>1
  <2> QED
      BY <2>1, <2>2 DEF unblockOpenSync
<1> QED
    BY <1>1, <1>2, <1>3

\* A call that was signalled opens a stream and passes the signal on.
LEMMA OpenSyncWakesInv ==
    ASSUME IInv, NEW o \in Openers, OpenSyncWakes(o)
    PROVE  IInv'
<1> DEFINE x == opener[o]
<1>1. UNCHANGED inVars /\ UNCHANGED <<highestInQueue, maxStream>> /\ x \in woken
    BY DEF OpenSyncWakes
<1>2. x \in openQueue /\ x \in Nat /\ \A p \in openQueue : p \in Nat /\ x <= p
    BY <1>1, OutFacts
<1>3. CASE nextStream > maxStream
  <2>1. woken' = woken \ {x} /\ UNCHANGED <<nextStream, openQueue, lowestInQueue, opener>>
      BY <1>3 DEF OpenSyncWakes
  <2>2. OutType' /\ QueueInv'
      BY <1>1, <2>1, OutFacts DEF OutType, QueueInv
  <2>3. OpenerIsWoken'
      BY <1>1, <1>3, <2>1, OutFacts DEF OpenerIsWoken
  <2> QED
      BY <1>1, <2>1, <2>2, <2>3, OutFacts, OutStep
<1>4. CASE ~(nextStream > maxStream)
  <2>1. /\ nextStream' = nextStream + 1
        /\ openQueue' = openQueue \ {x} /\ lowestInQueue' = x + 1
        /\ woken' = unblockOpenSync(openQueue', lowestInQueue') \ {x}
        /\ opener' = [opener EXCEPT ![o] = Idle]
      BY <1>4 DEF OpenSyncWakes, openStream
  <2> DEFINE signals == unblockOpenSync(openQueue', lowestInQueue')
  <2>2. openQueue' \subseteq Nat /\ lowestInQueue' \in Nat /\ \A p \in openQueue' : lowestInQueue' <= p
      BY <1>2, <2>1, OutFacts
  <2>3. /\ \A w \in signals : w \in woken \/ (w \in openQueue' /\ \A p \in openQueue' : w <= p)
        /\ openQueue' # {} => \E p \in openQueue' : p \in signals
      BY <2>2, SignalsFirst
  <2>4. woken' = signals \ {x}
      BY <2>1
  <2> HIDE DEF signals
  <2>5. \A w \in woken : w = x
    <3>1. ASSUME NEW w \in woken PROVE w = x
      <4>1. w \in Nat /\ w <= x /\ x <= w
          BY <1>2, OutFacts
      <4> QED
          BY <1>2, <4>1
    <3> QED
        BY <3>1
  <2>6. \A w \in woken' : w \in openQueue' /\ \A p \in openQueue' : w <= p
      BY <2>3, <2>4, <2>5
  <2>7. /\ opener' \in [Openers -> Int]
        /\ \A y \in Openers : y # o => opener'[y] = opener[y]
      BY <2>1, OutFacts DEF Idle
  <2>8. OutType'
    <3>1. nextStream' \in Nat /\ nextStream' >= 1 /\ maxStream' \in Int /\ highestInQueue' \in Nat
        BY <1>1, <2>1, OutFacts
    <3>2. woken' \in SUBSET openQueue'
        BY <2>6
    <3> QED
        BY <2>2, <2>7, <3>1, <3>2 DEF OutType
  <2>9. \A p \in openQueue' : \E y \in Openers : opener'[y] = p
    <3>1. ASSUME NEW p \in openQueue' PROVE \E y \in Openers : opener'[y] = p
      <4>1. p \in openQueue /\ p # x
          BY <2>1
      <4>2. PICK y \in Openers : opener[y] = p
          BY <4>1, OutFacts
      <4>3. y # o
          BY <4>1, <4>2
      <4> QED
          BY <2>7, <4>2, <4>3
    <3> QED
        BY <3>1
  <2>10. QueueInv'
    <3>1. \A p \in openQueue' : p < highestInQueue'
        BY <1>1, <2>1, OutFacts
    <3> QED
        BY <2>2, <2>6, <2>9, <3>1 DEF QueueInv
  <2>11. OpenerIsWoken'
    <3> SUFFICES ASSUME openQueue' # {} PROVE \E y \in Openers : opener'[y] \in woken'
        BY DEF OpenerIsWoken
    <3>1. PICK p \in openQueue' : p \in signals
        BY <2>3
    <3>2. p \in woken'
        BY <2>1, <2>4, <3>1
    <3> QED
        BY <2>9, <3>1, <3>2
  <2>12. nextStream' - 1 <= maxStream' /\ maxStream' <= inMaxStream
      BY <1>1, <1>4, <2>1, OutFacts
  <2> QED
      BY <1>1, <2>8, <2>10, <2>11, <2>12, OutStep
<1> QED
    BY <1>3, <1>4

\* The context of a waiting call ends; unless it had been signalled, another has the
\* signal or there is no stream to open.
LEMMA OpenSyncCanceledInv ==
    ASSUME IInv, NEW o \in Openers, OpenSyncCanceled(o)
    PROVE  IInv'
<1> DEFINE x == opener[o]
<1>1. /\ x \in openQueue /\ (~LateCancel => x \notin woken)
      /\ openQueue' = openQueue \ {x} /\ woken' = woken \ {x}
      /\ opener' = [opener EXCEPT ![o] = Idle]
      /\ UNCHANGED inVars /\ UNCHANGED <<lowestInQueue, highestInQueue, nextStream, maxStream>>
    BY DEF OpenSyncCanceled
<1>2. opener' \in [Openers -> Int] /\ \A y \in Openers : y # o => opener'[y] = opener[y]
    BY <1>1, OutFacts DEF Idle
<1>3. OutType'
    BY <1>1, <1>2, OutFacts DEF OutType
<1>4. \A p \in openQueue' : \E y \in Openers : opener'[y] = p
  <2>1. ASSUME NEW p \in openQueue' PROVE \E y \in Openers : opener'[y] = p
    <3>1. PICK y \in Openers : opener[y] = p
        BY <1>1, OutFacts
    <3>2. y # o
        BY <1>1, <3>1
    <3> QED
        BY <1>2, <3>1, <3>2
  <2> QED
      BY <2>1
<1>5. QueueInv'
    BY <1>1, <1>4, OutFacts DEF QueueInv
<1>6. ~LateCancel => OpenerIsWoken'
  <2> SUFFICES ASSUME ~LateCancel, openQueue' # {}, nextStream' <= maxStream'
               PROVE  \E y \in Openers : opener'[y] \in woken'
      BY DEF OpenerIsWoken
  <2>1. PICK y \in Openers : opener[y] \in woken
      BY <1>1, OutFacts DEF OpenerIsWoken
  <2>2. y # o /\ opener[y] # x
      BY <1>1, <2>1
  <2> QED
      BY <1>1, <1>2, <2>1, <2>2
<1> HIDE DEF x
<1> QED
    BY <1>1, <1>3, <1>5, <1>6, OutFacts, OutStep

\* A call on a map that was closed returns; it was not in the queue any more.
LEMMA OpenSyncReturnsErrorInv ==
    ASSUME IInv, NEW o \in Openers, OpenSyncReturnsError(o)
    PROVE  IInv'
<1>1. /\ opener[o] = Closed /\ opener' = [opener EXCEPT ![o] = Idle]
      /\ UNCHANGED inVars
      /\ UNCHANGED <<openQueue, lowestInQueue, highestInQueue, nextStream, maxStream, woken>>
    BY DEF OpenSyncReturnsError
<1>2. /\ opener' \in [Openers -> Int] /\ \A y \in Openers : y # o => opener'[y] = opener[y]
      /\ opener[o] \notin Nat
    BY <1>1, OutFacts DEF Idle, Closed
<1>3. \A y \in Openers : opener[y] \in Nat => opener'[y] = opener[y]
    BY <1>2
<1>4. OutType'
    BY <1>1, <1>2, OutFacts DEF OutType
<1>5. \A p \in openQueue' : \E y \in Openers : opener'[y] = p
  <2>1. ASSUME NEW p \in openQueue PROVE \E y \in Openers : opener'[y] = p
    <3>1. p \in Nat
        BY OutFacts
    <3> QED
        BY <1>3, <3>1, OutFacts
  <2> QED
      BY <1>1, <2>1
<1>6. QueueInv'
    BY <1>1, <1>5, OutFacts DEF QueueInv
<1>7. ~LateCancel => OpenerIsWoken'
  <2>1. woken \subseteq Nat
      BY OutFacts
  <2> QED
      BY <1>1, <1>3, <2>1, OutFacts DEF OpenerIsWoken
<1> QED
    BY <1>1, <1>4, <1>6, <1>7, OutFacts, OutStep

\* A limit that the accepter has given lets the first waiting call go on.
LEMMA SetMaxStreamInv ==
    ASSUME IInv, NEW n \in Nat, n <= inMaxStream, SetMaxStream(n)
    PROVE  IInv'
<1>1. /\ n > maxStream /\ maxStream' = n
      /\ woken' = unblockOpenSync(openQueue, lowestInQueue)
      /\ UNCHANGED inVars /\ UNCHANGED <<openQueue, lowestInQueue, highestInQueue, nextStream, opener>>
    BY DEF SetMaxStream
<1>2. /\ \A w \in woken' : w \in woken \/ (w \in openQueue /\ \A x \in openQueue : w <= x)
      /\ openQueue # {} => \E p \in openQueue : p \in woken'
  <2>1. openQueue \subseteq Nat /\ lowestInQueue \in Nat /\ \A p \in openQueue : lowestInQueue <= p
      BY OutFacts
  <2> QED
      BY <1>1, <2>1, SignalsFirst
<1>3. OutType'
    BY <1>1, <1>2, OutFacts DEF OutType
<1>4. QueueInv'
    BY <1>1, <1>2, OutFacts DEF QueueInv
<1>5. OpenerIsWoken'
    BY <1>1, <1>2, OutFacts DEF OpenerIsWoken
<1>6. nextStream' = 1 \/ nextStream' - 1 <= maxStream'
    BY <1>1, OutFacts
<1> QED
    BY <1>1, <1>3, <1>4, <1>5, <1>6, OutStep

\* Steps that do not touch the queue or the limits.
LEMMA OutUnchanged ==
    ASSUME IInv, UNCHANGED inVars,
           UNCHANGED <<openQueue, lowestInQueue, highestInQueue, nextStream, maxStream, opener, woken>>
    PROVE  IInv'
<1>1. OutType' /\ QueueInv'
    BY OutFacts DEF OutType, QueueInv
<1>2. ~LateCancel => OpenerIsWoken'
    BY OutFacts DEF OpenerIsWoken
<1> QED
    BY <1>1, <1>2, OutFacts, OutStep

\* CloseWithError empties the queue.
LEMMA CloseWaitersInv ==
    ASSUME IInv, UNCHANGED inVars, closeWaiters, openQueue' = {}, woken' = {},
           lowestInQueue' \in Nat, highestInQueue' \in Nat,
           \/ UNCHANGED <<nextStream, maxStream>>
           \/ nextStream' = 1 /\ maxStream' = InvalidStreamNum
    PROVE  IInv'
<1>1. opener' \in [Openers -> Int]
  <2>1. \A o \in Openers : (IF opener[o] \in openQueue THEN Closed ELSE opener[o]) \in Int
      BY OutFacts DEF Closed
  <2> QED
      BY <2>1 DEF closeWaiters
<1>2. /\ nextStream' \in Nat /\ nextStream' >= 1 /\ maxStream' \in Int
      /\ nextStream' = 1 \/ nextStream' - 1 <= maxStream'
      /\ maxStream' <= inMaxStream
    BY OutFacts DEF InvalidStreamNum
<1>3. OutType'
    BY <1>1, <1>2 DEF OutType
<1>4. QueueInv' /\ OpenerIsWoken'
    BY DEF QueueInv, OpenerIsWoken
<1> QED
    BY <1>2, <1>3, <1>4, OutStep

\* Every step of the outgoing map keeps the invariant.
LEMMA OutgoingInv ==
    ASSUME Limits, IInv,
           \/ OpenStream \/ UpdateLimits \/ ResetFor0RTT \/ UseResetMaps \/ CloseOutgoing
           \/ \E o \in Openers : \/ OpenStreamSync(o) \/ OpenSyncWakes(o)
                                 \/ OpenSyncCanceled(o) \/ OpenSyncReturnsError(o)
           \/ \E n \in offered : HandleMaxStreamsFrame(n)
           \/ \E n \in outStreams : OutDeleteStream(n)
    PROVE  IInv'
<1>1. CASE UpdateLimits
  <2>1. CASE SetMaxStream(maxNumStreams)
    <3>1. maxNumStreams \in Nat /\ maxNumStreams <= inMaxStream
        BY DEF Limits, IInv, RoomInv
    <3> QED
        BY <2>1, <3>1, SetMaxStreamInv
  <2>2. CASE UNCHANGED <<outVars, inVars>>
      BY <2>2, OutUnchanged DEF outVars
  <2> QED
      BY <1>1, <2>1, <2>2 DEF UpdateLimits
<1>2. CASE ResetFor0RTT
  <2>1. /\ closeWaiters /\ openQueue' = {} /\ woken' = {} /\ nextStream' = 1
        /\ maxStream' = InvalidStreamNum /\ lowestInQueue' = 0 /\ highestInQueue' = 0 /\ UNCHANGED inVars
      BY <1>2 DEF ResetFor0RTT
  <2> QED
      BY <2>1, CloseWaitersInv
<1>3. CASE CloseOutgoing
  <2>1. /\ closeWaiters /\ openQueue' = {} /\ woken' = {} /\ UNCHANGED inVars
        /\ UNCHANGED <<nextStream, maxStream>> /\ UNCHANGED <<lowestInQueue, highestInQueue>>
      BY <1>3 DEF CloseOutgoing
  <2> QED
      BY <2>1, OutFacts, CloseWaitersInv
<1>4. CASE UseResetMaps
    BY <1>4, OutUnchanged DEF UseResetMaps
<1>5. ASSUME NEW n \in offered, HandleMaxStreamsFrame(n) PROVE IInv'
  <2>1. n \in Nat /\ n <= inMaxStream
      BY DEF IInv, InType, LinkInv
  <2> QED
      BY <1>5, <2>1, SetMaxStreamInv DEF HandleMaxStreamsFrame
<1>6. ASSUME NEW n \in outStreams, OutDeleteStream(n) PROVE IInv'
    BY <1>6, OutUnchanged DEF OutDeleteStream
<1>7. ASSUME NEW o \in Openers,
             OpenStreamSync(o) \/ OpenSyncWakes(o) \/ OpenSyncCanceled(o) \/ OpenSyncReturnsError(o)
      PROVE  IInv'
    BY <1>7, OpenStreamSyncInv, OpenSyncWakesInv, OpenSyncCanceledInv, OpenSyncReturnsErrorInv
<1> QED
    BY <1>1, <1>2, <1>3, <1>4, <1>5, <1>6, <1>7, OpenStreamInv

-----------------------------------------------------------------------------
(* Incoming *)

\* What the steps below start from.
LEMMA InFacts ==
    ASSUME Limits, IInv
    PROVE  /\ inStreams \in SUBSET Nat /\ IsFiniteSet(inStreams) /\ Cardinality(inStreams) \in Nat
           /\ nextStreamToAccept \in Nat /\ nextStreamToOpen \in Nat /\ nextStreamToOpen >= 1
           /\ inMaxStream \in Nat /\ offered \in SUBSET Nat /\ accepter \in [Accepters -> BOOLEAN]
           /\ maxNumStreams \in Nat /\ maxNumStreams <= inMaxStream
           /\ \A n \in inStreams : n < nextStreamToOpen
           /\ nextStreamToOpen - 1 <= inMaxStream
           /\ inMaxStream <= nextStreamToOpen + (maxNumStreams - Cardinality(inStreams)) - 1
           /\ \A n \in offered : n <= inMaxStream
<1>1. IsFiniteSet(inStreams)
    BY DEF IInv, RoomInv
<1> QED
    BY <1>1, FS_CardinalityType DEF Limits, IInv, InType, LinkInv, RoomInv

\* A frame opens its stream and those below; they take the room that was announced.
LEMMA GetOrOpenStreamInv ==
    ASSUME Limits, IInv, NEW n \in Nat, GetOrOpenStream(n)
    PROVE  IInv'
<1> DEFINE new == nextStreamToOpen .. n
<1>1. /\ n >= nextStreamToOpen /\ n <= inMaxStream
      /\ inStreams' = inStreams \cup new /\ newStreamChan' = TRUE /\ nextStreamToOpen' = n + 1
      /\ UNCHANGED outVars /\ UNCHANGED <<nextStreamToAccept, inMaxStream, accepter, offered>>
    BY DEF GetOrOpenStream
<1>2. IsFiniteSet(new) /\ Cardinality(new) = n - nextStreamToOpen + 1
  <2>1. nextStreamToOpen \in Int /\ n \in Int /\ ~(nextStreamToOpen > n)
      BY <1>1, InFacts
  <2> QED
      BY <2>1, FS_Interval
<1>3. inStreams \cap new = {}
    BY <1>1, InFacts
<1>4. new \subseteq Nat /\ \A x \in new : x < n + 1
    BY InFacts
<1> HIDE DEF new
<1>5. IsFiniteSet(inStreams') /\ Cardinality(inStreams') = Cardinality(inStreams) + (n - nextStreamToOpen + 1)
  <2>1. /\ IsFiniteSet(inStreams \cup new)
        /\ Cardinality(inStreams \cup new)
             = Cardinality(inStreams) + Cardinality(new) - Cardinality(inStreams \cap new)
      BY <1>2, InFacts, FS_Union
  <2>2. Cardinality(inStreams \cap new) = 0
      BY <1>3, FS_EmptySet
  <2> QED
      BY <1>1, <1>2, <2>1, <2>2, InFacts
<1>6. InType'
  <2>1. inStreams' \in SUBSET Nat
      BY <1>1, <1>4, InFacts
  <2>2. n + 1 \in Nat /\ n + 1 >= 1
      BY <1>1, InFacts
  <2> QED
      BY <1>1, <2>1, <2>2, InFacts, Zenon DEF InType
<1>7. RoomInv'
  <2>1. \A x \in inStreams' : x < nextStreamToOpen'
    <3>1. \A x \in inStreams : x \in Nat /\ x < n + 1
        BY <1>1, InFacts
    <3> QED
        BY <1>1, <1>4, <3>1
  <2>2. inMaxStream' <= nextStreamToOpen' + (maxNumStreams - Cardinality(inStreams')) - 1
      BY <1>1, <1>5, InFacts
  <2>3. nextStreamToOpen' - 1 <= inMaxStream' /\ maxNumStreams <= inMaxStream'
      BY <1>1, InFacts
  <2> QED
      BY <1>5, <2>1, <2>2, <2>3 DEF RoomInv
<1>8. AcceptInv'
    BY <1>1, Zenon DEF AcceptInv
<1> QED
    BY <1>1, <1>6, <1>7, <1>8, InFacts, InStep

\* deleteStream leaves room for one more stream.
LEMMA DeleteRoom ==
    ASSUME Limits, IInv, NEW n \in inStreams, deleteAccepted(n), nextStreamToOpen' = nextStreamToOpen
    PROVE  /\ inStreams' = inStreams \ {n} /\ RoomInv'
           /\ inMaxStream' \in Nat /\ inMaxStream <= inMaxStream'
           /\ offered' \in SUBSET Nat /\ \A m \in offered' : m <= inMaxStream'
<1>1. inStreams' = inStreams \ {n}
    BY DEF deleteAccepted
<1> DEFINE limit == limitAfter(inStreams')
<1>2. \/ inMaxStream' = limit /\ offered' = offered \cup {limit}
      \/ UNCHANGED <<inMaxStream, offered>>
    BY DEF deleteAccepted
<1>3. IsFiniteSet(inStreams') /\ Cardinality(inStreams') = Cardinality(inStreams) - 1
    BY <1>1, InFacts, FS_RemoveElement
<1>4. limit = nextStreamToOpen + (maxNumStreams - (Cardinality(inStreams) - 1)) - 1
    BY <1>3 DEF limitAfter
<1> HIDE DEF limit
<1>5. limit \in Nat /\ inMaxStream <= limit
  <2>1. limit \in Int
      BY <1>4, InFacts
  <2> QED
      BY <1>4, <2>1, InFacts
<1>6. inMaxStream' \in Nat /\ inMaxStream <= inMaxStream' /\ inMaxStream' <= limit
    BY <1>2, <1>5, InFacts
<1>7. offered' \in SUBSET Nat /\ \A m \in offered' : m <= inMaxStream'
    BY <1>2, <1>5, InFacts
<1>8. RoomInv'
  <2>1. \A m \in inStreams' : m < nextStreamToOpen'
      BY <1>1, InFacts
  <2>2. maxNumStreams <= inMaxStream' /\ nextStreamToOpen' - 1 <= inMaxStream'
      BY <1>6, InFacts
  <2>3. inMaxStream' <= nextStreamToOpen' + (maxNumStreams - Cardinality(inStreams')) - 1
      BY <1>3, <1>4, <1>6
  <2> QED
      BY <1>3, <2>1, <2>2, <2>3 DEF RoomInv
<1> QED
    BY <1>1, <1>6, <1>7, <1>8

\* DeleteStream of a stream that was accepted, or a mark for one that was not.
LEMMA InDeleteStreamInv ==
    ASSUME Limits, IInv, NEW n \in inStreams, InDeleteStream(n)
    PROVE  IInv'
<1>1. /\ UNCHANGED outVars
      /\ UNCHANGED <<nextStreamToAccept, nextStreamToOpen, newStreamChan, accepter>>
    BY DEF InDeleteStream
<1>2. CASE UNCHANGED <<inStreams, inMaxStream, offered>>
  <2>1. InType' /\ RoomInv'
      BY <1>1, <1>2, InFacts DEF InType, RoomInv
  <2>2. OneAccepter => AcceptInv'
      BY <1>1, <1>2 DEF IInv, AcceptInv
  <2> QED
      BY <1>1, <1>2, <2>1, <2>2, InFacts, InStep
<1>3. CASE deleteAccepted(n)
  <2>1. /\ inStreams' = inStreams \ {n} /\ RoomInv'
        /\ inMaxStream' \in Nat /\ inMaxStream <= inMaxStream'
        /\ offered' \in SUBSET Nat /\ \A m \in offered' : m <= inMaxStream'
      BY <1>1, <1>3, DeleteRoom
  <2>2. InType'
      BY <1>1, <2>1, InFacts DEF InType
  <2>3. OneAccepter => AcceptInv'
      BY <1>1, <2>1 DEF IInv, AcceptInv
  <2> QED
      BY <1>1, <2>1, <2>2, <2>3, InStep
<1> QED
    BY <1>2, <1>3 DEF InDeleteStream

\* AcceptStream takes the next stream, or waits if there is none.
LEMMA AcceptLoopInv ==
    ASSUME Limits, IInv, NEW a \in Accepters, acceptLoop(a), newStreamChan' = inClosed
    PROVE  IInv'
<1>1. UNCHANGED outVars /\ UNCHANGED nextStreamToOpen
    BY DEF acceptLoop
<1>2. CASE inClosed \/ nextStreamToAccept \notin inStreams
  <2>1. /\ accepter' = [accepter EXCEPT ![a] = ~inClosed]
        /\ UNCHANGED <<inStreams, inMaxStream, offered, nextStreamToAccept>>
      BY <1>2 DEF acceptLoop
  <2>2. accepter' \in [Accepters -> BOOLEAN]
      BY <2>1, InFacts
  <2>3. InType' /\ RoomInv'
      BY <1>1, <2>1, <2>2, InFacts DEF InType, RoomInv
  <2>4. OneAccepter => AcceptInv'
    <3> SUFFICES ASSUME OneAccepter, NEW b \in Accepters, accepter'[b], ~newStreamChan'
                 PROVE  nextStreamToAccept' \notin inStreams'
        BY DEF AcceptInv
    <3>1. ~inClosed
        OBVIOUS
    <3> QED
        BY <1>2, <2>1, <3>1
  <2> QED
      BY <1>1, <2>1, <2>3, <2>4, InFacts, InStep
<1>3. CASE ~(inClosed \/ nextStreamToAccept \notin inStreams)
  <2>1. /\ accepter' = [accepter EXCEPT ![a] = FALSE]
        /\ nextStreamToAccept' = nextStreamToAccept + 1
        /\ \/ deleteAccepted(nextStreamToAccept)
           \/ UNCHANGED <<inStreams, inMaxStream, offered>>
      BY <1>3 DEF acceptLoop
  <2>2. accepter' \in [Accepters -> BOOLEAN] /\ ~accepter'[a]
      BY <2>1, InFacts
  <2>3. OneAccepter => AcceptInv'
      BY <2>2, Zenon DEF OneAccepter, AcceptInv
  <2>4. /\ inStreams' \in SUBSET Nat /\ RoomInv'
        /\ inMaxStream' \in Nat /\ inMaxStream <= inMaxStream'
        /\ offered' \in SUBSET Nat /\ \A m \in offered' : m <= inMaxStream'
    <3>1. CASE deleteAccepted(nextStreamToAccept)
        BY <1>1, <1>3, <3>1, InFacts, DeleteRoom
    <3>2. CASE UNCHANGED <<inStreams, inMaxStream, offered>>
        BY <1>1, <3>2, InFacts DEF RoomInv
    <3> QED
        BY <2>1, <3>1, <3>2
  <2>5. InType'
      BY <1>1, <2>1, <2>2, <2>4, InFacts DEF InType
  <2> QED
      BY <1>1, <2>3, <2>4, <2>5, InStep
<1> QED
    BY <1>2, <1>3

\* An AcceptStream is canceled, or the map is closed, which wakes all.
LEMMA InEndsInv ==
    ASSUME Limits, IInv, CloseIncoming \/ \E a \in Accepters : AcceptCanceled(a)
    PROVE  IInv'
<1>1. CASE CloseIncoming
  <2>1. /\ newStreamChan' = TRUE /\ UNCHANGED outVars
        /\ UNCHANGED <<inStreams, nextStreamToAccept, nextStreamToOpen, inMaxStream, accepter, offered>>
      BY <1>1 DEF CloseIncoming
  <2>2. InType' /\ RoomInv'
      BY <2>1, InFacts DEF InType, RoomInv
  <2>3. AcceptInv'
      BY <2>1, Zenon DEF AcceptInv
  <2> QED
      BY <2>1, <2>2, <2>3, InFacts, InStep
<1>2. ASSUME NEW a \in Accepters, AcceptCanceled(a) PROVE IInv'
  <2>1. /\ accepter' = [accepter EXCEPT ![a] = FALSE] /\ UNCHANGED outVars
        /\ UNCHANGED <<inStreams, nextStreamToAccept, nextStreamToOpen, inMaxStream, newStreamChan, offered>>
      BY <1>2 DEF AcceptCanceled
  <2>2. accepter' \in [Accepters -> BOOLEAN] /\ \A b \in Accepters : accepter'[b] => accepter[b]
      BY <2>1, InFacts
  <2>3. InType' /\ RoomInv'
      BY <2>1, <2>2, InFacts DEF InType, RoomInv
  <2>4. OneAccepter => AcceptInv'
      BY <2>1, <2>2 DEF IInv, AcceptInv
  <2> QED
      BY <2>1, <2>3, <2>4, InFacts, InStep
<1> QED
    BY <1>1, <1>2

-----------------------------------------------------------------------------
\* Every step of the two maps keeps the invariant.
THEOREM Invariance ==
    ASSUME Limits
    PROVE  MapSpec => []IInv
<1>1. MapInit => IInv
  <2> SUFFICES ASSUME MapInit PROVE IInv
      OBVIOUS
  <2>1. inMaxStream = maxNumStreams /\ maxNumStreams \in Nat /\ maxNumStreams >= 1
      BY DEF MapInit, Limits
  <2>2. OutType
      BY DEF MapInit, OutType, InvalidStreamNum, Idle
  <2>3. accepter \in [Accepters -> BOOLEAN]
      BY Zenon DEF MapInit
  <2>4. InType
      BY <2>1, <2>3 DEF MapInit, InType
  <2>5. LinkInv
      BY <2>1 DEF MapInit, LinkInv, InvalidStreamNum
  <2>6. inStreams = {} /\ nextStreamToOpen = 1 /\ IsFiniteSet(inStreams) /\ Cardinality(inStreams) = 0
      BY FS_EmptySet DEF MapInit
  <2>7. RoomInv
      BY <2>1, <2>6 DEF RoomInv
  <2>8. QueueInv /\ OpenerIsWoken
      BY DEF MapInit, QueueInv, OpenerIsWoken
  <2>9. AcceptInv
      BY <2>6 DEF AcceptInv
  <2> QED
      BY <2>2, <2>4, <2>5, <2>7, <2>8, <2>9 DEF IInv
<1>2. IInv /\ [MapNext]_mapVars => IInv'
  <2> SUFFICES ASSUME IInv, [MapNext]_mapVars PROVE IInv'
      OBVIOUS
  <2>1. ASSUME NEW n \in 1 .. MaxStreamCount, GetOrOpenStream(n) PROVE IInv'
    <3>1. n \in Nat
        BY DEF Limits
    <3> QED
        BY <2>1, <3>1, GetOrOpenStreamInv
  <2>2. ASSUME NEW n \in inStreams, InDeleteStream(n) PROVE IInv'
      BY <2>2, InDeleteStreamInv
  <2>3. ASSUME NEW a \in Accepters, AcceptStream(a) \/ AcceptWakes(a) PROVE IInv'
      BY <2>3, AcceptLoopInv DEF AcceptStream, AcceptWakes
  <2>4. CASE UNCHANGED mapVars
    <3>1. UNCHANGED inVars /\ UNCHANGED outVars
        BY <2>4 DEF mapVars
    <3> QED
        BY <3>1, OutUnchanged DEF outVars
  <2> QED
      BY <2>1, <2>2, <2>3, <2>4, OutgoingInv, InEndsInv DEF MapNext
<1> QED
    BY <1>1, <1>2, PTL DEF MapSpec

\* The opener never exceeds the accepter's limit, the accepter never keeps more than
\* maxNumStreams streams, and an AcceptStream that waits has none to return.
THEOREM MapsAgree ==
    ASSUME Limits, OneAccepter
    PROVE  MapSpec => []LimitsAgree
<1>1. IInv => LimitsAgree
  <2> SUFFICES ASSUME IInv PROVE LimitsAgree
      OBVIOUS
  <2>1. nextStream - 1 <= inMaxStream
      BY OutFacts
  <2>2. Cardinality(inStreams) <= maxNumStreams
      BY InFacts
  <2> QED
      BY <2>1, <2>2 DEF IInv, AcceptInv, LimitsAgree
<1> QED
    BY <1>1, Invariance, PTL

\* "It's sufficient to only unblock OpenStreamSync once": true, for any number of calls,
\* limits and frames in any order, as long as no context ends once its call is signalled.
THEOREM NoOpenerForgotten ==
    ASSUME Limits, ~LateCancel
    PROVE  MapSpec => []OpenerIsWoken
<1>1. IInv => OpenerIsWoken
    BY DEF IInv
<1> QED
    BY <1>1, Invariance, PTL

-----------------------------------------------------------------------------
\* The least element of a set of natural numbers.
LEMMA LeastOf == ASSUME NEW S \in SUBSET Nat, S # {} PROVE \E m \in S : \A k \in S : m <= k
<1>1. PICK x \in S : \A y \in S : ~ <<y, x>> \in OpToRel(<, Nat)
    BY NatLessThanWellFounded, WFMin
<1>2. \A y \in S : ~(y < x)
    BY <1>1 DEF OpToRel
<1> QED
    BY <1>2

\* Min is the least element.
LEMMA MinOf == ASSUME NEW S \in SUBSET Nat, S # {} PROVE Min(S) \in S /\ \A k \in S : Min(S) <= k
    BY LeastOf DEF Min

\* The largest element of a bounded set of natural numbers.
LEMMA GreatestOf ==
    ASSUME NEW S \in SUBSET Nat, S # {}, NEW n \in Nat, \A x \in S : x <= n
    PROVE  \E m \in S : \A x \in S : x <= m
<1> DEFINE D == {n - x : x \in S}
<1>0. \A x \in S : n - x \in Nat
    OBVIOUS
<1>1. D \in SUBSET Nat /\ D # {}
    BY <1>0
<1> HIDE DEF D
<1>2. PICK d \in D : \A k \in D : d <= k
    BY <1>1, LeastOf
<1>3. PICK m \in S : d = n - m
    BY DEF D
<1>4. ASSUME NEW x \in S PROVE x <= m
  <2>1. n - x \in D /\ n - x \in Nat /\ x \in Nat /\ m \in Nat
      BY <1>0 DEF D
  <2> QED
      BY <1>2, <1>3, <2>1
<1> QED
    BY <1>4

-----------------------------------------------------------------------------
(* A loop, written as a function of the number of rounds, that stays in a  *)
(* set of states.                                                          *)

\* f[n] is the state after n rounds of h from c.
IsRun(N, S, c, h, f) ==
    f \in [0 .. N -> S] /\ f[0] = c /\ \A n \in 1 .. N : f[n] = h[f[n - 1]]

\* A loop of N rounds over S has a run.
LEMMA LoopRuns ==
    ASSUME NEW N \in Nat, NEW S, NEW c \in S, NEW h \in [S -> S]
    PROVE  \E f : IsRun(N, S, c, h, f)
<1> DEFINE Upto(k) == \E f : IsRun(k, S, c, h, f)
           Bad == {n \in 0 .. N : ~Upto(n)}
<1> SUFFICES ASSUME NEW x \in Bad PROVE FALSE
    OBVIOUS
<1>0. Bad \in SUBSET Nat /\ Bad # {}
  <2> HIDE DEF Upto
  <2> QED
      OBVIOUS
<1>1. PICK m \in Bad : \A k \in Bad : m <= k
  <2> HIDE DEF Bad
  <2> QED
      BY <1>0, LeastOf
<1>2. Upto(0)
  <2> DEFINE f == [n \in 0 .. 0 |-> c]
  <2>1. f \in [0 .. 0 -> S] /\ f[0] = c /\ \A n \in 1 .. 0 : f[n] = h[f[n - 1]]
      OBVIOUS
  <2> HIDE DEF f
  <2> QED
      BY <2>1 DEF IsRun
<1>3. m # 0
    BY <1>2
<1>4. m \in 1 .. N /\ m - 1 \in 0 .. N /\ ~(m <= m - 1)
    BY <1>3
<1>5. PICK f : IsRun(m - 1, S, c, h, f)
    BY <1>1, <1>4
<1> DEFINE e == [n \in 0 .. m |-> IF n = m THEN h[f[m - 1]] ELSE f[n]]
<1>6. f \in [0 .. m - 1 -> S] /\ f[0] = c /\ \A n \in 1 .. m - 1 : f[n] = h[f[n - 1]]
    BY <1>5 DEF IsRun
<1>7. f[m - 1] \in S /\ h[f[m - 1]] \in S
    BY <1>4, <1>6
<1>8. /\ e \in [0 .. m -> S] /\ e[0] = c
      /\ e[m] = h[f[m - 1]] /\ \A n \in 0 .. m - 1 : e[n] = f[n]
    BY <1>4, <1>6, <1>7
<1> HIDE DEF e
<1>9. ASSUME NEW n \in 1 .. m PROVE e[n] = h[e[n - 1]]
  <2>1. n - 1 \in 0 .. m - 1
      BY <1>4
  <2>2. n = m \/ n \in 1 .. m - 1
      BY <1>4
  <2> QED
      BY <1>6, <1>8, <2>1, <2>2
<1>10. Upto(m)
    BY <1>8, <1>9 DEF IsRun
<1> QED
    BY <1>10

\* Induction over the rounds.
LEMMA AllRounds ==
    ASSUME NEW N \in Nat, NEW G, 0 \in G, \A n \in 1 .. N : n - 1 \in G => n \in G
    PROVE  \A n \in 0 .. N : n \in G
<1> DEFINE Bad == {n \in 0 .. N : n \notin G}
<1> SUFFICES ASSUME NEW x \in Bad PROVE FALSE
    OBVIOUS
<1>0. Bad \in SUBSET Nat /\ Bad # {}
    OBVIOUS
<1>1. PICK m \in Bad : \A k \in Bad : m <= k
  <2> HIDE DEF Bad
  <2> QED
      BY <1>0, LeastOf
<1>2. m # 0
    OBVIOUS
<1>3. m \in 1 .. N /\ m - 1 \in 0 .. N /\ ~(m <= m - 1)
    BY <1>2
<1>4. m - 1 \notin Bad
    BY <1>1, <1>3
<1> QED
    BY <1>3, <1>4

-----------------------------------------------------------------------------
(* The queue of the frame sorter.                                          *)

\* Entries that do not overlap.
Tiles(q) ==
    /\ DOMAIN q \in SUBSET Nat /\ IsFiniteSet(DOMAIN q)
    /\ \A p \in DOMAIN q : Len(q[p]) \in Nat /\ Len(q[p]) >= 1
    /\ \A p, r \in DOMAIN q : p < r => p + Len(q[p]) <= r

\* Byte b is in an entry.
Held(q, b) == \E p \in DOMAIN q : p <= b /\ b < p + Len(q[p])

\* The entries keys are the ones in [from, at), and they fill it.
Walked(q, from, at, keys) ==
    /\ at \in Nat /\ from <= at /\ keys = {p \in DOMAIN q : from <= p /\ p < at}
    /\ \A p \in DOMAIN q : from <= p /\ p < at => p + Len(q[p]) <= at
    /\ \A b \in Nat : from <= b /\ b < at => Held(q, b)

\* deleteConsecutive goes one entry further.
LEMMA WalkStep ==
    ASSUME NEW q, Tiles(q), NEW from \in Nat, NEW at, NEW keys, Walked(q, from, at, keys), at \in DOMAIN q
    PROVE  Walked(q, from, at + Len(q[at]), keys \cup {at}) /\ at \notin keys
<1> DEFINE e == at + Len(q[at])
<1>1. /\ at \in Nat /\ from <= at /\ e \in Nat /\ at < e
      /\ \A p \in DOMAIN q : p \in Nat
    BY DEF Tiles, Walked
<1>2. keys \cup {at} = {p \in DOMAIN q : from <= p /\ p < e}
  <2>1. keys = {p \in DOMAIN q : from <= p /\ p < at}
      BY DEF Walked
  <2>2. ASSUME NEW p \in DOMAIN q PROVE from <= p /\ p < e <=> (from <= p /\ p < at) \/ p = at
    <3>1. p \in Nat /\ (at < p => e <= p)
        BY <1>1 DEF Tiles
    <3> HIDE DEF e
    <3> QED
        BY <1>1, <3>1
  <2> HIDE DEF e
  <2> QED
      BY <2>1, <2>2
<1>3. ASSUME NEW p \in DOMAIN q, from <= p, p < e PROVE p + Len(q[p]) <= e
  <2>1. p \in Nat /\ (at < p => e <= p) /\ Len(q[p]) \in Nat
      BY <1>1 DEF Tiles
  <2>2. p < at => p + Len(q[p]) <= at
      BY <1>3 DEF Walked
  <2>3. p < at \/ p = at
      BY <1>1, <1>3, <2>1
  <2> QED
      BY <1>1, <2>1, <2>2, <2>3
<1>4. ASSUME NEW b \in Nat, from <= b, b < e PROVE Held(q, b)
  <2>1. CASE b < at
      BY <2>1, <1>4 DEF Walked
  <2>2. CASE at <= b
      BY <2>2, <1>4 DEF Held
  <2> QED
      BY <1>1, <2>1, <2>2
<1> QED
    BY <1>1, <1>2, <1>3, <1>4 DEF Walked

\* deleteConsecutive removes the entries up to the next hole.
LEMMA Consecutive ==
    ASSUME NEW q, Tiles(q), NEW from \in Nat
    PROVE  \E at : Walked(q, from, at, consecutive(q, from)) /\ at \notin DOMAIN q
<1> DEFINE D == DOMAIN q
           N == Cardinality(D)
           body(f) == [n \in 0 .. N |->
                         IF n = 0 THEN [at |-> from, keys |-> {}]
                         ELSE IF f[n - 1].at \notin D THEN f[n - 1]
                              ELSE [at |-> f[n - 1].at + Len(q[f[n - 1].at]),
                                    keys |-> f[n - 1].keys \cup {f[n - 1].at}]]
           run == CHOOSE f : f = body(f)
           S == {x \in [at : Nat, keys : SUBSET D] : Walked(q, from, x.at, x.keys)}
           c == [at |-> from, keys |-> {}]
           h == [x \in S |-> IF x.at \notin D THEN x ELSE [at |-> x.at + Len(q[x.at]), keys |-> x.keys \cup {x.at}]]
<1>1. N \in Nat /\ IsFiniteSet(D) /\ D \in SUBSET Nat
    BY FS_CardinalityType DEF Tiles
<1>2. consecutive(q, from) = run[N].keys
    BY DEF consecutive
<1>3. c \in S
  <2>1. Walked(q, from, from, {})
      BY <1>1 DEF Walked
  <2> QED
      BY <2>1
<1>4. h \in [S -> S]
  <2>1. ASSUME NEW x \in S, x.at \in D
        PROVE  [at |-> x.at + Len(q[x.at]), keys |-> x.keys \cup {x.at}] \in S
    <3>1. Walked(q, from, x.at + Len(q[x.at]), x.keys \cup {x.at})
        BY <2>1, WalkStep
    <3>2. x.at + Len(q[x.at]) \in Nat /\ x.keys \cup {x.at} \in SUBSET D
        BY <2>1 DEF Tiles
    <3> QED
        BY <3>1, <3>2
  <2> HIDE DEF S
  <2> QED
      BY <2>1
<1>5. PICK g : IsRun(N, S, c, h, g)
  <2> HIDE DEF S, c, h, N
  <2> QED
      BY <1>1, <1>3, <1>4, LoopRuns
<1>6. g = body(g)
  <2> HIDE DEF S
  <2>1. ASSUME NEW n \in 1 .. N
        PROVE  g[n] = IF g[n - 1].at \notin D THEN g[n - 1]
                      ELSE [at |-> g[n - 1].at + Len(q[g[n - 1].at]), keys |-> g[n - 1].keys \cup {g[n - 1].at}]
    <3> HIDE DEF N, D
    <3>1. n - 1 \in 0 .. N
        BY <1>1
    <3>2. g[n - 1] \in S /\ g[n] = h[g[n - 1]]
        BY <1>5, <3>1 DEF IsRun
    <3> QED
        BY <3>2
  <2>2. g \in [0 .. N -> S] /\ g[0] = c
      BY <1>5 DEF IsRun
  <2>3. ASSUME NEW n \in 0 .. N
        PROVE  g[n] = IF n = 0 THEN [at |-> from, keys |-> {}]
                      ELSE IF g[n - 1].at \notin D THEN g[n - 1]
                           ELSE [at |-> g[n - 1].at + Len(q[g[n - 1].at]),
                                 keys |-> g[n - 1].keys \cup {g[n - 1].at}]
    <3>1. CASE n = 0
        BY <2>2, <3>1
    <3>2. CASE n # 0
      <4>1. n \in 1 .. N
          BY SMTT(60), <1>1, <3>2
      <4> QED
          BY <2>1, <3>2, <4>1, Zenon
    <3> QED
        BY <3>1, <3>2
  <2> HIDE DEF N, D
  <2> QED
      BY <2>2, <2>3
<1>7. run = body(run)
    BY <1>6
<1> HIDE DEF run
<1> DEFINE G == {n \in 0 .. N : run[n] \in S /\ (run[n].at \notin D \/ Cardinality(run[n].keys) = n)}
<1>8. \A n \in 0 .. N : n \in G
  <2>1. 0 \in G
    <3>1. run[0] = c /\ Cardinality({}) = 0
        BY <1>1, <1>7, FS_EmptySet
    <3> HIDE DEF S
    <3> QED
        BY <1>1, <1>3, <3>1
  <2>2. ASSUME NEW n \in 1 .. N, n - 1 \in G PROVE n \in G
    <3> DEFINE x == run[n - 1]
    <3>1. run[n] = IF x.at \notin D THEN x ELSE [at |-> x.at + Len(q[x.at]), keys |-> x.keys \cup {x.at}]
      <4>1. n \in 0 .. N /\ n # 0
          BY <1>1
      <4> HIDE DEF N, D
      <4> QED
          BY <1>7, <4>1
    <3>2. x \in S /\ (x.at \notin D \/ Cardinality(x.keys) = n - 1)
        BY <2>2
    <3> HIDE DEF x
    <3>3. run[n] = h[x] /\ h[x] \in S
      <4> HIDE DEF S
      <4> QED
        BY <3>1, <3>2, <1>4
    <3>4. CASE x.at \in D
      <4>1. x.at \notin x.keys /\ x.keys \in SUBSET D
          BY <3>2, <3>4, WalkStep
      <4>2. IsFiniteSet(x.keys)
          BY <1>1, <4>1, FS_Subset
      <4>3. Cardinality(x.keys \cup {x.at}) = n
        <5>1. Cardinality(x.keys \cup {x.at}) = Cardinality(x.keys) + 1
            BY <4>1, <4>2, FS_AddElement
        <5>2. Cardinality(x.keys) = n - 1 /\ n \in Nat
            BY <1>1, <3>2, <3>4
        <5> QED
            BY <5>1, <5>2
      <4>4. run[n].keys = x.keys \cup {x.at}
          BY <3>1, <3>4
      <4> HIDE DEF S, h
      <4> QED
          BY SMTT(60), <3>3, <4>3, <4>4
    <3>5. CASE x.at \notin D
      <4>1. run[n].at \notin D
          BY <3>1, <3>5
      <4> HIDE DEF S, h
      <4> QED
          BY <3>3, <4>1
    <3> QED
        BY SMTT(60), <3>4, <3>5
  <2> HIDE DEF G, N
  <2> QED
      BY <1>1, <2>1, <2>2, AllRounds
<1> DEFINE l == run[N]
<1>9. l \in S /\ (l.at \notin D \/ Cardinality(l.keys) = N)
  <2>1. N \in 0 .. N
      BY <1>1
  <2> QED
      BY <1>8, <2>1
<1> HIDE DEF l
<1>10. Walked(q, from, l.at, l.keys) /\ l.keys \in SUBSET D /\ l.at \in Nat
    BY <1>9
<1>11. l.at \notin D
  <2> SUFFICES ASSUME l.at \in D, Cardinality(l.keys) = N PROVE FALSE
      BY <1>9
  <2>1. l.at \notin l.keys
      BY <1>10, WalkStep
  <2>2. l.keys = D
      BY <1>1, <1>10, FS_Subset
  <2> QED
      BY <2>1, <2>2
<1> QED
    BY <1>2, <1>10, <1>11 DEF l

\* What the loop over the entries at the start of a new frame [from, to) has done.
ReplacedTo(q, from, to, x) ==
    /\ Walked(q, from, x.at, x.keys)
    /\ x.keys # {} => x.at <= to
    /\ x.at = from \/ from \in DOMAIN q
    /\ x.cut => x.done /\ x.at \in DOMAIN q /\ to - x.at <= Len(q[x.at])
                /\ (x.keys # {} => to - x.at < Len(q[x.at]))
    /\ x.done /\ ~x.cut => x.at \notin DOMAIN q

\* One round.
replaceOne(q, to, r) ==
    LET len == IF r.at \in DOMAIN q THEN Len(q[r.at]) ELSE 0
    IN  IF r.done \/ r.at \notin DOMAIN q THEN [r EXCEPT !.done = TRUE]
        ELSE IF to - r.at > len \/ (r.keys # {} /\ to - r.at = len)
             THEN [r EXCEPT !.at = @ + len, !.keys = @ \cup {r.at}]
        ELSE [r EXCEPT !.done = TRUE, !.cut = TRUE]

\* One round of the loop of push over the entries at the start of the frame.
LEMMA ReplaceOne ==
    ASSUME NEW q, Tiles(q), NEW from \in Nat, NEW to \in Nat, from <= to,
           NEW x \in [at : Nat, keys : SUBSET DOMAIN q, done : BOOLEAN, cut : BOOLEAN],
           ReplacedTo(q, from, to, x)
    PROVE  /\ replaceOne(q, to, x) \in [at : Nat, keys : SUBSET DOMAIN q, done : BOOLEAN, cut : BOOLEAN]
           /\ ReplacedTo(q, from, to, replaceOne(q, to, x))
           /\ \/ replaceOne(q, to, x).done
              \/ replaceOne(q, to, x).keys = x.keys \cup {x.at} /\ x.at \notin x.keys /\ x.at \in DOMAIN q
           /\ x.done => replaceOne(q, to, x).done
<1> DEFINE y == replaceOne(q, to, x)
<1>1. CASE x.done \/ x.at \notin DOMAIN q
  <2>1. y = [x EXCEPT !.done = TRUE]
      BY <1>1 DEF replaceOne
  <2>2. y.at = x.at /\ y.keys = x.keys /\ y.cut = x.cut /\ y.done = TRUE /\ y \in [at : Nat, keys : SUBSET DOMAIN q, done : BOOLEAN, cut : BOOLEAN]
      BY <2>1
  <2> HIDE DEF y
  <2> QED
      BY <1>1, <2>2 DEF ReplacedTo, y
<1>2. CASE ~x.done /\ x.at \in DOMAIN q /\ (to - x.at > Len(q[x.at]) \/ (x.keys # {} /\ to - x.at = Len(q[x.at])))
  <2>1. y = [x EXCEPT !.at = @ + Len(q[x.at]), !.keys = @ \cup {x.at}]
      BY <1>2 DEF replaceOne
  <2>2. y.at = x.at + Len(q[x.at]) /\ y.keys = x.keys \cup {x.at} /\ y.cut = x.cut /\ y.done = x.done
      BY <2>1
  <2>3. x.at \in Nat /\ Len(q[x.at]) \in Nat
      BY <1>2 DEF Tiles
  <2>4. y \in [at : Nat, keys : SUBSET DOMAIN q, done : BOOLEAN, cut : BOOLEAN]
    <3>1. x.at + Len(q[x.at]) \in Nat /\ x.keys \cup {x.at} \in SUBSET DOMAIN q
        BY <1>2, <2>3
    <3> QED
        BY <2>1, <3>1
  <2> HIDE DEF y
  <2>5. Walked(q, from, y.at, y.keys) /\ x.at \notin x.keys
    <3>1. Walked(q, from, x.at, x.keys)
        BY DEF ReplacedTo
    <3>2. Walked(q, from, x.at + Len(q[x.at]), x.keys \cup {x.at}) /\ x.at \notin x.keys
        BY <1>2, <3>1, WalkStep
    <3> QED
        BY <2>2, <3>2
  <2>6. y.at <= to
      BY <1>2, <2>2, <2>3
  <2>7. x.at = from \/ from \in DOMAIN q
      BY DEF ReplacedTo
  <2>8. ~y.cut /\ ~y.done
      BY <1>2, <2>2 DEF ReplacedTo
  <2> QED
      BY <1>2, <2>2, <2>4, <2>5, <2>6, <2>7, <2>8 DEF ReplacedTo, y
<1>3. CASE ~x.done /\ x.at \in DOMAIN q /\ ~(to - x.at > Len(q[x.at]) \/ (x.keys # {} /\ to - x.at = Len(q[x.at])))
  <2>1. y = [x EXCEPT !.done = TRUE, !.cut = TRUE]
      BY <1>3 DEF replaceOne
  <2>2. y.at = x.at /\ y.keys = x.keys /\ y.cut = TRUE /\ y.done = TRUE /\ y \in [at : Nat, keys : SUBSET DOMAIN q, done : BOOLEAN, cut : BOOLEAN]
      BY <2>1
  <2>3. x.at \in Nat /\ Len(q[x.at]) \in Nat
      BY <1>3 DEF Tiles
  <2> HIDE DEF y
  <2>4. to - x.at <= Len(q[x.at]) /\ (x.keys # {} => to - x.at < Len(q[x.at]))
      BY <1>3, <2>3
  <2> QED
      BY <1>3, <2>2, <2>4 DEF ReplacedTo, y
<1> QED
    BY <1>1, <1>2, <1>3

\* The loop: it ends, at the end of the frame, in an entry or where nothing is queued.
LEMMA Replaced ==
    ASSUME NEW q, Tiles(q), NEW from \in Nat, NEW to \in Nat, from <= to
    PROVE  LET r == replaced(q, from, to)
           IN  ReplacedTo(q, from, to, r) /\ r.done /\ r.cut \in BOOLEAN /\ r.at \in Nat /\ r.keys \in SUBSET DOMAIN q
<1> DEFINE D == DOMAIN q
           N == Cardinality(D) + 1
           c == [at |-> from, keys |-> {}, done |-> FALSE, cut |-> FALSE]
           body(f) == [n \in 0 .. N |-> IF n = 0 THEN c ELSE replaceOne(q, to, f[n - 1])]
           run == CHOOSE f : f = body(f)
           R == [at : Nat, keys : SUBSET D, done : BOOLEAN, cut : BOOLEAN]
           S == {x \in R : ReplacedTo(q, from, to, x)}
           h == [x \in S |-> replaceOne(q, to, x)]
<1>1. N \in Nat /\ N - 1 = Cardinality(D) /\ IsFiniteSet(D) /\ D \in SUBSET Nat
    BY FS_CardinalityType DEF Tiles
<1>2. replaced(q, from, to) = run[N]
    BY DEF replaced, replaceOne
<1>3. c \in S
  <2>1. Walked(q, from, from, {})
      BY <1>1 DEF Walked
  <2>2. ReplacedTo(q, from, to, c)
      BY <2>1 DEF ReplacedTo
  <2> QED
      BY <2>2
<1>4. h \in [S -> S]
  <2>1. ASSUME NEW x \in S PROVE replaceOne(q, to, x) \in S
      BY <2>1, ReplaceOne
  <2> HIDE DEF S
  <2> QED
      BY <2>1
<1>5. PICK g : IsRun(N, S, c, h, g)
  <2> HIDE DEF S, c, h, N
  <2> QED
      BY <1>1, <1>3, <1>4, LoopRuns
<1>6. g = body(g)
  <2> HIDE DEF S, c
  <2>1. ASSUME NEW n \in 1 .. N PROVE g[n] = replaceOne(q, to, g[n - 1])
    <3> HIDE DEF N
    <3>1. n - 1 \in 0 .. N
        BY <1>1
    <3>2. g[n - 1] \in S /\ g[n] = h[g[n - 1]]
        BY <1>5, <3>1 DEF IsRun
    <3> QED
        BY <3>2
  <2>2. g \in [0 .. N -> S] /\ g[0] = c
      BY <1>5 DEF IsRun
  <2>3. ASSUME NEW n \in 0 .. N PROVE  g[n] = IF n = 0 THEN c ELSE replaceOne(q, to, g[n - 1])
    <3>1. CASE n = 0
        BY <2>2, <3>1
    <3>2. CASE n # 0
      <4> HIDE DEF N
      <4>1. n \in 1 .. N
          BY <1>1, <3>2
      <4> QED
          BY <2>1, <3>2, <4>1, Zenon
    <3> QED
        BY <3>1, <3>2
  <2> HIDE DEF N
  <2> QED
      BY <2>2, <2>3
<1>7. run = body(run)
    BY <1>6
<1> HIDE DEF run
<1> DEFINE G == {n \in 0 .. N : run[n] \in S /\ (run[n].done \/ Cardinality(run[n].keys) = n)}
<1>8. \A n \in 0 .. N : n \in G
  <2>1. 0 \in G
    <3>1. run[0] = c /\ Cardinality({}) = 0
        BY <1>1, <1>7, FS_EmptySet
    <3> HIDE DEF S
    <3> QED
        BY <1>1, <1>3, <3>1
  <2>2. ASSUME NEW n \in 1 .. N, n - 1 \in G PROVE n \in G
    <3> DEFINE x == run[n - 1]
               y == replaceOne(q, to, x)
    <3>1. run[n] = y
      <4>1. n \in 0 .. N /\ n # 0
          BY <1>1
      <4> HIDE DEF N
      <4> QED
          BY <1>7, <4>1
    <3>2. x \in S /\ (x.done \/ Cardinality(x.keys) = n - 1)
        BY <2>2
    <3> HIDE DEF x
    <3>3. /\ y \in S /\ (x.done => y.done)
          /\ \/ y.done
             \/ y.keys = x.keys \cup {x.at} /\ x.at \notin x.keys /\ x.at \in D
        BY <3>2, ReplaceOne
    <3> HIDE DEF y
    <3>4. CASE ~y.done
      <4>1. y.keys = x.keys \cup {x.at} /\ x.at \notin x.keys /\ x.keys \in SUBSET D
          BY <3>2, <3>3, <3>4
      <4>2. IsFiniteSet(x.keys)
          BY <1>1, <4>1, FS_Subset
      <4>3. Cardinality(y.keys) = n
        <5>1. Cardinality(x.keys \cup {x.at}) = Cardinality(x.keys) + 1
            BY <4>1, <4>2, FS_AddElement
        <5>2. Cardinality(x.keys) = n - 1 /\ n \in Nat
            BY <1>1, <3>2, <3>3, <3>4
        <5> QED
            BY <4>1, <5>1, <5>2
      <4> HIDE DEF S
      <4> QED
          BY <1>1, <3>1, <3>3, <4>3
    <3>5. CASE y.done
      <4> HIDE DEF S
      <4> QED
          BY <1>1, <3>1, <3>3, <3>5
    <3> QED
        BY <3>4, <3>5
  <2> HIDE DEF G, N
  <2> QED
      BY <1>1, <2>1, <2>2, AllRounds
<1> DEFINE l == run[N]
<1>9. l \in S /\ (l.done \/ Cardinality(l.keys) = N)
  <2>1. N \in 0 .. N
      BY <1>1
  <2> QED
      BY <1>8, <2>1
<1> HIDE DEF l
<1>10. l \in R /\ ReplacedTo(q, from, to, l)
    BY <1>9
<1>11. l.done
  <2> SUFFICES ASSUME Cardinality(l.keys) = N PROVE FALSE
      BY <1>9
  <2>1. Cardinality(l.keys) <= Cardinality(D) /\ Cardinality(D) \in Nat
      BY <1>1, <1>10, FS_Subset, FS_CardinalityType
  <2> QED
      BY <1>1, <2>1
<1>12. l.done /\ l.cut \in BOOLEAN /\ l.at \in Nat /\ l.keys \in SUBSET D
    BY <1>10, <1>11
<1>13. replaced(q, from, to) = l
    BY <1>2 DEF l
<1> HIDE DEF R, N, S, h, c
<1> QED
    BY <1>10, <1>12, <1>13

-----------------------------------------------------------------------------
(* The gaps of the frame sorter.                                           *)

\* A gap is the interval [Start, End).
Gap == [Start : Nat, End : Nat]

\* Gaps are not empty, in order, and do not touch.
Ordered(gs) ==
    /\ gs \in Seq(Gap)
    /\ \A k \in 1 .. Len(gs) : gs[k].Start < gs[k].End
    /\ \A k, l \in 1 .. Len(gs) : k < l => gs[k].End < gs[l].Start

\* The gaps of a list, as a set.
Gaps(gs) == {gs[k] : k \in 1 .. Len(gs)}

\* Byte b is in a gap.
InGaps(gs, b) == \E g \in Gaps(gs) : g.Start <= b /\ b < g.End

\* Facts about a list of gaps.
LEMMA GapFacts ==
    ASSUME NEW gs, Ordered(gs)
    PROVE  /\ Len(gs) \in Nat /\ DOMAIN gs = 1 .. Len(gs)
           /\ \A k \in 1 .. Len(gs) : gs[k] \in Gap /\ gs[k].Start \in Nat /\ gs[k].End \in Nat
                                      /\ gs[k].Start < gs[k].End
           /\ \A k, l \in 1 .. Len(gs) : k < l => gs[k].End < gs[l].Start
<1>1. gs \in Seq(Gap)
    BY DEF Ordered
<1>2. Len(gs) \in Nat /\ DOMAIN gs = 1 .. Len(gs) /\ \A k \in 1 .. Len(gs) : gs[k] \in Gap
    BY <1>1
<1>3. \A g \in Gap : g.Start \in Nat /\ g.End \in Nat
    BY DEF Gap
<1> QED
    BY <1>2, <1>3 DEF Ordered

\* Part of the gaps.
LEMMA SomeGaps ==
    ASSUME NEW gs, Ordered(gs), NEW m, NEW n, m \in 1 .. Len(gs) + 1, n \in 0 .. Len(gs)
    PROVE  Ordered(SubSeq(gs, m, n)) /\ Gaps(SubSeq(gs, m, n)) = {gs[k] : k \in m .. n}
<1> DEFINE s == SubSeq(gs, m, n)
           L == IF m <= n THEN n - m + 1 ELSE 0
<1>1. Len(gs) \in Nat /\ m \in Nat /\ n \in Nat /\ m >= 1 /\ n <= Len(gs) /\ gs \in Seq(Gap)
    BY GapFacts DEF Ordered
<1>2. \A k \in m .. n : k \in 1 .. Len(gs) /\ gs[k] \in Gap
    BY <1>1, GapFacts
<1>3. s \in Seq(Gap) /\ Len(s) = L /\ \A k \in 1 .. n - m + 1 : s[k] = gs[m + k - 1]
  <2>1. m \in Int /\ n \in Int
      BY <1>1
  <2> QED
      BY <1>1, <1>2, <2>1, SubSeqProperties
<1> HIDE DEF s
<1>4. L \in Nat /\ \A k \in 1 .. L : k \in 1 .. n - m + 1 /\ m + k - 1 \in m .. n
    BY <1>1
<1>5. \A k \in m .. n : k - m + 1 \in 1 .. L /\ m + (k - m + 1) - 1 = k
    BY <1>1
<1> HIDE DEF L
<1>6. \A k \in 1 .. L : s[k] = gs[m + k - 1] /\ m + k - 1 \in 1 .. Len(gs)
    BY <1>2, <1>3, <1>4
<1>7. Gaps(s) = {gs[k] : k \in m .. n}
  <2>1. ASSUME NEW k \in 1 .. L PROVE s[k] \in {gs[x] : x \in m .. n}
      BY <1>4, <1>6
  <2>2. ASSUME NEW k \in m .. n PROVE gs[k] \in {s[x] : x \in 1 .. L}
    <3>1. s[k - m + 1] = gs[k] /\ k - m + 1 \in 1 .. L
        BY <1>5, <1>6
    <3> QED
        BY <3>1
  <2> QED
      BY <1>3, <2>1, <2>2 DEF Gaps
<1>8. Ordered(s)
  <2>1. ASSUME NEW k \in 1 .. L PROVE s[k].Start < s[k].End
      BY <1>6, GapFacts
  <2>2. ASSUME NEW k \in 1 .. L, NEW l \in 1 .. L, k < l PROVE s[k].End < s[l].Start
    <3>1. m + k - 1 < m + l - 1
        BY <1>1, <1>4, <2>2
    <3> QED
        BY <1>6, <3>1, GapFacts
  <2> QED
      BY <1>3, <2>1, <2>2 DEF Ordered
<1> QED
    BY <1>7, <1>8 DEF s

\* Gaps after gaps.
LEMMA JoinedGaps ==
    ASSUME NEW a, Ordered(a), NEW b, Ordered(b), \A x \in Gaps(a), y \in Gaps(b) : x.End < y.Start
    PROVE  Ordered(a \o b) /\ Gaps(a \o b) = Gaps(a) \cup Gaps(b)
<1> DEFINE s == a \o b
<1>1. Len(a) \in Nat /\ Len(b) \in Nat /\ a \in Seq(Gap) /\ b \in Seq(Gap)
    BY DEF Ordered
<1>2. s \in Seq(Gap) /\ Len(s) = Len(a) + Len(b) /\ \A k \in 1 .. Len(a) + Len(b) : s[k] = IF k <= Len(a) THEN a[k] ELSE b[k - Len(a)]
    BY <1>1, ConcatProperties, Zenon
<1> HIDE DEF s
<1>3. /\ \A k \in 1 .. Len(a) : k \in 1 .. Len(a) + Len(b) /\ s[k] = a[k]
      /\ \A k \in 1 .. Len(b) : Len(a) + k \in 1 .. Len(a) + Len(b) /\ s[Len(a) + k] = b[k]
  <2>1. ASSUME NEW k \in 1 .. Len(b) PROVE Len(a) + k \in 1 .. Len(a) + Len(b) /\ ~(Len(a) + k <= Len(a)) /\ Len(a) + k - Len(a) = k
      BY <1>1
  <2>2. ASSUME NEW k \in 1 .. Len(a) PROVE k \in 1 .. Len(a) + Len(b) /\ k <= Len(a)
      BY <1>1
  <2> QED
      BY <1>2, <2>1, <2>2
<1>4. \A k \in 1 .. Len(s) : k \in 1 .. Len(a) \/ \E x \in 1 .. Len(b) : k = Len(a) + x
  <2> TAKE k \in 1 .. Len(s)
  <2>1. k \in 1 .. Len(a) \/ (k - Len(a) \in 1 .. Len(b) /\ k = Len(a) + (k - Len(a)))
      BY <1>1, <1>2
  <2> QED
      BY <2>1
<1>5. Gaps(s) = Gaps(a) \cup Gaps(b)
  <2>1. ASSUME NEW k \in 1 .. Len(s) PROVE s[k] \in Gaps(a) \cup Gaps(b)
      BY <1>3, <1>4 DEF Gaps
  <2>2. ASSUME NEW k \in 1 .. Len(a) PROVE a[k] \in {s[x] : x \in 1 .. Len(s)}
      BY <1>2, <1>3, Zenon
  <2>3. ASSUME NEW k \in 1 .. Len(b) PROVE b[k] \in {s[x] : x \in 1 .. Len(s)}
      BY <1>2, <1>3, Zenon
  <2> QED
      BY <2>1, <2>2, <2>3 DEF Gaps
<1>6. Ordered(s)
  <2>1. ASSUME NEW k \in 1 .. Len(s) PROVE s[k].Start < s[k].End
    <3>1. CASE k \in 1 .. Len(a)
        BY <1>3, <3>1 DEF Ordered
    <3>2. CASE \E x \in 1 .. Len(b) : k = Len(a) + x
        BY <1>3, <3>2 DEF Ordered
    <3> QED
        BY <1>4, <3>1, <3>2
  <2>2. ASSUME NEW k \in 1 .. Len(s), NEW l \in 1 .. Len(s), k < l PROVE s[k].End < s[l].Start
    <3>1. CASE k \in 1 .. Len(a) /\ l \in 1 .. Len(a)
        BY <1>3, <2>2, <3>1 DEF Ordered
    <3>2. CASE k \in 1 .. Len(a) /\ \E x \in 1 .. Len(b) : l = Len(a) + x
      <4>1. s[k] \in Gaps(a) /\ s[l] \in Gaps(b)
          BY <1>3, <3>2 DEF Gaps
      <4> QED
          BY <4>1
    <3>3. CASE l \in 1 .. Len(a) /\ \E x \in 1 .. Len(b) : k = Len(a) + x
        BY <1>1, <2>2, <3>3
    <3>4. ASSUME NEW x \in 1 .. Len(b), k = Len(a) + x, NEW y \in 1 .. Len(b), l = Len(a) + y
          PROVE  s[k].End < s[l].Start
      <4>1. x < y /\ s[k] = b[x] /\ s[l] = b[y]
          BY <1>1, <1>3, <2>2, <3>4
      <4> QED
          BY <4>1 DEF Ordered
    <3> QED
        BY <1>4, <3>1, <3>2, <3>3, <3>4
  <2> QED
      BY <1>2, <2>1, <2>2 DEF Ordered
<1> QED
    BY <1>5, <1>6 DEF s

\* No gap or one.
LEMMA OneGap ==
    /\ Ordered(<<>>) /\ Gaps(<<>>) = {}
    /\ \A g \in Gap : g.Start < g.End => Ordered(<<g>>) /\ Gaps(<<g>>) = {g}
<1>1. Ordered(<<>>) /\ Gaps(<<>>) = {}
    BY DEF Ordered, Gaps
<1>2. ASSUME NEW g \in Gap, g.Start < g.End PROVE Ordered(<<g>>) /\ Gaps(<<g>>) = {g}
  <2>1. <<g>> \in Seq(Gap) /\ Len(<<g>>) = 1 /\ <<g>>[1] = g
      OBVIOUS
  <2>2. \A k \in 1 .. 1 : k = 1
      OBVIOUS
  <2> DEFINE s == <<g>>
  <2> HIDE DEF s
  <2>3. s \in Seq(Gap) /\ Len(s) = 1 /\ s[1] = g
      BY <2>1 DEF s
  <2>4. Ordered(s)
      BY <1>2, <2>2, <2>3 DEF Ordered
  <2>5. Gaps(s) = {g}
      BY <2>3 DEF Gaps
  <2> QED
      BY <2>4, <2>5 DEF s
<1> QED
    BY <1>1, <1>2

\* What is left of gap g before and after the data [from, to).
leftOf(g, from) == IF g.Start < from THEN <<[g EXCEPT !.End = from]>> ELSE <<>>
rightOf(g, to) == IF to < g.End THEN <<[g EXCEPT !.Start = to]>> ELSE <<>>

\* What is left of one gap on either side of x.
LEMMA LeftOver ==
    ASSUME NEW g \in Gap, g.Start < g.End, NEW x \in Nat
    PROVE  /\ Ordered(leftOf(g, x)) /\ Gaps(leftOf(g, x)) = IF g.Start < x THEN {[Start |-> g.Start, End |-> x]} ELSE {}
           /\ Ordered(rightOf(g, x)) /\ Gaps(rightOf(g, x)) = IF x < g.End THEN {[Start |-> x, End |-> g.End]} ELSE {}
<1> DEFINE a == [Start |-> g.Start, End |-> x]  b == [Start |-> x, End |-> g.End]
<1>1. [g EXCEPT !.End = x] = a /\ [g EXCEPT !.Start = x] = b /\ a \in Gap /\ b \in Gap
      /\ a.Start = g.Start /\ a.End = x /\ b.Start = x /\ b.End = g.End
    BY DEF Gap
<1>2. leftOf(g, x) = IF g.Start < x THEN <<a>> ELSE <<>>
    BY <1>1 DEF leftOf
<1>3. rightOf(g, x) = IF x < g.End THEN <<b>> ELSE <<>>
    BY <1>1 DEF rightOf
<1> HIDE DEF a, b
<1>4. Ordered(leftOf(g, x)) /\ Gaps(leftOf(g, x)) = IF g.Start < x THEN {a} ELSE {}
    BY <1>1, <1>2, OneGap
<1>5. Ordered(rightOf(g, x)) /\ Gaps(rightOf(g, x)) = IF x < g.End THEN {b} ELSE {}
    BY <1>1, <1>3, OneGap
<1> QED
    BY <1>4, <1>5 DEF a, b

\* Data [from, to) from gap i to gap j.
Spans(gs, i, j, from, to) ==
    /\ i \in 1 .. Len(gs) /\ j \in 1 .. Len(gs) /\ i <= j
    /\ from \in Nat /\ to \in Nat /\ from < to
    /\ from <= gs[i].End /\ gs[j].Start <= to
    /\ \A k \in 1 .. Len(gs) : (k < i => gs[k].End < from) /\ (k > j => to < gs[k].Start)

\* The gaps without them.
Splice(gs, i, j, from, to) ==
    SubSeq(gs, 1, i - 1) \o leftOf(gs[i], from) \o rightOf(gs[j], to) \o SubSeq(gs, j + 1, Len(gs))

\* The list stays ordered, and exactly the bytes in [from, to) leave it.
LEMMA Spliced ==
    ASSUME NEW gs, Ordered(gs), NEW i, NEW j, NEW from, NEW to, Spans(gs, i, j, from, to), NEW out,
           out = Splice(gs, i, j, from, to)
    PROVE  /\ Ordered(out)
           /\ \A b \in Nat : InGaps(out, b) <=> InGaps(gs, b) /\ ~(from <= b /\ b < to)
           /\ \A M \in Nat : to < M /\ (\E g \in Gaps(gs) : g.End = M) => \E g \in Gaps(out) : g.End = M
<1> DEFINE A == SubSeq(gs, 1, i - 1)
           L == leftOf(gs[i], from)
           R == rightOf(gs[j], to)
           B == SubSeq(gs, j + 1, Len(gs))
           N == Len(gs)
<1>0. /\ N \in Nat /\ i \in 1 .. N /\ j \in 1 .. N /\ i <= j /\ from \in Nat /\ to \in Nat /\ from < to
      /\ from <= gs[i].End /\ gs[j].Start <= to
    BY GapFacts DEF Spans
<1>1. /\ \A k \in 1 .. N : gs[k] \in Gap /\ gs[k].Start \in Nat /\ gs[k].End \in Nat /\ gs[k].Start < gs[k].End
      /\ \A k, l \in 1 .. N : k < l => gs[k].End < gs[l].Start
    BY GapFacts
<1>2. \A k \in 1 .. N : (k < i => gs[k].End < from) /\ (k > j => to < gs[k].Start)
    BY DEF Spans
<1>3. Ordered(A) /\ Gaps(A) = {gs[k] : k \in 1 .. i - 1}
  <2>1. 1 \in 1 .. Len(gs) + 1 /\ i - 1 \in 0 .. Len(gs)
      BY <1>0
  <2> QED
      BY <2>1, SomeGaps, Zenon
<1>4. Ordered(B) /\ Gaps(B) = {gs[k] : k \in j + 1 .. N}
  <2>1. j + 1 \in 1 .. Len(gs) + 1 /\ Len(gs) \in 0 .. Len(gs)
      BY <1>0
  <2> QED
      BY <2>1, SomeGaps, Zenon
<1>5. Ordered(L) /\ Gaps(L) = IF gs[i].Start < from THEN {[Start |-> gs[i].Start, End |-> from]} ELSE {}
    BY <1>0, <1>1, LeftOver
<1>6. Ordered(R) /\ Gaps(R) = IF to < gs[j].End THEN {[Start |-> to, End |-> gs[j].End]} ELSE {}
    BY <1>0, <1>1, LeftOver
<1>7. out = A \o L \o R \o B
    BY DEF Splice
<1> HIDE DEF A, L, R, B
\* Where the parts lie.
<1>8. \A g \in Gaps(A) : \E k \in 1 .. N : k < i /\ g = gs[k]
  <2>1. \A k \in 1 .. i - 1 : k \in 1 .. N /\ k < i
      BY <1>0
  <2> QED
      BY <1>3, <2>1
<1>9. \A g \in Gaps(B) : \E k \in 1 .. N : k > j /\ g = gs[k]
  <2>1. \A k \in j + 1 .. N : k \in 1 .. N /\ k > j
      BY <1>0
  <2> QED
      BY <1>4, <2>1
<1>10. \A g \in Gaps(L) : g.Start = gs[i].Start /\ g.End = from /\ gs[i].Start < from
  <2> TAKE g \in Gaps(L)
  <2>1. gs[i].Start < from /\ g = [Start |-> gs[i].Start, End |-> from]
      BY <1>5, Zenon
  <2> QED
      BY <2>1
<1>11. \A g \in Gaps(R) : g.Start = to /\ g.End = gs[j].End /\ to < gs[j].End
  <2> TAKE g \in Gaps(R)
  <2>1. to < gs[j].End /\ g = [Start |-> to, End |-> gs[j].End]
      BY <1>6, Zenon
  <2> QED
      BY <2>1
<1>a. \A x \in Gaps(A), y \in Gaps(L) : x.End < y.Start
  <2> TAKE x \in Gaps(A), y \in Gaps(L)
  <2>1. PICK k \in 1 .. N : k < i /\ x = gs[k]
      BY <1>8
  <2>2. gs[k].End < gs[i].Start /\ y.Start = gs[i].Start
      BY <1>0, <1>1, <1>10, <2>1
  <2> QED
      BY <2>1, <2>2
<1>b. \A x \in Gaps(A), y \in Gaps(R) : x.End < y.Start
  <2> TAKE x \in Gaps(A), y \in Gaps(R)
  <2>1. PICK k \in 1 .. N : k < i /\ x = gs[k]
      BY <1>8
  <2>2. gs[k].End < from /\ gs[k].End \in Nat /\ y.Start = to
      BY <1>1, <1>2, <1>11, <2>1
  <2> QED
      BY <1>0, <2>1, <2>2
<1>c. \A x \in Gaps(L), y \in Gaps(R) : x.End < y.Start
    BY <1>0, <1>10, <1>11
<1>d. \A x \in Gaps(A), y \in Gaps(B) : x.End < y.Start
  <2> TAKE x \in Gaps(A), y \in Gaps(B)
  <2>1. PICK k \in 1 .. N : k < i /\ x = gs[k]
      BY <1>8
  <2>2. PICK l \in 1 .. N : l > j /\ y = gs[l]
      BY <1>9
  <2>3. k < l
      BY <1>0, <2>1, <2>2
  <2> QED
      BY <1>1, <2>1, <2>2, <2>3
<1>e. \A x \in Gaps(L), y \in Gaps(B) : x.End < y.Start
  <2> TAKE x \in Gaps(L), y \in Gaps(B)
  <2>2. PICK l \in 1 .. N : l > j /\ y = gs[l]
      BY <1>9
  <2>3. to < gs[l].Start /\ gs[l].Start \in Nat /\ x.End = from
      BY <1>1, <1>2, <1>10, <2>2
  <2> QED
      BY <1>0, <2>2, <2>3
<1>f. \A x \in Gaps(R), y \in Gaps(B) : x.End < y.Start
  <2> TAKE x \in Gaps(R), y \in Gaps(B)
  <2>2. PICK l \in 1 .. N : l > j /\ y = gs[l]
      BY <1>9
  <2>3. j < l
      BY <1>0, <2>2
  <2> QED
      BY <1>0, <1>1, <1>11, <2>2, <2>3
<1>12. Ordered(A \o L) /\ Gaps(A \o L) = Gaps(A) \cup Gaps(L)
    BY <1>3, <1>5, <1>a, JoinedGaps
<1>13. Ordered(A \o L \o R) /\ Gaps(A \o L \o R) = Gaps(A) \cup Gaps(L) \cup Gaps(R)
  <2> DEFINE C == A \o L
  <2>1. Ordered(C) /\ Gaps(C) = Gaps(A) \cup Gaps(L)
      BY <1>12
  <2> HIDE DEF C
  <2>2. \A x \in Gaps(C), y \in Gaps(R) : x.End < y.Start
      BY <2>1, <1>b, <1>c
  <2>3. Ordered(C \o R) /\ Gaps(C \o R) = Gaps(C) \cup Gaps(R)
      BY <1>6, <2>1, <2>2, JoinedGaps
  <2> QED
      BY <2>1, <2>3 DEF C
<1>14. Ordered(out) /\ Gaps(out) = Gaps(A) \cup Gaps(L) \cup Gaps(R) \cup Gaps(B)
  <2> DEFINE C == A \o L \o R
  <2>1. Ordered(C) /\ Gaps(C) = Gaps(A) \cup Gaps(L) \cup Gaps(R)
      BY <1>13
  <2>0. out = C \o B
      BY <1>7
  <2> HIDE DEF C
  <2>2. \A x \in Gaps(C), y \in Gaps(B) : x.End < y.Start
      BY <2>1, <1>d, <1>e, <1>f
  <2>3. Ordered(C \o B) /\ Gaps(C \o B) = Gaps(C) \cup Gaps(B)
      BY <1>4, <2>1, <2>2, JoinedGaps
  <2> QED
      BY <2>0, <2>1, <2>3
<1>15. ASSUME NEW b \in Nat PROVE InGaps(out, b) <=> InGaps(gs, b) /\ ~(from <= b /\ b < to)
  <2>1. ASSUME NEW g \in Gaps(out), g.Start <= b, b < g.End PROVE InGaps(gs, b) /\ ~(from <= b /\ b < to)
    <3>1. CASE g \in Gaps(A)
      <4>1. PICK k \in 1 .. N : k < i /\ g = gs[k]
          BY <1>8, <3>1
      <4>2. g \in Gaps(gs) /\ g.End < from /\ g.End \in Nat
          BY <1>1, <1>2, <4>1 DEF Gaps
      <4> QED
          BY <1>0, <2>1, <4>2 DEF InGaps
    <3>2. CASE g \in Gaps(B)
      <4>1. PICK k \in 1 .. N : k > j /\ g = gs[k]
          BY <1>9, <3>2
      <4>2. g \in Gaps(gs) /\ to < g.Start /\ g.Start \in Nat
          BY <1>1, <1>2, <4>1 DEF Gaps
      <4> QED
          BY <1>0, <2>1, <4>2 DEF InGaps
    <3>3. CASE g \in Gaps(L)
      <4>1. gs[i] \in Gaps(gs) /\ gs[i].Start <= b /\ b < from /\ gs[i].End \in Nat
          BY <1>0, <1>1, <1>10, <2>1, <3>3 DEF Gaps
      <4> QED
          BY <1>0, <4>1 DEF InGaps
    <3>4. CASE g \in Gaps(R)
      <4>1. gs[j] \in Gaps(gs) /\ to <= b /\ b < gs[j].End /\ gs[j].Start \in Nat
          BY <1>0, <1>1, <1>11, <2>1, <3>4 DEF Gaps
      <4> QED
          BY <1>0, <4>1 DEF InGaps
    <3> QED
        BY <1>14, <3>1, <3>2, <3>3, <3>4
  <2>2. ASSUME NEW k \in 1 .. N, gs[k].Start <= b, b < gs[k].End, b < from \/ to <= b PROVE InGaps(out, b)
    <3>1. CASE k < i
      <4>0. k \in 1 .. i - 1
          BY <1>0, <3>1
      <4>1. gs[k] \in Gaps(out)
          BY <1>3, <1>14, <4>0
      <4> QED
          BY <2>2, <4>1 DEF InGaps
    <3>2. CASE k > j
      <4>0. k \in j + 1 .. N
          BY <1>0, <3>2
      <4>1. gs[k] \in Gaps(out)
          BY <1>4, <1>14, <4>0
      <4> QED
          BY <2>2, <4>1 DEF InGaps
    <3>3. CASE i <= k /\ k <= j /\ b < from
      <4>1. k = i
        <5>1. i < k => gs[i].End < gs[k].Start
            BY <1>0, <1>1
        <5> QED
            BY SMTT(60), <1>0, <1>1, <2>2, <3>3, <5>1
      <4>2. gs[i].Start < from
          BY <1>0, <1>1, <2>2, <3>3, <4>1
      <4> DEFINE g == [Start |-> gs[i].Start, End |-> from]
      <4>3. g \in Gaps(out) /\ g.Start = gs[i].Start /\ g.End = from
          BY <1>5, <1>14, <4>2
      <4> QED
          BY <2>2, <3>3, <4>1, <4>3 DEF InGaps
    <3>4. CASE i <= k /\ k <= j /\ to <= b
      <4>1. k = j
        <5>1. k < j => gs[k].End < gs[j].Start
            BY <1>0, <1>1
        <5> QED
            BY <1>0, <1>1, <2>2, <3>4, <5>1
      <4>2. to < gs[j].End
          BY <1>0, <1>1, <2>2, <3>4, <4>1
      <4> DEFINE g == [Start |-> to, End |-> gs[j].End]
      <4>3. g \in Gaps(out) /\ g.Start = to /\ g.End = gs[j].End
          BY <1>6, <1>14, <4>2
      <4> QED
          BY <2>2, <3>4, <4>1, <4>3 DEF InGaps
    <3> QED
        BY <1>0, <2>2, <3>1, <3>2, <3>3, <3>4
  <2>3. InGaps(gs, b) => \E k \in 1 .. N : gs[k].Start <= b /\ b < gs[k].End
      BY DEF InGaps, Gaps
  <2>4. ~(from <= b /\ b < to) => b < from \/ to <= b
      BY <1>0
  <2>5. InGaps(out, b) => InGaps(gs, b) /\ ~(from <= b /\ b < to)
      BY <2>1 DEF InGaps
  <2> QED
      BY <2>2, <2>3, <2>4, <2>5
<1>16. ASSUME NEW M \in Nat, to < M, NEW g \in Gaps(gs), g.End = M PROVE \E x \in Gaps(out) : x.End = M
  <2>1. PICK k \in 1 .. N : g = gs[k]
      BY DEF Gaps
  <2>2. CASE k < i
      BY <1>0, <1>1, <1>2, <1>16, <2>1, <2>2
  <2>3. CASE k > j
    <3>1. gs[k] \in Gaps(out)
        BY <1>0, <1>4, <1>14, <2>3
    <3> QED
        BY <1>16, <2>1, <3>1
  <2>4. CASE i <= k /\ k < j
    <3>1. gs[k].End < gs[j].Start
        BY <1>0, <1>1, <2>4
    <3> QED
        BY <1>0, <1>1, <1>16, <2>1, <3>1
  <2>5. CASE k = j
    <3> DEFINE x == [Start |-> to, End |-> gs[j].End]
    <3>1. x \in Gaps(out) /\ x.End = gs[j].End
        BY <1>6, <1>14, <1>16, <2>1, <2>5
    <3> QED
        BY <1>16, <2>1, <2>5, <3>1
  <2> QED
      BY <1>0, <2>2, <2>3, <2>4, <2>5
<1> QED
    BY <1>14, <1>15, <1>16

-----------------------------------------------------------------------------
(* The frame sorter.                                                       *)

\* The state of a frame sorter.
SorterType == [queue : UNION {[D -> Seq(Nat)] : D \in SUBSET Nat}, readPos : Nat, gaps : Seq(Gap)]

\* An entry holds the bytes of the stream at its offset.
Content(q) == \A p \in DOMAIN q : q[p] = Bytes(p, p + Len(q[p]))

\* From r on every byte is either queued or in a gap; nothing before it is.
Exact(q, gs, r) ==
    /\ \A p \in DOMAIN q : r <= p
    /\ \A b \in Nat : InGaps(gs, b) => r <= b /\ b < MaxByteCount
    /\ \A b \in Nat : r <= b /\ b < MaxByteCount => (InGaps(gs, b) <=> ~Held(q, b))

\* The invariant of the frame sorter: entries do not overlap and hold their bytes, gaps are
\* in order, and the two are each other's complement.
SorterOK(s) ==
    /\ s \in SorterType /\ s.readPos <= FinalSize
    /\ Tiles(s.queue) /\ Content(s.queue) /\ \A b \in Nat : Held(s.queue, b) => b < FinalSize
    /\ Ordered(s.gaps) /\ \E g \in Gaps(s.gaps) : g.End = MaxByteCount
    /\ Exact(s.queue, s.gaps, s.readPos)

\* The bytes [m, n) of the stream.
LEMMA BytesFacts ==
    ASSUME NEW m \in Nat, NEW n \in Nat, m <= n
    PROVE  /\ Bytes(m, n) \in Seq(Nat) /\ Len(Bytes(m, n)) = n - m
           /\ \A k \in 1 .. n - m : Bytes(m, n)[k] = m + k - 1
<1>1. n - m \in Nat /\ \A k \in 1 .. n - m : m + k - 1 \in Nat
    OBVIOUS
<1> QED
    BY <1>1 DEF Bytes

\* Whole entries are replaced by the data [from, to).
Fits(q, from, to) ==
    /\ \A p \in DOMAIN q : p < from => p + Len(q[p]) <= from
    /\ \A p \in DOMAIN q : from <= p /\ p < to => p + Len(q[p]) <= to

\* The queue with them.
Replace(q, keys, from, to) ==
    [p \in (DOMAIN q \ keys) \cup {from} |-> IF p = from THEN Bytes(from, to) ELSE q[p]]

\* The queue with the new entry still has no overlap, and holds [from, to) too.
LEMMA ReplacedQueue ==
    ASSUME NEW q \in UNION {[D -> Seq(Nat)] : D \in SUBSET Nat}, Tiles(q), Content(q),
           NEW from \in Nat, NEW to \in Nat, from < to, Fits(q, from, to),
           NEW keys, keys = {p \in DOMAIN q : from <= p /\ p < to}, NEW out, out = Replace(q, keys, from, to)
    PROVE  /\ out \in UNION {[D -> Seq(Nat)] : D \in SUBSET Nat} /\ Tiles(out) /\ Content(out)
           /\ \A p \in DOMAIN out : p = from \/ p \in DOMAIN q
           /\ \A b \in Nat : Held(out, b) <=> Held(q, b) \/ (from <= b /\ b < to)
<1> DEFINE D == (DOMAIN q \ keys) \cup {from}
           B == Bytes(from, to)
<1>1. B \in Seq(Nat) /\ Len(B) = to - from
  <2>1. from <= to
      OBVIOUS
  <2> QED
      BY <2>1, BytesFacts, Zenon
<1>2. /\ DOMAIN q \in SUBSET Nat /\ IsFiniteSet(DOMAIN q) /\ \A p \in DOMAIN q : q[p] \in Seq(Nat)
      /\ \A p \in DOMAIN q : Len(q[p]) \in Nat /\ Len(q[p]) >= 1
      /\ \A p, r \in DOMAIN q : p < r => p + Len(q[p]) <= r
    BY DEF Tiles
<1>3. /\ DOMAIN out = D /\ out[from] = B /\ D \in SUBSET Nat
      /\ \A p \in D : p # from => out[p] = q[p] /\ p \in DOMAIN q /\ p \notin keys
  <2> HIDE DEF B
  <2> QED
      BY <1>2 DEF Replace, B
<1>4. out \in [D -> Seq(Nat)]
  <2>1. \A p \in D : IF p = from THEN B \in Seq(Nat) ELSE q[p] \in Seq(Nat)
      BY <1>1, <1>2
  <2> HIDE DEF B
  <2> QED
      BY <2>1 DEF Replace, B
<1>5. IsFiniteSet(D)
  <2>1. DOMAIN q \ keys \in SUBSET DOMAIN q
      OBVIOUS
  <2>2. IsFiniteSet(DOMAIN q \ keys)
      BY <1>2, <2>1, FS_Subset
  <2> QED
      BY <2>2, FS_AddElement
<1>6. to - from \in Nat /\ to - from >= 1 /\ from + (to - from) = to
    OBVIOUS
<1> HIDE DEF B
<1>7. /\ DOMAIN out = D /\ Len(out[from]) = to - from /\ from \in D
      /\ \A p \in D : p # from => Len(out[p]) = Len(q[p]) /\ p \in DOMAIN q /\ p \in Nat /\ Len(q[p]) \in Nat
                                  /\ Len(q[p]) >= 1 /\ (p < from \/ to <= p)
  <2>1. Len(out[from]) = to - from /\ from \in D
      BY <1>1, <1>3
  <2>2. ASSUME NEW p \in D, p # from
        PROVE  Len(out[p]) = Len(q[p]) /\ p \in DOMAIN q /\ p \in Nat /\ Len(q[p]) \in Nat
               /\ Len(q[p]) >= 1 /\ (p < from \/ to <= p)
    <3>1. out[p] = q[p] /\ p \in DOMAIN q /\ ~(from <= p /\ p < to)
        BY <1>3, <2>2
    <3>2. p \in Nat /\ Len(q[p]) \in Nat /\ Len(q[p]) >= 1
        BY <1>2, <3>1
    <3> QED
        BY <3>1, <3>2
  <2> QED
      BY <1>3, <2>1, <2>2
<1>8. \A p \in DOMAIN q : (p \in D /\ p # from) \/ (from <= p /\ p < to)
    BY <1>2
<1>9. Tiles(out)
  <2>1. \A p \in D : Len(out[p]) \in Nat /\ Len(out[p]) >= 1
      BY <1>6, <1>7
  <2>2. ASSUME NEW p \in D, NEW r \in D, p < r PROVE p + Len(out[p]) <= r
    <3>1. CASE p = from
        BY <1>6, <1>7, <2>2, <3>1
    <3>2. CASE r = from
      <4>1. p # from /\ p + Len(q[p]) <= from
          BY <1>7, <2>2, <3>2 DEF Fits
      <4> QED
          BY <1>7, <3>2, <4>1
    <3>3. CASE p # from /\ r # from
        BY <1>2, <1>7, <2>2, <3>3
    <3> QED
        BY <3>1, <3>2, <3>3
  <2> QED
      BY <1>3, <1>5, <1>7, <2>1, <2>2 DEF Tiles
<1>10. Content(out)
  <2>1. ASSUME NEW p \in D PROVE out[p] = Bytes(p, p + Len(out[p]))
    <3>1. CASE p = from
        BY <1>3, <1>6, <1>7, <3>1 DEF B
    <3>2. CASE p # from
        BY <1>3, <1>7, <3>2 DEF Content
    <3> QED
        BY <3>1, <3>2
  <2> QED
      BY <1>7, <2>1 DEF Content
<1>11. ASSUME NEW b \in Nat PROVE Held(out, b) <=> Held(q, b) \/ (from <= b /\ b < to)
  <2>1. ASSUME NEW p \in D, p <= b, b < p + Len(out[p]) PROVE Held(q, b) \/ (from <= b /\ b < to)
    <3>1. CASE p = from
        BY <1>6, <1>7, <2>1, <3>1
    <3>2. CASE p # from
        BY <1>7, <2>1, <3>2 DEF Held
    <3> QED
        BY <3>1, <3>2
  <2>2. ASSUME NEW p \in DOMAIN q, p <= b, b < p + Len(q[p]), ~(from <= b /\ b < to) PROVE Held(out, b)
    <3>1. CASE from <= p /\ p < to
      <4>1. p + Len(q[p]) <= to
          BY <3>1 DEF Fits
      <4> QED
          BY <1>2, <2>2, <3>1, <4>1
    <3>2. CASE p \in D /\ p # from
        BY <1>7, <2>2, <3>2 DEF Held
    <3> QED
        BY <1>8, <3>1, <3>2
  <2>3. from <= b /\ b < to => Held(out, b)
      BY <1>6, <1>7 DEF Held
  <2>4. Held(out, b) => Held(q, b) \/ (from <= b /\ b < to)
      BY <1>7, <2>1 DEF Held
  <2> QED
      BY <2>2, <2>3, <2>4 DEF Held
<1>12. \A p \in DOMAIN out : p = from \/ p \in DOMAIN q
    BY <1>7
<1> QED
    BY ZenonT(60), <1>3, <1>4, <1>9, <1>10, <1>11, <1>12

\* Data that replaces whole entries, and takes what it covers out of the gaps.
LEMMA InsertData ==
    ASSUME NEW s, SorterOK(s), NEW from \in Nat, NEW to \in Nat, from < to, to <= FinalSize, s.readPos <= from,
           Fits(s.queue, from, to), NEW keys, keys = {p \in DOMAIN s.queue : from <= p /\ p < to},
           NEW gs, Ordered(gs), \E g \in Gaps(gs) : g.End = MaxByteCount,
           \A b \in Nat : InGaps(gs, b) <=> InGaps(s.gaps, b) /\ ~(from <= b /\ b < to)
    PROVE  SorterOK([s EXCEPT !.gaps = gs, !.queue = Replace(s.queue, keys, from, to)])
<1> DEFINE q == s.queue
           out == Replace(q, keys, from, to)
           t == [s EXCEPT !.gaps = gs, !.queue = out]
<1>1. /\ s \in SorterType /\ q \in UNION {[D -> Seq(Nat)] : D \in SUBSET Nat} /\ s.readPos \in Nat
      /\ Tiles(q) /\ Content(q) /\ Exact(q, s.gaps, s.readPos) /\ \A b \in Nat : Held(q, b) => b < FinalSize
    BY DEF SorterOK, SorterType
<1>2. keys = {p \in DOMAIN q : from <= p /\ p < to} /\ Fits(q, from, to)
    OBVIOUS
<1> HIDE DEF q
<1>3. /\ out \in UNION {[D -> Seq(Nat)] : D \in SUBSET Nat} /\ Tiles(out) /\ Content(out)
      /\ \A p \in DOMAIN out : p = from \/ p \in DOMAIN q
      /\ \A b \in Nat : Held(out, b) <=> Held(q, b) \/ (from <= b /\ b < to)
    BY <1>1, <1>2, ReplacedQueue
<1> HIDE DEF out
<1>4. gs \in Seq(Gap)
    BY DEF Ordered
<1>5. t \in SorterType /\ t.queue = out /\ t.gaps = gs /\ t.readPos = s.readPos
    BY <1>1, <1>3, <1>4 DEF SorterType
<1> HIDE DEF t
<1>6. Exact(out, gs, s.readPos)
  <2>1. \A p \in DOMAIN out : s.readPos <= p
      BY <1>1, <1>3 DEF Exact
  <2>2. \A b \in Nat : InGaps(gs, b) => s.readPos <= b /\ b < MaxByteCount
      BY <1>1 DEF Exact
  <2>3. ASSUME NEW b \in Nat, s.readPos <= b, b < MaxByteCount PROVE InGaps(gs, b) <=> ~Held(out, b)
      BY <1>1, <1>3, <2>3 DEF Exact
  <2> QED
      BY <2>1, <2>2, <2>3 DEF Exact
<1>7. \A b \in Nat : Held(out, b) => b < FinalSize
    BY <1>1, <1>3, RecvAssumption
<1>8. s.readPos <= FinalSize
    BY DEF SorterOK
<1>9. SorterOK(t)
    BY <1>3, <1>5, <1>6, <1>7, <1>8 DEF SorterOK
<1> QED
    BY <1>9 DEF t, out, q

-----------------------------------------------------------------------------
(* push.                                                                   *)

\* What the invariant says of the entries.
LEMMA SorterFacts ==
    ASSUME NEW s, SorterOK(s)
    PROVE  /\ s.readPos \in Nat /\ Tiles(s.queue) /\ Ordered(s.gaps) /\ Exact(s.queue, s.gaps, s.readPos)
           /\ \A p \in DOMAIN s.queue : p \in Nat /\ Len(s.queue[p]) \in Nat /\ Len(s.queue[p]) >= 1 /\ s.readPos <= p
           /\ \A p, r \in DOMAIN s.queue : p < r => p + Len(s.queue[p]) <= r
<1>1. s.readPos \in Nat /\ Tiles(s.queue) /\ Ordered(s.gaps) /\ Exact(s.queue, s.gaps, s.readPos)
    BY DEF SorterOK, SorterType
<1> QED
    BY <1>1 DEF Tiles, Exact

\* A byte is queued or in a gap, and never both.
LEMMA HeldOrGap ==
    ASSUME NEW s, SorterOK(s), NEW b \in Nat, s.readPos <= b, b < MaxByteCount, ~Held(s.queue, b)
    PROVE  \E k \in 1 .. Len(s.gaps) : s.gaps[k].Start <= b /\ b < s.gaps[k].End
<1>1. Exact(s.queue, s.gaps, s.readPos)
    BY SorterFacts
<1>2. InGaps(s.gaps, b)
    BY <1>1 DEF Exact
<1> QED
    BY <1>2 DEF InGaps, Gaps

\* Nothing in a gap is queued or was read.
LEMMA GapIsEmpty ==
    ASSUME NEW s, SorterOK(s), NEW k \in 1 .. Len(s.gaps), NEW b \in Nat, s.gaps[k].Start <= b, b < s.gaps[k].End
    PROVE  ~Held(s.queue, b) /\ s.readPos <= b
<1>1. Exact(s.queue, s.gaps, s.readPos)
    BY SorterFacts
<1>2. InGaps(s.gaps, b)
    BY DEF InGaps, Gaps
<1> QED
    BY <1>1, <1>2 DEF Exact

\* Entries lie before or after a gap.
LEMMA Apart ==
    ASSUME NEW s, SorterOK(s), NEW k \in 1 .. Len(s.gaps), NEW p \in DOMAIN s.queue
    PROVE  p + Len(s.queue[p]) <= s.gaps[k].Start \/ s.gaps[k].End <= p
<1> DEFINE m == s.gaps[k].Start  n == s.gaps[k].End  l == Len(s.queue[p])
<1>1. m \in Nat /\ n \in Nat /\ m < n /\ p \in Nat /\ l \in Nat /\ l >= 1
    BY SorterFacts, GapFacts
<1>2. m <= p /\ p < n => ~Held(s.queue, p)
    BY <1>1, GapIsEmpty
<1>3. ~Held(s.queue, m)
    BY <1>1, GapIsEmpty
<1>4. ~(p <= m /\ m < p + l) /\ ~(m <= p /\ p < n /\ p <= p /\ p < p + l)
    BY <1>2, <1>3 DEF Held
<1> HIDE DEF m, n, l
<1>5. p + l <= m \/ n <= p
    BY <1>1, <1>4
<1> QED
    BY <1>5 DEF m, n, l

\* The first hole after a walk is in a gap, where the gap starts if the walk went anywhere.
LEMMA FirstHole ==
    ASSUME NEW s, SorterOK(s), NEW from \in Nat, NEW at, NEW keys, Walked(s.queue, from, at, keys),
           at \notin DOMAIN s.queue, at < MaxByteCount, s.readPos <= from,
           \A p \in DOMAIN s.queue : p < from => p + Len(s.queue[p]) <= from
    PROVE  \E k \in 1 .. Len(s.gaps) : s.gaps[k].Start <= at /\ at < s.gaps[k].End /\ (from < at => s.gaps[k].Start = at)
<1>1. at \in Nat /\ from <= at /\ s.readPos \in Nat
    BY SorterFacts DEF Walked
<1>2. ~Held(s.queue, at)
  <2> SUFFICES ASSUME NEW p \in DOMAIN s.queue, p <= at, at < p + Len(s.queue[p]) PROVE FALSE
      BY DEF Held
  <2>1. p \in Nat /\ Len(s.queue[p]) \in Nat /\ p < at
      BY <1>1, SorterFacts
  <2>2. from <= p => p + Len(s.queue[p]) <= at
      BY <2>1 DEF Walked
  <2> QED
      BY <1>1, <2>1, <2>2
<1>3. PICK k \in 1 .. Len(s.gaps) : s.gaps[k].Start <= at /\ at < s.gaps[k].End
    BY <1>1, <1>2, HeldOrGap
<1>4. s.gaps[k].Start \in Nat /\ s.gaps[k].End \in Nat
    BY SorterFacts, GapFacts
<1>5. ASSUME from < at, s.gaps[k].Start < at PROVE FALSE
  <2>1. at - 1 \in Nat /\ from <= at - 1 /\ at - 1 < at /\ s.gaps[k].Start <= at - 1 /\ at - 1 < s.gaps[k].End
      BY <1>1, <1>3, <1>4, <1>5
  <2>2. Held(s.queue, at - 1)
      BY <2>1 DEF Walked
  <2> QED
      BY <2>1, <2>2, GapIsEmpty
<1> QED
    BY <1>1, <1>3, <1>4, <1>5

\* The entries between two gaps.
LEMMA Between ==
    ASSUME NEW s, SorterOK(s), NEW k \in 1 .. Len(s.gaps), k + 1 \in 1 .. Len(s.gaps)
    PROVE  consecutive(s.queue, s.gaps[k].End) = {p \in DOMAIN s.queue : s.gaps[k].End <= p /\ p < s.gaps[k + 1].Start}
<1> DEFINE q == s.queue  m == s.gaps[k].End  n == s.gaps[k + 1].Start
<1>1. /\ m \in Nat /\ n \in Nat /\ m < n /\ n < s.gaps[k + 1].End /\ s.gaps[k].Start < m /\ s.gaps[k].Start \in Nat
      /\ s.gaps[k + 1].End \in Nat /\ Tiles(q) /\ s.readPos \in Nat
    BY SorterFacts, GapFacts
<1>2. PICK at : Walked(q, m, at, consecutive(q, m)) /\ at \notin DOMAIN q
    BY <1>1, Consecutive
<1>3. at \in Nat /\ m <= at
    BY <1>2 DEF Walked
<1>4. ~Held(q, n) /\ s.readPos <= s.gaps[k].Start
    BY SMTT(60), <1>1, GapIsEmpty
<1>5. at <= n
    BY <1>1, <1>2, <1>3, <1>4 DEF Walked
<1>6. n < MaxByteCount
  <2>1. InGaps(s.gaps, n)
      BY <1>1 DEF InGaps, Gaps
  <2> QED
      BY <1>1, <2>1, SorterFacts DEF Exact
<1>7. \A p \in DOMAIN q : p < m => p + Len(q[p]) <= m
  <2> TAKE p \in DOMAIN q
  <2>1. p \in Nat /\ Len(q[p]) \in Nat
      BY SorterFacts
  <2>2. p + Len(q[p]) <= s.gaps[k].Start \/ m <= p
      BY Apart
  <2> QED
      BY SMTT(60), <1>1, <2>1, <2>2
<1>8. PICK l \in 1 .. Len(s.gaps) : s.gaps[l].Start <= at /\ at < s.gaps[l].End
  <2>1. at < MaxByteCount /\ s.readPos <= m
      BY SMTT(60), <1>1, <1>3, <1>4, <1>5, <1>6, RecvAssumption
  <2> HIDE DEF m
  <2>2. \E l \in 1 .. Len(s.gaps) : s.gaps[l].Start <= at /\ at < s.gaps[l].End /\ (m < at => s.gaps[l].Start = at)
      BY <1>1, <1>2, <1>7, <2>1, FirstHole, Zenon
  <2> QED
      BY <2>2
<1>9. n <= at
  <2>1. k < l
    <3>1. l < k => s.gaps[l].End < s.gaps[k].Start
        BY SorterFacts, GapFacts
    <3>2. s.gaps[l].End \in Nat /\ Len(s.gaps) \in Nat
        BY SorterFacts, GapFacts
    <3> QED
        BY SMTT(60), <1>1, <1>3, <1>8, <3>1, <3>2
  <2>2. k + 1 < l => s.gaps[k + 1].End < s.gaps[l].Start
      BY SorterFacts, GapFacts
  <2>3. s.gaps[l].Start \in Nat
      BY SorterFacts, GapFacts
  <2>4. k + 1 < l \/ k + 1 = l
      BY <2>1
  <2> QED
      BY SMTT(60), <1>1, <1>3, <1>8, <2>2, <2>3, <2>4
<1>10. at = n
    BY <1>1, <1>3, <1>5, <1>9
<1> QED
    BY <1>2, <1>10 DEF Walked

\* deleteConsecutive after every gap but the last removes what lies between gaps i and j.
LEMMA Covered ==
    ASSUME NEW s, SorterOK(s), NEW i \in 1 .. Len(s.gaps), NEW j \in 1 .. Len(s.gaps), i <= j
    PROVE  coveredEntries(s, i, j) = {p \in DOMAIN s.queue : s.gaps[i].End <= p /\ p < s.gaps[j].Start}
<1> DEFINE E(k) == {p \in DOMAIN s.queue : s.gaps[k].End <= p /\ p < s.gaps[k + 1].Start}
           A == {p \in DOMAIN s.queue : s.gaps[i].End <= p /\ p < s.gaps[j].Start}
<1>1. /\ Len(s.gaps) \in Nat /\ i \in Nat /\ j \in Nat
      /\ \A k \in 1 .. Len(s.gaps) : s.gaps[k].Start \in Nat /\ s.gaps[k].End \in Nat /\ s.gaps[k].Start < s.gaps[k].End
      /\ \A k, l \in 1 .. Len(s.gaps) : k < l => s.gaps[k].End < s.gaps[l].Start
      /\ \A p \in DOMAIN s.queue : p \in Nat /\ Len(s.queue[p]) \in Nat /\ Len(s.queue[p]) >= 1
    BY SorterFacts, GapFacts
<1>2. CASE i = j
  <2>1. A = {}
      BY <1>1, <1>2
  <2> QED
      BY <1>2, <2>1 DEF coveredEntries
<1>3. CASE i # j
  <2>1. \A k \in i .. (j - 1) : k \in 1 .. Len(s.gaps) /\ k + 1 \in 1 .. Len(s.gaps) /\ k < j
      BY <1>1, <1>3
  <2>2. \A k \in i .. (j - 1) : consecutive(s.queue, s.gaps[k].End) = E(k)
      BY <2>1, Between
  <2>3. coveredEntries(s, i, j) = UNION {E(k) : k \in i .. (j - 1)}
      BY <1>3, <2>2 DEF coveredEntries
  <2>4. ASSUME NEW k \in i .. (j - 1), NEW p \in E(k) PROVE p \in A
    <3>1. k \in 1 .. Len(s.gaps) /\ k + 1 \in 1 .. Len(s.gaps) /\ k < j /\ p \in Nat /\ i <= k /\ (k + 1 = j \/ k + 1 < j) /\ (i = k \/ i < k)
        BY <1>1, <2>1
    <3>2. s.gaps[i].End <= s.gaps[k].End
      <4>1. i < k => s.gaps[i].End < s.gaps[k].Start
          BY <1>1, <3>1
      <4>2. s.gaps[i].End \in Nat /\ s.gaps[k].Start \in Nat /\ s.gaps[k].End \in Nat /\ s.gaps[k].Start < s.gaps[k].End
          BY <1>1, <3>1
      <4> QED
          BY SMTT(60), <3>1, <4>1, <4>2
    <3>3. s.gaps[k + 1].Start <= s.gaps[j].Start
      <4>1. k + 1 < j => s.gaps[k + 1].End < s.gaps[j].Start
          BY <1>1, <3>1
      <4>2. s.gaps[k + 1].End \in Nat /\ s.gaps[k + 1].Start \in Nat /\ s.gaps[j].Start \in Nat /\ s.gaps[k + 1].Start < s.gaps[k + 1].End
          BY <1>1, <3>1
      <4> QED
          BY SMTT(60), <3>1, <4>1, <4>2
    <3>4. s.gaps[i].End \in Nat /\ s.gaps[k].End \in Nat /\ s.gaps[k + 1].Start \in Nat /\ s.gaps[j].Start \in Nat
        BY <1>1, <3>1
    <3>5. s.gaps[k].End <= p /\ p < s.gaps[k + 1].Start /\ p \in DOMAIN s.queue /\ p \in Nat
        BY <3>1
    <3> DEFINE a == s.gaps[i].End  b == s.gaps[k].End  c == s.gaps[k + 1].Start  d == s.gaps[j].Start
    <3>6. a \in Nat /\ b \in Nat /\ c \in Nat /\ d \in Nat /\ a <= b /\ b <= p /\ p < c /\ c <= d /\ p \in Nat
        BY <3>2, <3>3, <3>4, <3>5, Zenon
    <3> HIDE DEF a, b, c, d, A, E
    <3>7. a <= p /\ p < d
        BY <3>6
    <3> QED
        BY <3>5, <3>7, Zenon DEF a, d, A
  <2>5. ASSUME NEW p \in A PROVE \E k \in i .. (j - 1) : p \in E(k)
    <3> DEFINE K == {k \in i .. (j - 1) : s.gaps[k].End <= p}
    <3>1. i \in K /\ K \in SUBSET Nat /\ \A k \in K : k <= j
        BY <1>1, <1>3
    <3>2. PICK k \in K : \A x \in K : x <= k
      <4> HIDE DEF K
      <4> QED
          BY <1>1, <3>1, GreatestOf
    <3>3. k + 1 \in 1 .. Len(s.gaps) /\ k \in i .. (j - 1) /\ (k + 1 = j \/ k + 1 \in i .. (j - 1)) /\ ~(k + 1 <= k)
        BY <1>1, <2>1
    <3>4. p < s.gaps[k + 1].End
      <4>1. CASE k + 1 = j
        <5>1. p < s.gaps[j].Start /\ s.gaps[j].Start < s.gaps[j].End /\ p \in Nat /\ s.gaps[j].Start \in Nat /\ s.gaps[j].End \in Nat
            BY <1>1
        <5> QED
            BY SMTT(60), <4>1, <5>1
      <4>2. CASE k + 1 \in i .. (j - 1)
        <5>1. k + 1 \notin K
            BY <3>2, <3>3
        <5> QED
            BY SMTT(60), <1>1, <3>3, <4>2, <5>1
      <4> QED
          BY <3>3, <4>1, <4>2
    <3>5. p + Len(s.queue[p]) <= s.gaps[k + 1].Start \/ s.gaps[k + 1].End <= p
        BY <3>3, Apart
    <3>6. p < s.gaps[k + 1].Start /\ s.gaps[k].End <= p
      <4>1. p \in Nat /\ Len(s.queue[p]) \in Nat /\ Len(s.queue[p]) >= 1 /\ s.gaps[k + 1].Start \in Nat /\ s.gaps[k + 1].End \in Nat
          BY <1>1, <3>3
      <4>2. s.gaps[k].End <= p
          OBVIOUS
      <4> QED
          BY SMTT(60), <3>4, <3>5, <4>1, <4>2
    <3> QED
        BY <3>3, <3>6
  <2> HIDE DEF A, E
  <2>6. UNION {E(k) : k \in i .. (j - 1)} = A
      BY <2>4, <2>5
  <2> QED
      BY <2>3, <2>6 DEF A
<1> QED
    BY <1>2, <1>3

\* A frame [off, end) that is not known yet meets gap i first and gap j last.
Meets(s, i, j, off, end) ==
    /\ i \in 1 .. Len(s.gaps) /\ j \in 1 .. Len(s.gaps) /\ i <= j
    /\ off \in Nat /\ end \in Nat /\ off < end /\ end <= FinalSize
    /\ off <= s.gaps[i].End /\ s.gaps[i].Start < end /\ s.gaps[j].Start <= end
    /\ \A k \in 1 .. Len(s.gaps) : (k < i => s.gaps[k].End < off) /\ (k > j => end < s.gaps[k].Start)

\* The data that is put into the queue for it.
Inserts(s, i, j, from, to, keys) ==
    /\ Spans(s.gaps, i, j, from, to) /\ to <= FinalSize /\ s.readPos <= from /\ Fits(s.queue, from, to)
    /\ keys = {p \in DOMAIN s.queue : from <= p /\ p < to}

\* The end of the frame, cut to gap g.
cutTo(g, end) == IF end < g.End THEN end ELSE g.End

\* Data that ends in gap j.
LEMMA CutFrame ==
    ASSUME NEW s, SorterOK(s), NEW i, NEW j, NEW off, NEW end, Meets(s, i, j, off, end),
           NEW from \in Nat, s.readPos <= from, off <= from, from < end, from <= s.gaps[i].End,
           from < s.gaps[i].End \/ i < j,
           \A p \in DOMAIN s.queue : p < from => p + Len(s.queue[p]) <= from
    PROVE  LET to == cutTo(s.gaps[j], end)
               keys == {p \in DOMAIN s.queue : from <= p /\ p < s.gaps[i].Start} \cup coveredEntries(s, i, j)
           IN  Inserts(s, i, j, from, to, keys) /\ to <= s.gaps[j].End
<1> DEFINE to == cutTo(s.gaps[j], end)
           N == Len(s.gaps)
<1>1. /\ i \in 1 .. N /\ j \in 1 .. N /\ i <= j /\ off \in Nat /\ end \in Nat /\ end <= FinalSize
      /\ s.gaps[j].Start <= end
      /\ \A k \in 1 .. N : (k < i => s.gaps[k].End < off) /\ (k > j => end < s.gaps[k].Start)
    BY DEF Meets
<1>2. /\ N \in Nat
      /\ \A k \in 1 .. N : s.gaps[k].Start \in Nat /\ s.gaps[k].End \in Nat /\ s.gaps[k].Start < s.gaps[k].End
      /\ \A k, l \in 1 .. N : k < l => s.gaps[k].End < s.gaps[l].Start
    BY SorterFacts, GapFacts
<1>3. \A p \in DOMAIN s.queue : p \in Nat /\ Len(s.queue[p]) \in Nat /\ Len(s.queue[p]) >= 1
    BY SorterFacts
<1>4. to \in Nat /\ to <= end /\ to <= s.gaps[j].End /\ s.gaps[j].Start <= to /\ (to = end \/ to = s.gaps[j].End)
    BY <1>1, <1>2 DEF cutTo
<1> HIDE DEF to, N
<1> DEFINE a == s.gaps[i].Start  b == s.gaps[i].End  c == s.gaps[j].Start  d == s.gaps[j].End
<1>5. a \in Nat /\ b \in Nat /\ c \in Nat /\ d \in Nat /\ a < b /\ c < d /\ ((i = j /\ a = c /\ b = d) \/ (i < j /\ b < c))
    BY <1>1, <1>2
<1>6. /\ from <= b /\ (from < b \/ i < j) /\ c <= to /\ to <= d /\ (to = end \/ to = d)
    BY <1>4
<1> HIDE DEF a, b, c, d
<1>7. from < to
    BY <1>1, <1>4, <1>5, <1>6
<1>8. a <= c
    BY <1>5
<1>9. Spans(s.gaps, i, j, from, to)
  <2>1. ASSUME NEW k \in 1 .. N PROVE (k < i => s.gaps[k].End < from) /\ (k > j => to < s.gaps[k].Start)
    <3>1. s.gaps[k].End \in Nat /\ s.gaps[k].Start \in Nat
        BY <1>2
    <3> QED
        BY SMTT(60), <1>1, <1>4, <3>1
  <2> QED
      BY <1>1, <1>4, <1>6, <1>7, <2>1 DEF Spans, N, b, c
<1>10. \A p \in DOMAIN s.queue :
          /\ p + Len(s.queue[p]) <= a \/ b <= p
          /\ p + Len(s.queue[p]) <= c \/ d <= p
    BY <1>1, Apart DEF N, a, b, c, d
<1>11. Fits(s.queue, from, to)
  <2>1. ASSUME NEW p \in DOMAIN s.queue, from <= p, p < to PROVE p + Len(s.queue[p]) <= to
      BY <1>3, <1>4, <1>5, <1>6, <1>10, <2>1
  <2> QED
      BY <2>1 DEF Fits
<1>12. coveredEntries(s, i, j) = {p \in DOMAIN s.queue : b <= p /\ p < c}
    BY <1>1, Covered DEF N, b, c
<1>13. {p \in DOMAIN s.queue : from <= p /\ p < a} \cup coveredEntries(s, i, j) = {p \in DOMAIN s.queue : from <= p /\ p < to}
  <2>1. ASSUME NEW p \in DOMAIN s.queue
        PROVE  (from <= p /\ p < a) \/ (b <= p /\ p < c) <=> from <= p /\ p < to
      BY <1>3, <1>4, <1>5, <1>6, <1>8, <1>10
  <2> QED
      BY <1>12, <2>1
<1>14. to <= FinalSize
    BY <1>1, <1>4, RecvAssumption
<1> QED
    BY <1>4, <1>9, <1>11, <1>13, <1>14 DEF Inserts, to, a

\* The frame starts in gap i.
LEMMA StartsInGap ==
    ASSUME NEW s, SorterOK(s), NEW i, NEW j, NEW off, NEW end, Meets(s, i, j, off, end),
           NEW from \in Nat, off <= from, from < end, s.gaps[i].Start <= from, from < s.gaps[i].End
    PROVE  Inserts(s, i, j, from, cutTo(s.gaps[j], end), coveredEntries(s, i, j)) /\ cutTo(s.gaps[j], end) <= s.gaps[j].End
<1>0. i \in 1 .. Len(s.gaps)
    BY DEF Meets
<1>1. s.gaps[i].Start \in Nat /\ s.gaps[i].End \in Nat
    BY <1>0, SorterFacts, GapFacts
<1>2. ~Held(s.queue, from) /\ s.readPos <= from
    BY <1>0, GapIsEmpty
<1>3. ASSUME NEW p \in DOMAIN s.queue, p < from PROVE p + Len(s.queue[p]) <= from
  <2>1. p \in Nat /\ Len(s.queue[p]) \in Nat
      BY SorterFacts
  <2>2. ~(p <= from /\ from < p + Len(s.queue[p]))
      BY <1>2 DEF Held
  <2> QED
      BY <1>3, <2>1, <2>2
<1>4. {p \in DOMAIN s.queue : from <= p /\ p < s.gaps[i].Start} = {}
    BY <1>1, SorterFacts
<1>5. from <= s.gaps[i].End
    BY <1>1
<1>6. LET to == cutTo(s.gaps[j], end)
          keys == {p \in DOMAIN s.queue : from <= p /\ p < s.gaps[i].Start} \cup coveredEntries(s, i, j)
      IN  Inserts(s, i, j, from, to, keys) /\ to <= s.gaps[j].End
    BY <1>2, <1>3, <1>5, CutFrame
<1>7. {p \in DOMAIN s.queue : from <= p /\ p < s.gaps[i].Start} \cup coveredEntries(s, i, j) = coveredEntries(s, i, j)
    BY <1>4
<1> QED
    BY <1>6, <1>7

\* The frame starts before gap i, where an entry starts: the entries up to the gap are replaced.
LEMMA StartsAtEntry ==
    ASSUME NEW s, SorterOK(s), NEW i, NEW j, NEW off, NEW end, Meets(s, i, j, off, end),
           off < s.gaps[i].Start, off \in DOMAIN s.queue, NEW r, r.done, r.cut \in BOOLEAN, ReplacedTo(s.queue, off, end, r)
    PROVE  /\ ~r.cut /\ r.keys # {}
           /\ Inserts(s, i, j, off, cutTo(s.gaps[j], end), r.keys \cup coveredEntries(s, i, j))
           /\ cutTo(s.gaps[j], end) <= s.gaps[j].End
<1> DEFINE q == s.queue  m == s.gaps[i].Start
<1>0. /\ i \in 1 .. Len(s.gaps) /\ off \in Nat /\ end \in Nat /\ off < end /\ m < end /\ end <= FinalSize
      /\ \A k \in 1 .. Len(s.gaps) : k < i => s.gaps[k].End < off
    BY DEF Meets
<1>1. /\ m \in Nat /\ s.gaps[i].End \in Nat /\ m < s.gaps[i].End
      /\ \A p \in DOMAIN q : p \in Nat /\ Len(q[p]) \in Nat /\ Len(q[p]) >= 1 /\ s.readPos <= p
      /\ \A p, x \in DOMAIN q : p < x => p + Len(q[p]) <= x
    BY <1>0, SorterFacts, GapFacts
<1>2. Walked(q, off, r.at, r.keys) /\ r.at \in Nat /\ off <= r.at
    BY DEF ReplacedTo, Walked
<1>3. ~Held(q, m)
    BY <1>0, <1>1, GapIsEmpty
<1>4. r.at <= m
    BY <1>1, <1>2, <1>3 DEF Walked
<1>5. r.at \notin DOMAIN q
  <2> SUFFICES ASSUME r.at \in DOMAIN q PROVE FALSE
      OBVIOUS
  <2>1. r.cut
      BY DEF ReplacedTo
  <2>2. end - r.at <= Len(q[r.at])
      BY <2>1 DEF ReplacedTo
  <2>3. r.at + Len(q[r.at]) <= m \/ s.gaps[i].End <= r.at
      BY <1>0, Apart
  <2> QED
      BY SMTT(60), <1>0, <1>1, <1>2, <1>4, <2>2, <2>3
<1>6. ~r.cut
    BY <1>5 DEF ReplacedTo
<1>7. off < r.at
    BY <1>0, <1>2, <1>5
<1>8. \A p \in DOMAIN q : p < off => p + Len(q[p]) <= off
    BY <1>1
<1>9. PICK k \in 1 .. Len(s.gaps) : s.gaps[k].Start = r.at
  <2>1. r.at < MaxByteCount /\ s.readPos <= off
      BY SMTT(60), <1>0, <1>1, <1>2, <1>4, RecvAssumption
  <2>2. \E k \in 1 .. Len(s.gaps) : s.gaps[k].Start <= r.at /\ r.at < s.gaps[k].End /\ (off < r.at => s.gaps[k].Start = r.at)
      BY <1>0, <1>2, <1>5, <1>8, <2>1, FirstHole, Zenon
  <2> QED
      BY <1>7, <2>2
<1>10. r.at = m
  <2>1. s.gaps[k].Start \in Nat /\ s.gaps[k].End \in Nat /\ s.gaps[k].Start < s.gaps[k].End /\ Len(s.gaps) \in Nat
      BY SorterFacts, GapFacts
  <2>2. (k < i => s.gaps[k].End < off) /\ (i < k => s.gaps[i].End < s.gaps[k].Start)
      BY <1>0, SorterFacts, GapFacts
  <2> QED
      BY SMTT(60), <1>0, <1>1, <1>2, <1>4, <1>7, <1>9, <2>1, <2>2
<1>11. r.keys = {p \in DOMAIN q : off <= p /\ p < m}
    BY <1>2, <1>10 DEF Walked
<1>12. s.readPos <= off /\ off <= off /\ off <= s.gaps[i].End /\ off < s.gaps[i].End
    BY SMTT(60), <1>0, <1>1
<1>13. LET to == cutTo(s.gaps[j], end)
           keys == {p \in DOMAIN s.queue : off <= p /\ p < s.gaps[i].Start} \cup coveredEntries(s, i, j)
       IN  Inserts(s, i, j, off, to, keys) /\ to <= s.gaps[j].End
    BY <1>0, <1>8, <1>12, CutFrame
<1>14. r.keys # {}
    BY <1>0, <1>11
<1> QED
    BY <1>6, <1>11, <1>13, <1>14

\* The frame starts where gap i ends: entries from there on are replaced.  If one of them is longer
\* than the rest of the frame, the frame ends where it starts.
LEMMA StartsAfterGap ==
    ASSUME NEW s, SorterOK(s), NEW i, NEW j, NEW off, NEW end, Meets(s, i, j, off, end),
           s.gaps[i].End <= off, NEW r, r.done, r.cut \in BOOLEAN, ReplacedTo(s.queue, off, end, r), r.cut => r.keys # {}
    PROVE  /\ r.keys # {}
           /\ r.cut => /\ i = j /\ Inserts(s, i, j, off, r.at, r.keys \cup coveredEntries(s, i, j)) /\ s.gaps[j].End < r.at
           /\ ~r.cut => /\ i < j /\ cutTo(s.gaps[j], end) <= s.gaps[j].End
                        /\ Inserts(s, i, j, off, cutTo(s.gaps[j], end), r.keys \cup coveredEntries(s, i, j))
<1> DEFINE q == s.queue  N == Len(s.gaps)
<1>0. /\ i \in 1 .. N /\ j \in 1 .. N /\ i <= j /\ off \in Nat /\ end \in Nat /\ off < end /\ end <= FinalSize /\ s.gaps[j].Start <= end
      /\ \A k \in 1 .. N : (k < i => s.gaps[k].End < off) /\ (k > j => end < s.gaps[k].Start)
    BY DEF Meets
<1>1. /\ \A p \in DOMAIN q : p \in Nat /\ Len(q[p]) \in Nat /\ Len(q[p]) >= 1 /\ s.readPos <= p
      /\ \A p, x \in DOMAIN q : p < x => p + Len(q[p]) <= x
      /\ \A k \in 1 .. N : s.gaps[k].Start \in Nat /\ s.gaps[k].End \in Nat /\ s.gaps[k].Start < s.gaps[k].End
      /\ \A k, l \in 1 .. N : k < l => s.gaps[k].End < s.gaps[l].Start
      /\ N \in Nat /\ s.readPos \in Nat
    BY SorterFacts, GapFacts
<1>01. off = s.gaps[i].End
  <2>1. s.gaps[i].End \in Nat /\ off <= s.gaps[i].End
      BY <1>0, <1>1 DEF Meets
  <2> QED
      BY <1>0, <2>1
<1>2. Walked(q, off, r.at, r.keys) /\ r.at \in Nat /\ off <= r.at
    BY DEF ReplacedTo, Walked
<1>3. \A p \in DOMAIN q : p < off => p + Len(q[p]) <= off
  <2> TAKE p \in DOMAIN q
  <2>1. p + Len(q[p]) <= s.gaps[i].Start \/ off <= p
      BY <1>0, <1>01, Apart
  <2> QED
      BY SMTT(60), <1>0, <1>01, <1>1, <2>1
<1>4. s.readPos <= s.gaps[i].Start /\ s.readPos <= off
  <2>1. s.gaps[i].Start \in Nat /\ s.gaps[i].Start <= s.gaps[i].Start /\ s.gaps[i].Start < s.gaps[i].End /\ s.readPos \in Nat
      BY <1>0, <1>01, <1>1
  <2>2. s.readPos <= s.gaps[i].Start
      BY <1>0, <1>01, <2>1, GapIsEmpty
  <2> QED
      BY <1>0, <1>01, <2>1, <2>2
<1> HIDE DEF N
<1>5. \A k \in 1 .. N : s.gaps[k].Start <= off /\ off < s.gaps[k].End => FALSE
  <2> TAKE k \in 1 .. N
  <2>1. (k < i => s.gaps[k].End < s.gaps[i].Start) /\ (i < k => s.gaps[i].End < s.gaps[k].Start)
      BY <1>0, <1>01, <1>1
  <2>2. s.gaps[k].Start \in Nat /\ s.gaps[k].End \in Nat /\ s.gaps[i].Start \in Nat /\ s.gaps[i].Start < off
      BY <1>0, <1>01, <1>1
  <2> QED
      BY <1>0, <1>01, <2>1, <2>2
<1>6. off \in DOMAIN q
  <2>1. off < MaxByteCount
      BY <1>0, <1>01, RecvAssumption
  <2>2. Held(q, off)
      BY <1>0, <1>01, <1>4, <1>5, <2>1, HeldOrGap DEF N
  <2>3. PICK p \in DOMAIN q : p <= off /\ off < p + Len(q[p])
      BY <2>2 DEF Held
  <2> QED
      BY SMTT(60), <1>0, <1>01, <1>1, <1>3, <2>3
<1>7. r.keys # {} /\ r.at <= end
  <2>1. ASSUME r.keys = {} PROVE FALSE
    <3>1. ~r.cut
        BY <2>1
    <3>2. r.at \notin DOMAIN q /\ off < r.at
        BY <1>0, <1>01, <1>2, <1>6, <3>1 DEF ReplacedTo
    <3>3. off \in r.keys
        BY <1>0, <1>01, <1>6, <3>2, <1>2 DEF Walked
    <3> QED
        BY <2>1, <3>3
  <2> QED
      BY <2>1 DEF ReplacedTo
<1>8. off < r.at
    BY <1>0, <1>01, <1>1, <1>2, <1>7 DEF Walked
<1>9. \A k \in 1 .. N : i < k => r.at <= s.gaps[k].Start
  <2> SUFFICES ASSUME NEW k \in 1 .. N, i < k, s.gaps[k].Start < r.at PROVE FALSE
      BY <1>1, <1>2
  <2>1. off < s.gaps[k].Start /\ s.gaps[k].Start \in Nat /\ s.gaps[k].Start < s.gaps[k].End
      BY <1>0, <1>01, <1>1
  <2>2. ~Held(q, s.gaps[k].Start)
      BY <2>1, GapIsEmpty DEF N
  <2>3. Held(q, s.gaps[k].Start)
      BY <1>0, <1>01, <1>2, <2>1, SMTT(60) DEF Walked
  <2> QED
      BY <2>2, <2>3
<1>10. ASSUME ~r.cut
       PROVE  /\ i < j /\ cutTo(s.gaps[j], end) <= s.gaps[j].End
              /\ Inserts(s, i, j, off, cutTo(s.gaps[j], end), r.keys \cup coveredEntries(s, i, j))
  <2>1. r.at \notin DOMAIN q
      BY <1>10 DEF ReplacedTo
  <2>2. PICK k \in 1 .. N : s.gaps[k].Start = r.at
    <3>1. r.at < MaxByteCount
        BY <1>0, <1>01, <1>2, <1>7, RecvAssumption
    <3>2. /\ off \in Nat /\ Walked(s.queue, off, r.at, r.keys) /\ r.at \notin DOMAIN s.queue /\ s.readPos <= off
          /\ \A p \in DOMAIN s.queue : p < off => p + Len(s.queue[p]) <= off
        BY <1>0, <1>01, <1>2, <1>3, <1>4, <2>1
    <3>3. \E k \in 1 .. Len(s.gaps) : s.gaps[k].Start <= r.at /\ r.at < s.gaps[k].End /\ (off < r.at => s.gaps[k].Start = r.at)
        BY <3>1, <3>2, FirstHole, SMTT(60)
    <3> QED
        BY <1>8, <3>3 DEF N
  <2>3. i < k
    <3>1. (k < i => s.gaps[k].End < s.gaps[i].Start) /\ s.gaps[k].Start \in Nat /\ s.gaps[k].End \in Nat /\ s.gaps[k].Start < s.gaps[k].End
          /\ s.gaps[i].Start \in Nat /\ s.gaps[i].Start < off
        BY <1>0, <1>01, <1>1
    <3> QED
        BY <1>0, <1>01, <1>8, <2>2, <3>1
  <2>4. i < j /\ r.at <= s.gaps[j].Start
    <3>1. ~(k > j)
        BY <1>0, <1>01, <1>2, <1>7, <2>2
    <3>2. i < j
        BY <1>0, <1>01, <2>3, <3>1
    <3> QED
        BY <1>0, <1>01, <1>9, <3>2
  <2>5. LET to == cutTo(s.gaps[j], end)
            keys == {p \in DOMAIN s.queue : off <= p /\ p < s.gaps[i].Start} \cup coveredEntries(s, i, j)
        IN  Inserts(s, i, j, off, to, keys) /\ to <= s.gaps[j].End
    <3>1. off <= off /\ off <= s.gaps[i].End
        BY <1>0, <1>01
    <3>2. off \in Nat /\ s.readPos <= off /\ off < end /\ (off < s.gaps[i].End \/ i < j)
        BY <1>0, <1>01, <1>4, <2>4
    <3>3. \A p \in DOMAIN s.queue : p < off => p + Len(s.queue[p]) <= off
        BY <1>3
    <3> QED
        BY <3>1, <3>2, <3>3, CutFrame, Zenon
  <2>6. {p \in DOMAIN s.queue : off <= p /\ p < s.gaps[i].Start} = {}
      BY <1>0, <1>01, <1>1
  <2>7. r.keys \subseteq coveredEntries(s, i, j)
    <3>1. coveredEntries(s, i, j) = {p \in DOMAIN q : off <= p /\ p < s.gaps[j].Start}
        BY <1>0, <1>01, Covered DEF N
    <3>2. r.keys = {p \in DOMAIN q : off <= p /\ p < r.at}
        BY <1>2 DEF Walked
    <3>3. s.gaps[j].Start \in Nat
        BY <1>0, <1>01, <1>1
    <3> QED
        BY <1>1, <1>2, <2>4, <3>1, <3>2, <3>3
  <2>8. r.keys \cup coveredEntries(s, i, j) = {p \in DOMAIN s.queue : off <= p /\ p < s.gaps[i].Start} \cup coveredEntries(s, i, j)
      BY <2>6, <2>7
  <2> QED
      BY <2>4, <2>5, <2>8
<1>11. ASSUME r.cut
       PROVE  i = j /\ Inserts(s, i, j, off, r.at, r.keys \cup coveredEntries(s, i, j)) /\ s.gaps[j].End < r.at
  <2>1. r.at \in DOMAIN q /\ end - r.at < Len(q[r.at])
      BY <1>7, <1>11 DEF ReplacedTo
  <2>2. i = j
    <3> SUFFICES ASSUME i < j PROVE FALSE
        BY <1>0, <1>01
    <3>1. r.at <= s.gaps[j].Start /\ s.gaps[j].Start \in Nat /\ s.gaps[j].End \in Nat
        BY <1>0, <1>01, <1>1, <1>9
    <3>2. r.at + Len(q[r.at]) <= s.gaps[j].Start \/ s.gaps[j].End <= r.at
        BY <1>0, <1>01, <2>1, Apart DEF N
    <3>3. s.gaps[j].Start < s.gaps[j].End /\ Len(q[r.at]) \in Nat
        BY <1>0, <1>01, <1>1, <2>1
    <3>4. r.at \in Nat /\ end \in Nat /\ s.gaps[j].Start <= end
        BY <1>0, <1>01, <1>2
    <3>5. ~(s.gaps[j].End <= r.at)
        BY <3>1, <3>3, <3>4
    <3> HIDE DEF q
    <3>6. r.at + Len(q[r.at]) <= end
        BY <3>1, <3>2, <3>3, <3>4, <3>5
    <3> QED
        BY <2>1, <3>3, <3>4, <3>6
  <2>3. coveredEntries(s, i, j) = {}
      BY <2>2 DEF coveredEntries
  <2>4. r.keys \cup coveredEntries(s, i, j) = {p \in DOMAIN q : off <= p /\ p < r.at}
      BY <2>3, <1>2 DEF Walked
  <2>5. Fits(q, off, r.at)
      BY <1>3, <1>2 DEF Fits, Walked
  <2>6. Spans(s.gaps, i, j, off, r.at)
    <3>1. s.gaps[j].Start <= r.at /\ off <= s.gaps[i].End
      <4>1. s.gaps[i].Start \in Nat /\ s.gaps[i].End \in Nat /\ s.gaps[i].Start < s.gaps[i].End
          BY <1>0, <1>01, <1>1
      <4> QED
          BY <1>0, <1>01, <1>2, <1>8, <2>2, <4>1
    <3>2. \A k \in 1 .. N : (k < i => s.gaps[k].End < off) /\ (k > j => r.at < s.gaps[k].Start)
      <4> TAKE k \in 1 .. N
      <4>1. s.gaps[k].Start \in Nat
          BY <1>1
      <4> QED
          BY <1>0, <1>01, <1>2, <1>7, <4>1
    <3> QED
        BY <1>0, <1>01, <1>2, <1>8, <3>1, <3>2 DEF Spans, N
  <2>7. r.at <= FinalSize
      BY <1>0, <1>01, <1>2, <1>7, RecvAssumption
  <2>8. s.gaps[j].End < r.at
      BY <1>01, <1>8, <2>2
  <2> QED
      BY <1>4, <1>8, <2>2, <2>4, <2>5, <2>6, <2>7, <2>8 DEF Inserts
<1> QED
    BY <1>7, <1>10, <1>11

\* The gap in which the frame starts or before which it lies, and the one it ends in or behind.
LEMMA FindGaps ==
    ASSUME NEW s, SorterOK(s), NEW off \in Nat, NEW end \in Nat, off < end, end <= FinalSize,
           NEW i, i = findStartGap(s.gaps, off), NEW j, j = findEndGap(s.gaps, end)
    PROVE  /\ i \in 1 .. Len(s.gaps)
           /\ ~(end <= s.gaps[i].Start) => Meets(s, i, j, off, end)
<1> DEFINE gs == s.gaps  N == Len(s.gaps)
           A == {k \in DOMAIN gs : off <= gs[k].End}
           B == {k \in DOMAIN gs : end < gs[k].End}
           m == Min(B)
<1>1. /\ N \in Nat /\ DOMAIN gs = 1 .. N
      /\ \A k \in 1 .. N : gs[k].Start \in Nat /\ gs[k].End \in Nat /\ gs[k].Start < gs[k].End
      /\ \A k, l \in 1 .. N : k < l => gs[k].End < gs[l].Start
    BY SorterFacts, GapFacts
<1>2. PICK k0 \in 1 .. N : gs[k0].End = MaxByteCount
    BY DEF SorterOK, Gaps
<1>3. A \in SUBSET Nat /\ B \in SUBSET Nat /\ k0 \in A /\ k0 \in B
    BY <1>1, <1>2, RecvAssumption
<1>4. i = Min(A) /\ j = IF end >= gs[m].Start THEN m ELSE m - 1
    BY DEF findStartGap, findEndGap
<1>5. Min(A) \in A /\ \A k \in A : Min(A) <= k
  <2>1. A # {}
      BY <1>3
  <2> QED
      BY <1>3, <2>1, MinOf, Zenon
<1>6. m \in B /\ \A k \in B : m <= k
  <2>1. B # {}
      BY <1>3
  <2> QED
      BY <1>3, <2>1, MinOf, Zenon
<1> HIDE DEF m
<1>7. i \in 1 .. N /\ off <= gs[i].End /\ \A k \in 1 .. N : k < i => gs[k].End < off
  <2>1. i \in 1 .. N /\ off <= gs[i].End
      BY <1>1, <1>4, <1>5
  <2>2. ASSUME NEW k \in 1 .. N, k < i PROVE gs[k].End < off
    <3>1. k \notin A /\ gs[k].End \in Nat
      <4>1. \A x \in A : i <= x
          BY <1>4, <1>5
      <4>2. k \in Nat /\ i \in Nat /\ ~(i <= k) /\ gs[k].End \in Nat
          BY <1>1, <2>1, <2>2
      <4> QED
          BY <4>1, <4>2, Zenon
    <3> QED
        BY <1>1, <3>1
  <2> QED
      BY <2>1, <2>2
<1>8. m \in 1 .. N /\ end < gs[m].End /\ \A k \in 1 .. N : k < m => gs[k].End <= end
  <2>1. m \in 1 .. N /\ end < gs[m].End
      BY <1>1, <1>6
  <2> QED
      BY SMTT(60), <1>1, <1>6, <2>1
<1> HIDE DEF gs, N, A, B
<1>9. ASSUME ~(end <= gs[i].Start)
      PROVE  /\ j \in 1 .. N /\ i <= j /\ gs[i].Start < end /\ gs[j].Start <= end
             /\ \A k \in 1 .. N : k > j => end < gs[k].Start
  <2>0. gs[i].Start \in Nat /\ gs[m].Start \in Nat /\ gs[m].End \in Nat /\ i \in Nat /\ m \in Nat
      BY <1>1, <1>7, <1>8
  <2>1. i <= m
    <3>1. m < i => gs[m].End < off
        BY <1>7, <1>8
    <3> QED
        BY <1>8, <2>0, <3>1
  <2>2. CASE end >= gs[m].Start
    <3>1. j = m
        BY <1>4, <2>2
    <3>2. ASSUME NEW k \in 1 .. N, k > j PROVE end < gs[k].Start
      <4>1. gs[m].End < gs[k].Start /\ gs[k].Start \in Nat
          BY <1>1, <1>8, <3>1, <3>2
      <4> QED
          BY <1>8, <2>0, <4>1
    <3> QED
        BY <1>8, <1>9, <2>0, <2>1, <2>2, <3>1, <3>2
  <2>3. CASE ~(end >= gs[m].Start)
    <3>1. j = m - 1
        BY <1>4, <2>3
    <3>2. i # m
        BY <1>9, <2>0, <2>3
    <3>3. j \in 1 .. N /\ i <= j
        BY <1>1, <1>7, <1>8, <2>0, <2>1, <3>1, <3>2
    <3>4. gs[j].Start <= end
      <4>1. gs[j].Start \in Nat /\ gs[j].End \in Nat /\ gs[j].Start < gs[j].End /\ gs[j].End <= end
          BY <1>1, <1>8, <2>0, <3>1, <3>3
      <4> QED
          BY <4>1
    <3>5. ASSUME NEW k \in 1 .. N, k > j PROVE end < gs[k].Start
      <4>1. gs[k].Start \in Nat /\ (k = m \/ m < k)
          BY <1>1, <2>0, <3>1, <3>5
      <4>2. m < k => gs[m].End < gs[k].Start
          BY <1>1, <1>8
      <4> QED
          BY <1>8, <2>0, <2>3, <4>1, <4>2
    <3> QED
        BY <1>9, <2>0, <3>3, <3>4, <3>5
  <2> QED
      BY <2>2, <2>3
<1> QED
    BY <1>7, <1>9 DEF Meets, gs, N

\* The gaps that are left are those outside the data.
\* Where entries were replaced, the data starts before gap i or where it ends, and only then does it
\* go beyond gap j.
Touches(gs, i, j, from, to, any) ==
    /\ any => from <= gs[i].Start \/ from = gs[i].End
    /\ to <= gs[j].End \/ (i = j /\ any /\ from = gs[i].End)

\* The cases of push on the first and the last gap amount to cutting [from, to) out.
LEMMA GapsAfter ==
    ASSUME NEW s, Ordered(s.gaps), NEW i, NEW j, NEW from, NEW to, Spans(s.gaps, i, j, from, to), NEW any \in BOOLEAN,
           Touches(s.gaps, i, j, from, to, any)
    PROVE  gapsAfter(s, i, j, from, to, any) = Splice(s.gaps, i, j, from, to)
<1> USE DEF Splice, Touches
<1> DEFINE gi == s.gaps[i]  gj == s.gaps[j]
           before == IF from <= gi.Start
                     THEN (IF to >= gi.End THEN <<>> ELSE <<[gi EXCEPT !.Start = to]>>)
                     ELSE IF ~any THEN <<[gi EXCEPT !.End = from]>> ELSE <<gi>>
           after == IF to = gj.End THEN <<>>
                    ELSE IF i # j THEN <<[gj EXCEPT !.Start = to]>>
                    ELSE IF from > gi.Start /\ ~any THEN <<[gi EXCEPT !.Start = to]>>
                    ELSE <<>>
           L == SubSeq(s.gaps, 1, i - 1)
           R == SubSeq(s.gaps, j + 1, Len(s.gaps))
<1>1. gapsAfter(s, i, j, from, to, any) = L \o before \o after \o R
    BY DEF gapsAfter
<1>2. /\ gi \in Gap /\ gj \in Gap /\ gi.Start \in Nat /\ gi.End \in Nat /\ gj.Start \in Nat /\ gj.End \in Nat
      /\ gi.Start < gi.End /\ gj.Start < gj.End /\ (i < j => gi.End < gj.Start)
    BY GapFacts DEF Spans
<1>3. /\ i \in 1 .. Len(s.gaps) /\ j \in 1 .. Len(s.gaps) /\ i <= j /\ from \in Nat /\ to \in Nat /\ from < to
      /\ from <= gi.End /\ gj.Start <= to
    BY DEF Spans
<1>4. L \in Seq(Gap)
    BY <1>3, SomeGaps, GapFacts DEF Ordered
<1>5. CASE from <= gi.Start
  <2>1. to <= gj.End /\ leftOf(gi, from) = <<>>
      BY <1>2, <1>3, <1>5 DEF leftOf
  <2>2. CASE i = j /\ to < gi.End
    <3>1. rightOf(gj, to) = <<[gi EXCEPT !.Start = to]>>
        BY <2>2 DEF rightOf
    <3>2. before = <<[gi EXCEPT !.Start = to]>> /\ after = <<>>
        BY <1>2, <1>3, <1>5, <2>2
    <3> DEFINE x == <<[gi EXCEPT !.Start = to]>>
    <3>3. x \in Seq(Gap)
        BY <1>2, <1>3 DEF Gap
    <3> HIDE DEF L, R, x
    <3>4. L \o x \in Seq(Gap) /\ (L \o x) \o <<>> = L \o x /\ L \o <<>> = L
        BY <1>4, <3>3
    <3> QED
        BY <1>1, <2>1, <3>1, <3>2, <3>4, Zenon DEF x, L, R
  <2>3. CASE ~(i = j /\ to < gi.End)
    <3>1. before = <<>>
        BY <1>2, <1>3, <1>5, <2>1, <2>3
    <3>2. after = rightOf(gj, to)
        BY <1>2, <1>3, <1>5, <2>1, <2>3 DEF rightOf
    <3> QED
        BY <1>1, <2>1, <3>1, <3>2, Zenon
  <2> QED
      BY <2>2, <2>3
<1>6. CASE ~(from <= gi.Start)
  <2>1. leftOf(gi, from) = <<[gi EXCEPT !.End = from]>>
      BY <1>2, <1>3, <1>6 DEF leftOf
  <2>2. before = <<[gi EXCEPT !.End = from]>>
    <3>1. any => [gi EXCEPT !.End = from] = gi
        BY <1>2, <1>6 DEF Gap
    <3> QED
        BY <1>6, <3>1
  <2>3. after = rightOf(gj, to)
    <3>1. CASE i # j
        BY <1>2, <1>3, <3>1 DEF rightOf
    <3>2. CASE i = j /\ any
        BY <1>2, <1>3, <1>6, <3>2 DEF rightOf
    <3>3. CASE i = j /\ ~any
        BY <1>2, <1>3, <1>6, <3>3 DEF rightOf
    <3> QED
        BY <3>1, <3>2, <3>3
  <2> HIDE DEF before, after, L, R
  <2>4. before = leftOf(gi, from)
      BY <2>1, <2>2
  <2> QED
      BY <1>1, <2>3, <2>4 DEF L, R
<1> QED
    BY <1>5, <1>6

\* How push cuts the frame [off, end0) between gaps i and j, after the loop that left r.
Cut(s, i, j, off, end0, r, start, end1, end) ==
    /\ start = IF ~(off >= s.gaps[i].Start) /\ ~(r.keys # {}) THEN s.gaps[i].Start ELSE off
    /\ end1 = IF r.cut THEN r.at ELSE end0
    /\ end = IF ~(end0 < s.gaps[j].End) /\ start # s.gaps[j].End /\ end1 > s.gaps[j].End
             THEN s.gaps[j].End ELSE end1

\* Whatever the frame meets, the data push makes of it fits between the entries and the gaps.
LEMMA Pushed ==
    ASSUME NEW s, SorterOK(s), NEW i, NEW j, NEW off, NEW end0, Meets(s, i, j, off, end0),
           NEW r, r.done, r.cut \in BOOLEAN, ReplacedTo(s.queue, off, end0, r), r.cut => r.keys # {},
           NEW start, NEW end1, NEW end, Cut(s, i, j, off, end0, r, start, end1, end)
    PROVE  /\ Inserts(s, i, j, start, end, r.keys \cup coveredEntries(s, i, j))
           /\ Touches(s.gaps, i, j, start, end, r.keys # {})
<1> USE DEF Touches, Cut
<1> DEFINE N == Len(s.gaps)  gi == s.gaps[i]  gj == s.gaps[j]
<1>0. /\ i \in 1 .. N /\ j \in 1 .. N /\ i <= j /\ off \in Nat /\ end0 \in Nat /\ off < end0
      /\ off <= gi.End /\ gi.Start < end0
    BY DEF Meets
<1>1. /\ gi.Start \in Nat /\ gi.End \in Nat /\ gi.Start < gi.End /\ gj.Start \in Nat /\ gj.End \in Nat /\ gj.Start < gj.End
      /\ (i < j => gi.End < gj.Start)
    BY <1>0, SorterFacts, GapFacts
<1>2. gi.End <= gj.End
    BY <1>0, <1>1
<1>3. ASSUME off \notin DOMAIN s.queue PROVE r.keys = {} /\ ~r.cut
  <2>1. r.at = off
      BY <1>3 DEF ReplacedTo
  <2>2. r.keys = {p \in DOMAIN s.queue : off <= p /\ p < off}
      BY <2>1 DEF ReplacedTo, Walked
  <2>3. r.keys = {}
    <3>1. \A p \in DOMAIN s.queue : p \in Nat
        BY SorterFacts
    <3> QED
        BY <1>0, <2>2, <3>1
  <2> QED
      BY <1>3, <2>1, <2>3 DEF ReplacedTo
<1>4. ASSUME end1 = end0, start \in Nat, start # gj.End PROVE end = cutTo(gj, end0)
    BY <1>0, <1>1, <1>4 DEF cutTo
<1>5. CASE gi.Start <= off /\ off < gi.End
  <2>1. off \notin DOMAIN s.queue
    <3>1. ~Held(s.queue, off)
        BY <1>0, <1>5, GapIsEmpty
    <3>2. \A p \in DOMAIN s.queue : p \in Nat /\ Len(s.queue[p]) \in Nat /\ Len(s.queue[p]) >= 1
        BY SorterFacts
    <3> QED
        BY <1>0, <3>1, <3>2 DEF Held
  <2>2. r.keys = {} /\ ~r.cut
      BY <1>3, <2>1
  <2>3. start = off /\ end1 = end0
      BY <1>0, <1>1, <1>5, <2>2
  <2>4. end = cutTo(gj, end0)
      BY <1>0, <1>1, <1>2, <1>4, <1>5, <2>3
  <2>5. Inserts(s, i, j, off, cutTo(gj, end0), coveredEntries(s, i, j)) /\ cutTo(gj, end0) <= gj.End
    <3>1. off <= off
        BY <1>0
    <3> QED
        BY <1>0, <1>5, <3>1, StartsInGap
  <2>6. r.keys \cup coveredEntries(s, i, j) = coveredEntries(s, i, j)
      BY <2>2
  <2> QED
      BY <2>2, <2>3, <2>4, <2>5, <2>6, Zenon
<1>6. CASE gi.End <= off
  <2>1. /\ r.keys # {}
        /\ r.cut => /\ i = j /\ Inserts(s, i, j, off, r.at, r.keys \cup coveredEntries(s, i, j)) /\ gj.End < r.at
        /\ ~r.cut => /\ i < j /\ cutTo(gj, end0) <= gj.End
                     /\ Inserts(s, i, j, off, cutTo(gj, end0), r.keys \cup coveredEntries(s, i, j))
      BY <1>6, StartsAfterGap
  <2>2. start = off /\ off = gi.End
      BY <1>0, <1>1, <1>6, <2>1
  <2>3. CASE r.cut
    <3>1. i = j /\ Inserts(s, i, j, off, r.at, r.keys \cup coveredEntries(s, i, j)) /\ end1 = r.at
        BY <2>1, <2>3
    <3>2. end = r.at
        BY <2>2, <3>1
    <3> QED
        BY <2>1, <2>2, <3>1, <3>2, Zenon
  <2>4. CASE ~r.cut
    <3>1. i < j /\ Inserts(s, i, j, off, cutTo(gj, end0), r.keys \cup coveredEntries(s, i, j)) /\ cutTo(gj, end0) <= gj.End
        BY <2>1, <2>4
    <3>2. end1 = end0 /\ start # gj.End /\ start \in Nat
        BY SMTT(60), <1>0, <1>1, <2>2, <2>4, <3>1
    <3>3. end = cutTo(gj, end0)
        BY <1>4, <3>2
    <3> QED
        BY <2>1, <2>2, <3>1, <3>3, Zenon
  <2> QED
      BY <2>3, <2>4
<1>7. CASE off < gi.Start /\ off \in DOMAIN s.queue
  <2>1. /\ ~r.cut /\ r.keys # {}
        /\ Inserts(s, i, j, off, cutTo(gj, end0), r.keys \cup coveredEntries(s, i, j)) /\ cutTo(gj, end0) <= gj.End
      BY <1>7, StartsAtEntry
  <2>2. start = off /\ end1 = end0 /\ start # gj.End /\ start <= gi.Start
      BY <1>0, <1>1, <1>2, <1>7, <2>1
  <2>3. end = cutTo(gj, end0)
      BY <1>0, <1>4, <2>2
  <2> QED
      BY <2>1, <2>2, <2>3, Zenon
<1>8. CASE off < gi.Start /\ off \notin DOMAIN s.queue
  <2>1. r.keys = {} /\ ~r.cut
      BY <1>3, <1>8
  <2>2. start = gi.Start /\ end1 = end0
      BY <1>0, <1>1, <1>8, <2>1
  <2>3. end = cutTo(gj, end0)
      BY SMTT(60), <1>0, <1>1, <1>2, <1>4, <2>2
  <2>4. Inserts(s, i, j, start, cutTo(gj, end0), coveredEntries(s, i, j)) /\ cutTo(gj, end0) <= gj.End
    <3>1. start \in Nat /\ off <= start /\ start < end0 /\ gi.Start <= start /\ start < gi.End
        BY <1>0, <1>1, <1>8, <2>2
    <3> QED
        BY <1>0, <3>1, StartsInGap
  <2>5. r.keys \cup coveredEntries(s, i, j) = coveredEntries(s, i, j)
      BY <2>1
  <2> QED
      BY <2>1, <2>3, <2>4, <2>5, Zenon
<1>9. \/ gi.Start <= off /\ off < gi.End
      \/ gi.End <= off
      \/ off < gi.Start /\ off \in DOMAIN s.queue
      \/ off < gi.Start /\ off \notin DOMAIN s.queue
    BY SMTT(60), <1>0, <1>1
<1> QED
    BY <1>5, <1>6, <1>7, <1>8, <1>9, Zenon

\* push keeps the entries and the gaps apart, and leaves no byte out.
LEMMA PushKeeps ==
    ASSUME NEW s, SorterOK(s), NEW off \in Nat, NEW len \in Nat, off + len <= FinalSize
    PROVE  SorterOK(push(s, off, len).s) /\ push(s, off, len).s.readPos = s.readPos
<1> DEFINE end0 == off + len
           i == findStartGap(s.gaps, off)
           j == findEndGap(s.gaps, end0)
           r == replaced(s.queue, off, end0)
           any == r.keys # {}
           start == IF ~(off >= s.gaps[i].Start) /\ ~any THEN s.gaps[i].Start ELSE off
           end1 == IF r.cut THEN r.at ELSE end0
           end == IF ~(end0 < s.gaps[j].End) /\ start # s.gaps[j].End /\ end1 > s.gaps[j].End
                  THEN s.gaps[j].End ELSE end1
           keys == r.keys \cup coveredEntries(s, i, j)
           gs == gapsAfter(s, i, j, start, end, any)
           skipped == len = 0 \/ end0 <= s.gaps[1].Start \/ end0 <= s.gaps[i].Start \/ (r.cut /\ ~any)
           new == [s EXCEPT !.gaps = gs, !.queue = Replace(s.queue, keys, start, end)]
<1>1. push(s, off, len).s = IF skipped THEN s ELSE new
  <2>1. push(s, off, len) = IF skipped THEN [s |-> s, err |-> FALSE] ELSE [s |-> new, err |-> Len(gs) > MaxStreamFrameSorterGaps]
      BY Zenon DEF push, Replace
  <2> HIDE DEF skipped, new, gs
  <2> QED
      BY <2>1
<1>2. ASSUME ~skipped PROVE SorterOK(new)
  <2>1. end0 \in Nat /\ off < end0 /\ off <= end0
      BY <1>2
  <2>2. Meets(s, i, j, off, end0)
    <3>1. ~(end0 <= s.gaps[i].Start)
        BY <1>2
    <3> HIDE DEF i, j, end0
    <3>2. i = findStartGap(s.gaps, off) /\ j = findEndGap(s.gaps, end0) /\ end0 <= FinalSize
        BY DEF i, j, end0
    <3> QED
        BY <2>1, <3>1, <3>2, FindGaps, Zenon
  <2>3. ReplacedTo(s.queue, off, end0, r) /\ r.done /\ r.cut \in BOOLEAN
    <3>1. Tiles(s.queue)
        BY SorterFacts
    <3> HIDE DEF end0
    <3> QED
        BY <2>1, <3>1, Replaced, Zenon
  <2>4. r.cut => r.keys # {}
      BY <1>2
  <2>5. /\ Inserts(s, i, j, start, end, keys)
        /\ Touches(s.gaps, i, j, start, end, any)
    <3>1. Cut(s, i, j, off, end0, r, start, end1, end)
        BY Zenon DEF Cut
    <3> HIDE DEF i, j, r, end0, start, end1, end
    <3>2. /\ Inserts(s, i, j, start, end, r.keys \cup coveredEntries(s, i, j))
          /\ Touches(s.gaps, i, j, start, end, r.keys # {})
      <4> HIDE DEF keys, any
      <4> QED
          BY <2>2, <2>3, <2>4, <3>1, Pushed, Zenon
    <3> QED
        BY <3>2, Zenon
  <2>6. any \in BOOLEAN
      OBVIOUS
  <2> HIDE DEF i, j, r, end0, start, end1, end, keys, any
  <2>7. Spans(s.gaps, i, j, start, end) /\ Ordered(s.gaps)
      BY <2>5, SorterFacts DEF Inserts
  <2>8. gs = Splice(s.gaps, i, j, start, end)
      BY <2>5, <2>6, <2>7, GapsAfter, Zenon
  <2> HIDE DEF gs
  <2>9. /\ Ordered(gs)
        /\ \A b \in Nat : InGaps(gs, b) <=> InGaps(s.gaps, b) /\ ~(start <= b /\ b < end)
        /\ \A M \in Nat : end < M /\ (\E g \in Gaps(s.gaps) : g.End = M) => \E g \in Gaps(gs) : g.End = M
      BY <2>7, <2>8, Spliced, SMTT(60)
  <2>10. start \in Nat /\ end \in Nat /\ start < end /\ end <= FinalSize /\ s.readPos <= start /\ Fits(s.queue, start, end)
         /\ keys = {p \in DOMAIN s.queue : start <= p /\ p < end}
      BY <2>5 DEF Inserts, Spans
  <2>11. \E g \in Gaps(gs) : g.End = MaxByteCount
    <3>1. MaxByteCount \in Nat /\ end < MaxByteCount
        BY <2>10, RecvAssumption
    <3>2. \E g \in Gaps(s.gaps) : g.End = MaxByteCount
        BY DEF SorterOK
    <3> QED
        BY <2>9, <3>1, <3>2, Zenon
  <2> QED
      BY <2>9, <2>10, <2>11, InsertData, Zenon
<1>3. new.readPos = s.readPos
  <2>1. s \in SorterType
      BY DEF SorterOK
  <2> HIDE DEF gs, keys, start, end
  <2> QED
      BY <2>1 DEF SorterType
<1> HIDE DEF skipped, new
<1> QED
    BY <1>1, <1>2, <1>3

\* The queue without its first entry.
Popped(q, r) == [p \in DOMAIN q \ {r} |-> q[p]]

\* The queue without its first entry holds the rest.
LEMMA PoppedQueue ==
    ASSUME NEW s, SorterOK(s), s.readPos \in DOMAIN s.queue, NEW q, q = Popped(s.queue, s.readPos),
           NEW r, r = s.readPos + Len(s.queue[s.readPos])
    PROVE  /\ q \in UNION {[D -> Seq(Nat)] : D \in SUBSET Nat} /\ Tiles(q) /\ Content(q)
           /\ \A p \in DOMAIN q : r <= p
           /\ \A b \in Nat : Held(s.queue, b) <=> Held(q, b) \/ (s.readPos <= b /\ b < r)
<1> DEFINE o == s.queue  m == s.readPos
<1>1. /\ DOMAIN q = DOMAIN o \ {m} /\ \A p \in DOMAIN q : p \in DOMAIN o /\ p # m /\ q[p] = o[p]
    BY DEF Popped
<1>2. /\ m \in Nat /\ Tiles(o)
      /\ \A p \in DOMAIN o : p \in Nat /\ Len(o[p]) \in Nat /\ Len(o[p]) >= 1 /\ m <= p
      /\ \A p, x \in DOMAIN o : p < x => p + Len(o[p]) <= x
    BY SorterFacts
<1>3. q \in UNION {[D -> Seq(Nat)] : D \in SUBSET Nat}
  <2>1. o \in UNION {[D -> Seq(Nat)] : D \in SUBSET Nat}
      BY DEF SorterOK, SorterType
  <2>2. PICK D \in SUBSET Nat : o \in [D -> Seq(Nat)]
      BY <2>1
  <2>3. D \ {m} \in SUBSET Nat /\ Popped(o, m) \in [D \ {m} -> Seq(Nat)]
      BY <2>2 DEF Popped
  <2> QED
      BY <2>3
<1>4. Tiles(q)
  <2>1. IsFiniteSet(DOMAIN q) /\ DOMAIN q \in SUBSET Nat
      BY <1>1, <1>2, FS_Subset DEF Tiles
  <2> QED
      BY <1>1, <1>2, <2>1 DEF Tiles
<1>5. Content(q)
  <2>1. Content(o)
      BY DEF SorterOK
  <2> QED
      BY <1>1, <2>1 DEF Content
<1>6. \A p \in DOMAIN q : r <= p
  <2> TAKE p \in DOMAIN q
  <2>1. p \in DOMAIN o /\ m < p
      BY <1>1, <1>2
  <2> QED
      BY <1>2, <2>1
<1>7. \A b \in Nat : Held(o, b) <=> Held(q, b) \/ (m <= b /\ b < r)
  <2> TAKE b \in Nat
  <2>1. ASSUME Held(o, b) PROVE Held(q, b) \/ (m <= b /\ b < r)
    <3>1. PICK p \in DOMAIN o : p <= b /\ b < p + Len(o[p])
        BY <2>1 DEF Held
    <3>2. CASE p = m
        BY <3>1, <3>2
    <3>3. CASE p # m
        BY <1>1, <3>1, <3>3 DEF Held
    <3> QED
        BY <3>2, <3>3
  <2>2. ASSUME Held(q, b) PROVE Held(o, b)
      BY <1>1, <2>2 DEF Held
  <2>3. ASSUME m <= b /\ b < r PROVE Held(o, b)
      BY <2>3 DEF Held
  <2> QED
      BY <2>1, <2>2, <2>3
<1> QED
    BY <1>3, <1>4, <1>5, <1>6, <1>7

\* Pop hands out the next bytes of the stream, or nothing while they are missing.
LEMMA PopKeeps ==
    ASSUME NEW s, SorterOK(s)
    PROVE  LET p == Pop(s)
           IN  /\ SorterOK(p.s) /\ p.offset = s.readPos
               /\ p.data = Bytes(s.readPos, p.s.readPos) /\ s.readPos <= p.s.readPos
               /\ p.data = <<>> => p.s = s /\ s.readPos \notin DOMAIN s.queue
               /\ p.data \in Seq(Nat) /\ Len(p.data) = p.s.readPos - s.readPos
<1>0. s.readPos \in Nat /\ s \in SorterType /\ s.readPos <= FinalSize
    BY DEF SorterOK, SorterType
<1>1. CASE s.readPos \notin DOMAIN s.queue
  <2>1. Pop(s) = [s |-> s, offset |-> s.readPos, data |-> <<>>]
      BY <1>1 DEF Pop
  <2>2. Bytes(s.readPos, s.readPos) = <<>>
    <3>1. Bytes(s.readPos, s.readPos) \in Seq(Nat) /\ Len(Bytes(s.readPos, s.readPos)) = s.readPos - s.readPos
      <4>1. s.readPos <= s.readPos
          BY <1>0
      <4> QED
          BY <1>0, <4>1, BytesFacts, Zenon
    <3> QED
        BY <1>0, <3>1
  <2> QED
      BY <1>0, <1>1, <2>1, <2>2
<1>2. CASE s.readPos \in DOMAIN s.queue
  <2> DEFINE m == s.readPos  q == Popped(s.queue, m)  r == m + Len(s.queue[m])
             new == [s EXCEPT !.queue = q, !.readPos = @ + Len(s.queue[s.readPos])]
  <2>1. Pop(s) = [s |-> new, offset |-> m, data |-> s.queue[m]]
      BY <1>2 DEF Pop, Popped
  <2>2. new.queue = q /\ new.readPos = r /\ new.gaps = s.gaps
      BY <1>0 DEF SorterType
  <2>3. Len(s.queue[m]) \in Nat /\ Len(s.queue[m]) >= 1 /\ r \in Nat /\ m < r
      BY <1>0, <1>2, SorterFacts
  <2>4. s.queue[m] = Bytes(m, r)
      BY <1>2 DEF SorterOK, Content
  <2>5. s.queue[m] \in Seq(Nat) /\ Len(s.queue[m]) = r - m /\ s.queue[m] # <<>>
    <3>1. Bytes(m, r) \in Seq(Nat) /\ Len(Bytes(m, r)) = r - m
      <4>1. m <= r
          BY <1>0, <2>3
      <4> HIDE DEF m, r
      <4>2. m \in Nat /\ r \in Nat
          BY <1>0, <2>3 DEF m
      <4> QED
          BY <4>1, <4>2, BytesFacts, Zenon
    <3> QED
        BY <1>0, <2>3, <2>4, <3>1
  <2>6. r <= FinalSize
    <3>1. Held(s.queue, r - 1) /\ r - 1 \in Nat
        BY <1>0, <1>2, <2>3 DEF Held
    <3>2. r - 1 < FinalSize
        BY <3>1 DEF SorterOK
    <3> QED
        BY <2>3, <3>2, RecvAssumption
  <2> HIDE DEF q, r
  <2>7. /\ q \in UNION {[D -> Seq(Nat)] : D \in SUBSET Nat} /\ Tiles(q) /\ Content(q)
        /\ \A p \in DOMAIN q : r <= p
        /\ \A b \in Nat : Held(s.queue, b) <=> Held(q, b) \/ (m <= b /\ b < r)
      BY <1>2, PoppedQueue DEF q, r
  <2>8. new \in SorterType
      BY <1>0, <2>2, <2>3, <2>7 DEF SorterType, q
  <2>9. Exact(q, s.gaps, r)
    <3>1. Exact(s.queue, s.gaps, m)
        BY SorterFacts
    <3>2. ASSUME NEW b \in Nat, InGaps(s.gaps, b) PROVE r <= b /\ b < MaxByteCount
      <4>1. m <= b /\ b < MaxByteCount /\ ~Held(s.queue, b)
          BY <3>1, <3>2 DEF Exact
      <4> QED
          BY <2>3, <2>7, <4>1
    <3>3. ASSUME NEW b \in Nat, r <= b, b < MaxByteCount PROVE InGaps(s.gaps, b) <=> ~Held(q, b)
      <4>1. m <= b /\ ~(b < r)
          BY <1>0, <2>3, <3>3
      <4>2. InGaps(s.gaps, b) <=> ~Held(s.queue, b)
          BY <3>1, <3>3, <4>1 DEF Exact
      <4> QED
          BY <2>7, <4>1, <4>2
    <3> QED
        BY <2>7, <3>2, <3>3 DEF Exact
  <2>10. SorterOK(new)
    <3>1. Ordered(s.gaps) /\ \E g \in Gaps(s.gaps) : g.End = MaxByteCount
        BY DEF SorterOK
    <3>2. \A b \in Nat : Held(q, b) => b < FinalSize
        BY <2>7 DEF SorterOK
    <3> HIDE DEF new
    <3> QED
        BY <2>2, <2>6, <2>7, <2>8, <2>9, <3>1, <3>2 DEF SorterOK
  <2> HIDE DEF new
  <2> QED
      BY <1>0, <2>1, <2>2, <2>3, <2>4, <2>5, <2>10
<1> QED
    BY <1>1, <1>2

-----------------------------------------------------------------------------
(* Reading (receive_stream.go).                                            *)

\* How a stretch of Read ends.
Rets == {"no", "wait", "EOF", "full", "partial", "shutdown", "canceled", "reset", "deadline"}

\* A call of Read.
CallType == [waiting : BOOLEAN, size : Nat, got : Nat, timer : BOOLEAN]

\* What a stretch of Read changes.
ReadType ==
    [sorter : SorterType, cur : Seq(Nat), pos : Nat, last : BOOLEAN, fin : BOOLEAN, call : CallType,
     read : Seq(Nat), ret : Rets]

\* After n bytes: the current frame c has the next ones, and what follows is with the sorter.
ReadTo(s, c, pos, n) ==
    /\ c = <<>> => s.readPos = n
    /\ c # <<>> => /\ pos <= Len(c) /\ Len(c) <= s.readPos /\ c = Bytes(s.readPos - Len(c), s.readPos)
                   /\ n = s.readPos - Len(c) + pos

\* currentFrameIsLast: the end of the stream is known, and nothing is left in the sorter.
LastFrame(s, last) == last => finalOffset = FinalSize /\ s.readPos = FinalSize

\* Nothing can be read at the sorter's position.
Nothing(s) == s.readPos \notin DOMAIN s.queue /\ s.readPos < finalOffset

\* What a return of the call means.
Returned(x) ==
    /\ x.fin <=> x.ret = "EOF"
    /\ x.ret = "EOF" => finalOffset = FinalSize /\ Len(readBytes) + Len(x.read) = FinalSize /\ readErr = "no"
    /\ x.ret = "wait" => /\ Nothing(x.sorter) /\ readErr = "no"
                         /\ x.call.waiting /\ (rdeadline = "future" => x.call.timer)
    /\ x.ret = "canceled" => cancelReadErr
    /\ x.ret = "reset" => resetRemotelyErr
    /\ readErr # "no" => x.read = <<>>

\* The invariant of the loop of readImpl.
ReadOK(x) ==
    /\ x \in ReadType /\ SorterOK(x.sorter) /\ x.call.got <= x.call.size
    /\ x.read = Bytes(Len(readBytes), Len(readBytes) + Len(x.read))
    /\ ReadTo(x.sorter, x.cur, x.pos, Len(readBytes) + Len(x.read))
    /\ LastFrame(x.sorter, x.last)
    /\ Returned(x)

\* A frame was fetched, if there is one.
Fetched(x) == x.cur = <<>> => x.pos = 0 /\ x.sorter.readPos \notin DOMAIN x.sorter.queue /\ (x.last \/ x.sorter.readPos < finalOffset)

\* Types of the stream.
RecvType ==
    /\ finalOffset \in {MaxByteCount, FinalSize} /\ highestReceived \in 0 .. FinalSize
    /\ cur \in Seq(Nat) /\ curPos \in Nat /\ curLast \in BOOLEAN
    /\ finRead \in BOOLEAN /\ cancelReadErr \in BOOLEAN /\ resetRemotelyErr \in BOOLEAN /\ shutdownErr \in BOOLEAN
    /\ readSig \in BOOLEAN /\ rdeadline \in {"none", "future", "past"}
    /\ reader \in CallType /\ reader.got <= reader.size
    /\ readBytes \in Seq(Nat) /\ told \in BOOLEAN
    /\ bytesRead = Len(readBytes) /\ connRead \in Int /\ rcvCompleted \in Nat

\* What was read, what is being read and what is queued.
ReadInv ==
    /\ SorterOK(sorter) /\ readBytes = Bytes(0, Len(readBytes))
    /\ ReadTo(sorter, cur, curPos, Len(readBytes)) /\ LastFrame(sorter, curLast)

\* The end of the stream, and how the application comes to know of it.
EndInv ==
    /\ finalOffset = FinalSize => highestReceived = FinalSize
    /\ finRead => finalOffset = FinalSize
    /\ reader.waiting => ~finRead
    /\ resetRemotelyErr => finalOffset = FinalSize
    /\ told => finRead \/ cancelReadErr \/ resetRemotelyErr

\* The stream is completed exactly when it was read to its end, or given up and its size is known.
CompletedInv ==
    /\ rcvCompleted \in {0, 1}
    /\ rcvCompleted = 1 <=> finRead \/ ((cancelReadErr \/ resetRemotelyErr) /\ finalOffset = FinalSize)
    /\ connRead = IF rcvCompleted = 1 THEN highestReceived ELSE bytesRead

\* The invariant of the receive stream.
RecvInv == RecvType /\ ReadInv /\ EndInv /\ WaitingReadHasNothing

\* Bytes that follow each other.
LEMMA BytesJoin ==
    ASSUME NEW a \in Nat, NEW b \in Nat, NEW c \in Nat, a <= b, b <= c
    PROVE  Bytes(a, b) \o Bytes(b, c) = Bytes(a, c)
<1> DEFINE x == Bytes(a, b)  y == Bytes(b, c)  z == Bytes(a, c)
<1>1. a <= c
    OBVIOUS
<1>2. /\ x \in Seq(Nat) /\ Len(x) = b - a /\ \A k \in 1 .. b - a : x[k] = a + k - 1
      /\ y \in Seq(Nat) /\ Len(y) = c - b /\ \A k \in 1 .. c - b : y[k] = b + k - 1
      /\ z \in Seq(Nat) /\ Len(z) = c - a /\ \A k \in 1 .. c - a : z[k] = a + k - 1
    BY <1>1, BytesFacts
<1> HIDE DEF x, y, z
<1>3. /\ x \o y \in Seq(Nat) /\ Len(x \o y) = Len(x) + Len(y)
      /\ \A k \in 1 .. Len(x) + Len(y) : (x \o y)[k] = IF k <= Len(x) THEN x[k] ELSE y[k - Len(x)]
    BY <1>2, ConcatProperties, Zenon
<1>4. Len(x \o y) = Len(z)
    BY <1>2, <1>3
<1>5. ASSUME NEW k \in 1 .. Len(z) PROVE (x \o y)[k] = z[k]
  <2>1. k \in 1 .. c - a /\ z[k] = a + k - 1
      BY <1>2
  <2>2. CASE k <= b - a
    <3>1. k \in 1 .. b - a /\ x[k] = a + k - 1
        BY <1>2, <2>1, <2>2
    <3>2. (x \o y)[k] = x[k]
        BY <1>2, <1>3, <2>1, <2>2
    <3> QED
        BY <2>1, <3>1, <3>2
  <2>3. CASE k > b - a
    <3>1. k - (b - a) \in 1 .. c - b /\ y[k - (b - a)] = b + (k - (b - a)) - 1
        BY <1>2, <2>1, <2>3
    <3>2. (x \o y)[k] = y[k - (b - a)]
      <4>1. k \in 1 .. Len(x) + Len(y) /\ ~(k <= Len(x))
          BY <1>2, <2>1, <2>3
      <4>2. (x \o y)[k] = y[k - Len(x)]
          BY <1>3, <4>1, Zenon
      <4> QED
          BY <1>2, <4>2
    <3> QED
        BY <2>1, <3>1, <3>2
  <2>4. k <= b - a \/ k > b - a
      BY <2>1
  <2> QED
      BY <2>2, <2>3, <2>4
<1>6. x \o y = z
    BY <1>2, <1>3, <1>4, <1>5, SeqEqual
<1> QED
    BY <1>6 DEF x, y, z

\* Some of the bytes.
LEMMA BytesPart ==
    ASSUME NEW a \in Nat, NEW b \in Nat, NEW p \in Nat, NEW m \in Nat, a + p + m <= b
    PROVE  SubSeq(Bytes(a, b), p + 1, p + m) = Bytes(a + p, a + p + m)
<1> DEFINE x == Bytes(a, b)  y == Bytes(a + p, a + p + m)  z == SubSeq(x, p + 1, p + m)
<1>1. a <= b /\ a + p \in Nat /\ a + p + m \in Nat /\ a + p <= a + p + m
    OBVIOUS
<1>2. x \in Seq(Nat) /\ Len(x) = b - a /\ \A k \in 1 .. b - a : x[k] = a + k - 1
    BY <1>1, BytesFacts
<1>3. y \in Seq(Nat) /\ Len(y) = (a + p + m) - (a + p) /\ \A k \in 1 .. (a + p + m) - (a + p) : y[k] = (a + p) + k - 1
    BY <1>1, BytesFacts, Zenon
<1> HIDE DEF x, y
<1>4. Len(y) = m /\ \A k \in 1 .. m : y[k] = a + p + k - 1
    BY <1>3
<1>5. z \in Seq(Nat) /\ Len(z) = m /\ \A k \in 1 .. m : z[k] = x[p + k]
  <2>1. p + 1 \in 1 .. Len(x) + 1 /\ p + m \in 0 .. Len(x) /\ m \in Nat
      BY <1>2
  <2> QED
      BY <1>2, <2>1
<1> HIDE DEF z
<1>6. ASSUME NEW k \in 1 .. m PROVE z[k] = y[k]
  <2>1. p + k \in 1 .. b - a
      BY <1>1
  <2>2. x[p + k] = a + (p + k) - 1
      BY <1>2, <2>1
  <2>3. z[k] = x[p + k] /\ y[k] = a + p + k - 1
      BY <1>4, <1>5
  <2> QED
      BY <2>2, <2>3
<1>7. z = y
    BY <1>3, <1>4, <1>5, <1>6, SeqEqual
<1> QED
    BY <1>7 DEF x, y, z

\* dequeueNextFrame at the end of the current frame.
LEMMA Dequeued ==
    ASSUME RecvType, NEW x, ReadOK(x), x.ret = "no", x.cur = <<>> \/ x.pos >= Len(x.cur)
    PROVE  /\ ReadOK(dequeueNextFrame(x)) /\ Fetched(dequeueNextFrame(x)) /\ dequeueNextFrame(x).ret = "no"
           /\ dequeueNextFrame(x).call = x.call
<1> DEFINE p == Pop(x.sorter)  d == dequeueNextFrame(x)  n == Len(readBytes) + Len(x.read)
<1>1. /\ x \in ReadType /\ SorterOK(x.sorter) /\ x.call.got <= x.call.size
      /\ x.read = Bytes(Len(readBytes), Len(readBytes) + Len(x.read))
      /\ ReadTo(x.sorter, x.cur, x.pos, n)
      /\ Returned(x)
    BY DEF ReadOK
<1>2. /\ x.sorter \in SorterType /\ x.cur \in Seq(Nat) /\ x.pos \in Nat /\ x.last \in BOOLEAN /\ x.fin \in BOOLEAN
      /\ x.call \in CallType /\ x.read \in Seq(Nat) /\ x.ret \in Rets
    BY <1>1 DEF ReadType
<1>3. /\ SorterOK(p.s) /\ p.offset = x.sorter.readPos
      /\ p.data = Bytes(x.sorter.readPos, p.s.readPos) /\ x.sorter.readPos <= p.s.readPos
      /\ p.data = <<>> => p.s = x.sorter /\ x.sorter.readPos \notin DOMAIN x.sorter.queue
      /\ p.data \in Seq(Nat) /\ Len(p.data) = p.s.readPos - x.sorter.readPos
    BY <1>1, PopKeeps
<1>4. /\ d.sorter = p.s /\ d.cur = p.data /\ d.pos = 0 /\ (d.last <=> p.offset + Len(p.data) >= finalOffset)
      /\ d.fin = x.fin /\ d.call = x.call /\ d.read = x.read /\ d.ret = x.ret
    BY <1>1 DEF dequeueNextFrame, ReadType
<1>5. d \in ReadType
  <2>1. d = [x EXCEPT !.sorter = p.s, !.cur = p.data, !.pos = 0, !.last = (p.offset + Len(p.data) >= finalOffset)]
      BY Zenon DEF dequeueNextFrame
  <2>2. p.s \in SorterType
      BY <1>3 DEF SorterOK
  <2>3. (p.offset + Len(p.data) >= finalOffset) \in BOOLEAN
      OBVIOUS
  <2> HIDE DEF d, p
  <2> QED
      BY <1>1, <1>3, <2>1, <2>2, <2>3 DEF ReadType
<1> HIDE DEF d, p
<1>6. x.sorter.readPos = n /\ n \in Nat /\ p.s.readPos \in Nat /\ p.s.readPos <= FinalSize
  <2>1. x.sorter.readPos \in Nat /\ p.s.readPos \in Nat /\ p.s.readPos <= FinalSize
      BY <1>1, <1>3, SorterFacts DEF SorterOK
  <2>2. CASE x.cur = <<>>
      BY <1>1, <2>1, <2>2 DEF ReadTo
  <2>3. CASE x.cur # <<>> /\ x.pos >= Len(x.cur)
    <3>1. x.pos <= Len(x.cur) /\ n = x.sorter.readPos - Len(x.cur) + x.pos /\ Len(x.cur) \in Nat
        BY <1>1, <1>2, <2>3 DEF ReadTo
    <3> QED
        BY <1>2, <2>1, <2>3, <3>1
  <2> QED
      BY <2>1, <2>2, <2>3
<1> HIDE DEF n
<1>7. ReadTo(p.s, p.data, 0, n)
  <2>1. CASE p.data = <<>>
      BY <1>3, <1>6, <2>1 DEF ReadTo
  <2>2. CASE p.data # <<>>
    <3>1. Len(p.data) = p.s.readPos - n /\ n <= p.s.readPos /\ p.data = Bytes(n, p.s.readPos)
        BY <1>3, <1>6
    <3>2. p.s.readPos - Len(p.data) = n /\ 0 <= Len(p.data) /\ Len(p.data) <= p.s.readPos /\ n = p.s.readPos - Len(p.data) + 0
        BY <1>6, <3>1
    <3> QED
        BY <2>2, <3>1, <3>2 DEF ReadTo
  <2> QED
      BY <2>1, <2>2
<1>8. p.offset + Len(p.data) = p.s.readPos
    BY <1>3, <1>6
<1>9. finalOffset \in {MaxByteCount, FinalSize} /\ FinalSize \in Nat /\ MaxByteCount \in Nat /\ FinalSize < MaxByteCount
    BY RecvAssumption DEF RecvType
<1>10. LastFrame(d.sorter, d.last)
  <2>1. ASSUME d.last PROVE finalOffset = FinalSize /\ p.s.readPos = FinalSize
    <3>1. p.s.readPos >= finalOffset
        BY <1>4, <1>8, <2>1
    <3> QED
        BY <1>6, <1>9, <3>1
  <2> QED
      BY <1>4, <2>1 DEF LastFrame
<1>11. Returned(d)
    BY <1>1, <1>4 DEF Returned
<1>12. ReadOK(d)
    BY <1>1, <1>3, <1>4, <1>5, <1>7, <1>10, <1>11 DEF ReadOK, n
<1>13. Fetched(d)
  <2> SUFFICES ASSUME p.data = <<>> PROVE p.s.readPos \notin DOMAIN p.s.queue /\ (d.last \/ p.s.readPos < finalOffset)
      BY <1>4 DEF Fetched
  <2>1. p.s.readPos \notin DOMAIN p.s.queue
      BY <1>3
  <2>2. p.s.readPos >= finalOffset \/ p.s.readPos < finalOffset
      BY <1>6, <1>9
  <2> QED
      BY <1>4, <1>8, <2>1, <2>2
<1> QED
    BY <1>4, <1>12, <1>13 DEF d

\* The errors that stop a Read.
LEMMA ReadErrs ==
    /\ readErr \in {"shutdown", "canceled", "reset", "deadline", "no"}
    /\ readErr = "canceled" => cancelReadErr
    /\ readErr = "reset" => resetRemotelyErr
    /\ readErr = "no" => ~shutdownErr /\ ~cancelReadErr /\ ~resetRemotelyErr /\ rdeadline # "past"
    /\ cancelReadErr \/ resetRemotelyErr => readErr # "no"
BY DEF readErr

\* Copying m bytes of a frame of length l that ends at r, from pos on, reads from n to n + m.
LEMMA CopyPosition ==
    ASSUME NEW pos \in Nat, NEW l \in Nat, NEW r \in Nat, NEW n \in Nat, NEW m \in Nat,
           pos <= l, l <= r, n = r - l + pos, m <= l - pos
    PROVE  /\ pos + m <= l /\ n + m = r - l + (pos + m)
           /\ pos + m >= l => r = n + m
OBVIOUS

\* One round of readImpl after a frame was fetched.
LEMMA Copied ==
    ASSUME RecvType, NEW x, ReadOK(x), x.ret = "no", Fetched(x)
    PROVE  ReadOK(copyFrame(x))
<1> DEFINE n == Len(readBytes) + Len(x.read)
           m == Min({x.call.size - x.call.got, Len(x.cur) - x.pos})
           t == [x EXCEPT !.pos = @ + m, !.call.got = @ + m, !.read = @ \o SubSeq(x.cur, x.pos + 1, x.pos + m)]
           c == copyFrame(x)
<1>1. /\ x \in ReadType /\ SorterOK(x.sorter) /\ x.call.got <= x.call.size
      /\ x.read = Bytes(Len(readBytes), n)
      /\ ReadTo(x.sorter, x.cur, x.pos, n)
      /\ LastFrame(x.sorter, x.last)
      /\ Returned(x)
    BY DEF ReadOK
<1>2. /\ x.sorter \in SorterType /\ x.cur \in Seq(Nat) /\ x.pos \in Nat /\ x.last \in BOOLEAN /\ x.fin \in BOOLEAN
      /\ x.call \in CallType /\ x.read \in Seq(Nat) /\ x.ret \in Rets
    BY <1>1 DEF ReadType
<1>3. x.call.got \in Nat /\ x.call.size \in Nat /\ Len(x.cur) \in Nat /\ Len(readBytes) \in Nat /\ Len(x.read) \in Nat
      /\ n \in Nat
    BY <1>2, SMTT(60) DEF CallType, RecvType
<1>4. ~x.fin
    BY <1>1 DEF Returned
<1>5. /\ c = IF readErr # "no" THEN [x EXCEPT !.ret = readErr]
             ELSE IF x.cur = <<>> /\ ~x.last
                  THEN [x EXCEPT !.ret = "wait", !.call.waiting = TRUE, !.call.timer = rdeadline = "future"]
             ELSE IF t.pos >= Len(x.cur) /\ x.last THEN [t EXCEPT !.fin = TRUE, !.cur = <<>>, !.ret = "EOF"]
             ELSE IF t.call.got >= x.call.size THEN [t EXCEPT !.ret = "full"] ELSE t
    BY Zenon DEF copyFrame
<1> HIDE DEF c, n
<1>6. CASE readErr # "no"
  <2>1. c = [x EXCEPT !.ret = readErr]
      BY <1>5, <1>6, Zenon
  <2>2. readErr \in Rets /\ readErr # "EOF" /\ readErr # "wait"
      BY ReadErrs DEF Rets
  <2>3. /\ c.sorter = x.sorter /\ c.cur = x.cur /\ c.pos = x.pos /\ c.last = x.last /\ c.fin = x.fin /\ c.call = x.call
        /\ c.read = x.read /\ c.ret = readErr /\ c \in ReadType
      BY <1>1, <2>1, <2>2 DEF ReadType
  <2>4. Returned(c)
    <3>1. x.read = <<>>
        BY <1>1, <1>6 DEF Returned
    <3> QED
        BY <1>4, <1>6, <2>2, <2>3, <3>1, ReadErrs DEF Returned
  <2> QED
      BY <1>1, <2>3, <2>4 DEF ReadOK, c, n
<1>7. CASE readErr = "no" /\ x.cur = <<>> /\ ~x.last
  <2>1. c = [x EXCEPT !.ret = "wait", !.call.waiting = TRUE, !.call.timer = rdeadline = "future"]
      BY <1>5, <1>7, Zenon
  <2>2. /\ c.sorter = x.sorter /\ c.cur = x.cur /\ c.pos = x.pos /\ c.last = x.last /\ c.fin = x.fin
        /\ c.read = x.read /\ c.ret = "wait"
      BY <1>1, <2>1 DEF ReadType
  <2>3. c.call = [x.call EXCEPT !.waiting = TRUE, !.timer = rdeadline = "future"]
      BY <1>1, <2>1 DEF ReadType
  <2>4. (rdeadline = "future") \in BOOLEAN
      OBVIOUS
  <2>5. /\ c.call \in CallType /\ c.call.size = x.call.size /\ c.call.got = x.call.got /\ c.call.waiting
        /\ (c.call.timer <=> rdeadline = "future")
      BY <1>2, <2>3, <2>4 DEF CallType
  <2>6. c \in ReadType
    <3>1. c = [x EXCEPT !.ret = "wait", !.call = c.call]
        BY <1>1, <2>1, <2>3 DEF ReadType
    <3>2. "wait" \in Rets
        BY DEF Rets
    <3> HIDE DEF c
    <3> QED
        BY <1>1, <2>5, <3>1, <3>2 DEF ReadType
  <2>7. Nothing(x.sorter)
      BY <1>7 DEF Fetched, Nothing
  <2>8. Returned(c)
      BY <1>1, <1>4, <1>7, <2>2, <2>5, <2>7 DEF Returned
  <2> QED
      BY <1>1, <2>2, <2>5, <2>6, <2>8 DEF ReadOK, c, n
<1>8. CASE readErr = "no" /\ ~(x.cur = <<>> /\ ~x.last)
  <2> DEFINE r == x.sorter.readPos
  <2>1. /\ x.pos <= Len(x.cur) /\ Len(x.cur) <= r /\ x.cur = Bytes(r - Len(x.cur), r)
        /\ n = r - Len(x.cur) + x.pos /\ r \in Nat
    <3>0. r \in Nat
        BY <1>1, SorterFacts
    <3>1. CASE x.cur # <<>>
        BY <1>1, <3>0, <3>1 DEF ReadTo
    <3>2. CASE x.cur = <<>>
      <4>1. x.pos = 0 /\ r = n /\ Len(x.cur) = 0
          BY <1>1, <3>2 DEF ReadTo, Fetched
      <4>2. r - Len(x.cur) = r /\ r <= r
          BY <3>0, <4>1
      <4>3. Bytes(r, r) \in Seq(Nat) /\ Len(Bytes(r, r)) = r - r
          BY <3>0, <4>2, BytesFacts, Zenon
      <4>4. Bytes(r, r) = <<>>
          BY <3>0, <4>3
      <4> QED
          BY <3>0, <3>2, <4>1, <4>2, <4>4
    <3> QED
        BY <3>1, <3>2
  <2>2. m \in Nat /\ m <= x.call.size - x.call.got /\ m <= Len(x.cur) - x.pos
    <3> DEFINE S == {x.call.size - x.call.got, Len(x.cur) - x.pos}
    <3>1. S \in SUBSET Nat /\ S # {}
        BY SMTT(60), <1>1, <1>2, <1>3, <2>1
    <3>2. Min(S) \in S /\ \A k \in S : Min(S) <= k
        BY <3>1, MinOf, Zenon
    <3> QED
        BY <3>1, <3>2
  <2> HIDE DEF m
  <2>0. /\ x.pos \in Nat /\ Len(x.cur) \in Nat /\ r \in Nat /\ n \in Nat /\ m \in Nat
        /\ x.pos <= Len(x.cur) /\ Len(x.cur) <= r /\ n = r - Len(x.cur) + x.pos /\ m <= Len(x.cur) - x.pos
      BY <1>2, <1>3, <2>1, <2>2, Zenon
  <2> DEFINE sub == SubSeq(x.cur, x.pos + 1, x.pos + m)
  <2>3. sub = Bytes(n, n + m)
    <3> DEFINE a == r - Len(x.cur)
    <3>1. a \in Nat /\ a + x.pos + m <= r /\ a + x.pos = n /\ r \in Nat /\ x.pos \in Nat /\ m \in Nat
        BY SMTT(60), <2>0
    <3>2. SubSeq(Bytes(a, r), x.pos + 1, x.pos + m) = Bytes(a + x.pos, a + x.pos + m)
      <4> HIDE DEF a, r
      <4> QED
          BY <3>1, BytesPart, ZenonT(60)
    <3> HIDE DEF a
    <3>3. x.cur = Bytes(a, r)
        BY <2>1 DEF a
    <3> QED
        BY <3>1, <3>2, <3>3, Zenon
  <2> HIDE DEF sub
  <2>4. sub \in Seq(Nat) /\ Len(sub) = m
    <3>1. n + m \in Nat /\ n <= n + m
        BY <1>3, <2>2
    <3>2. Bytes(n, n + m) \in Seq(Nat) /\ Len(Bytes(n, n + m)) = (n + m) - n
        BY <1>3, <3>1, BytesFacts, Zenon
    <3> QED
        BY <2>0, <2>3, <3>2
  <2>5. x.read \o sub = Bytes(Len(readBytes), n + m) /\ x.read \o sub \in Seq(Nat) /\ Len(readBytes) + Len(x.read \o sub) = n + m
    <3>1. Len(readBytes) <= n /\ n <= n + m /\ n + m \in Nat
        BY <1>3, <2>2 DEF n
    <3>2. Bytes(Len(readBytes), n) \o Bytes(n, n + m) = Bytes(Len(readBytes), n + m)
        BY <1>3, <3>1, BytesJoin, Zenon
    <3>3. x.read \o sub \in Seq(Nat) /\ Len(x.read \o sub) = Len(x.read) + Len(sub)
        BY <1>2, <2>4, ConcatProperties, Zenon
    <3>4. Len(readBytes) + Len(x.read \o sub) = n + m
        BY <1>3, <2>2, <2>4, <3>3 DEF n
    <3>5. x.read \o sub = Bytes(Len(readBytes), n + m)
        BY <1>1, <2>3, <3>2
    <3> QED
        BY <3>3, <3>4, <3>5
  <2>6. /\ t.sorter = x.sorter /\ t.cur = x.cur /\ t.pos = x.pos + m /\ t.last = x.last /\ t.fin = x.fin
        /\ t.read = x.read \o sub /\ t.ret = "no" /\ t.call = [x.call EXCEPT !.got = @ + m]
      BY <1>1 DEF ReadType, sub
  <2>7. t.call \in CallType /\ t.call.got = x.call.got + m /\ t.call.size = x.call.size /\ t.call.got <= t.call.size
    <3> HIDE DEF t
    <3>1. t.call = [x.call EXCEPT !.got = @ + m] /\ x.call.got + m \in Nat /\ x.call.got + m <= x.call.size
        BY SMTT(60), <1>3, <2>2, <2>6
    <3> QED
        BY <1>2, <3>1 DEF CallType
  <2>8. t \in ReadType
    <3>1. t = [x EXCEPT !.pos = x.pos + m, !.call = t.call, !.read = x.read \o sub]
        BY <1>1, <2>6 DEF ReadType
    <3>2. x.pos + m \in Nat
        BY <1>2, <2>2
    <3> HIDE DEF t
    <3> QED
        BY <1>1, <2>5, <2>7, <3>1, <3>2 DEF ReadType
  <2> HIDE DEF t
  <2>9. ReadTo(x.sorter, x.cur, x.pos + m, n + m)
    <3>1. x.pos + m <= Len(x.cur) /\ n + m = r - Len(x.cur) + (x.pos + m)
      <4> HIDE DEF n, r
      <4> QED
          BY <2>0, CopyPosition
    <3>2. x.cur = <<>> => r = n + m
        BY <1>2, <1>3, <2>1, <2>2
    <3> QED
        BY <2>1, <3>1, <3>2 DEF ReadTo
  <2>10. CASE t.pos >= Len(x.cur) /\ x.last
    <3>1. c = [t EXCEPT !.fin = TRUE, !.cur = <<>>, !.ret = "EOF"]
        BY <1>5, <1>8, <2>10, Zenon
    <3>2. /\ c.sorter = x.sorter /\ c.cur = <<>> /\ c.pos = t.pos /\ c.last = x.last /\ c.fin = TRUE /\ c.call = t.call
          /\ c.read = x.read \o sub /\ c.ret = "EOF"
        BY <2>6, <2>8, <3>1 DEF ReadType
    <3>3. c \in ReadType
      <4>1. "EOF" \in Rets /\ <<>> \in Seq(Nat) /\ TRUE \in BOOLEAN
          BY DEF Rets
      <4> QED
          BY <2>8, <3>1, <4>1 DEF ReadType
    <3>4. r = n + m
      <4>1. x.pos + m >= Len(x.cur)
          BY <2>6, <2>10
      <4> HIDE DEF n, r
      <4> QED
          BY SMTT(60), <2>0, <4>1, CopyPosition
    <3>5. ReadTo(x.sorter, <<>>, t.pos, n + m)
        BY <3>4 DEF ReadTo
    <3>6. finalOffset = FinalSize /\ r = FinalSize
        BY <1>1, <2>10 DEF LastFrame
    <3>7. Returned(c)
        BY <1>8, <2>5, <3>2, <3>4, <3>6 DEF Returned
    <3> QED
        BY <1>1, <2>5, <2>7, <3>2, <3>3, <3>5, <3>7 DEF ReadOK, c
  <2>11. CASE ~(t.pos >= Len(x.cur) /\ x.last)
    <3>1. c = IF t.call.got >= x.call.size THEN [t EXCEPT !.ret = "full"] ELSE t
        BY <1>5, <1>8, <2>11, Zenon
    <3>2. "full" \in Rets
        BY DEF Rets
    <3>3. /\ c.sorter = x.sorter /\ c.cur = x.cur /\ c.pos = x.pos + m /\ c.last = x.last /\ c.fin = x.fin /\ c.call = t.call
          /\ c.read = x.read \o sub /\ c.ret \in {"full", "no"} /\ c \in ReadType
      <4>1. CASE t.call.got >= x.call.size
        <5>1. c = [t EXCEPT !.ret = "full"]
            BY <3>1, <4>1, Zenon
        <5> QED
            BY <2>6, <2>8, <3>2, <5>1 DEF ReadType
      <4>2. CASE ~(t.call.got >= x.call.size)
        <5>1. c = t
            BY <3>1, <4>2, Zenon
        <5> QED
            BY <2>6, <2>8, <5>1
      <4> QED
          BY <4>1, <4>2
    <3>4. Returned(c)
        BY <1>4, <1>8, <3>3 DEF Returned
    <3> QED
        BY <1>1, <2>5, <2>7, <2>9, <3>3, <3>4 DEF ReadOK, c
  <2> QED
      BY <2>10, <2>11
<1> QED
    BY <1>6, <1>7, <1>8

\* One round of the outer loop of readImpl.
LEMMA NextRead ==
    ASSUME RecvType, NEW x, ReadOK(x), x.ret = "no"
    PROVE  ReadOK(nextReadFrame(x))
<1> DEFINE d == IF x.cur = <<>> \/ x.pos >= Len(x.cur) THEN dequeueNextFrame(x) ELSE x
           e == [d EXCEPT !.ret = IF shutdownErr THEN "shutdown" ELSE "partial"]
<1>1. nextReadFrame(x) = IF d.cur = <<>> /\ x.call.got > 0 THEN e ELSE copyFrame(d)
    BY Zenon DEF nextReadFrame
<1>2. ReadOK(d) /\ Fetched(d) /\ d.ret = "no"
  <2>1. CASE x.cur = <<>> \/ x.pos >= Len(x.cur)
      BY <2>1, Dequeued
  <2>2. CASE ~(x.cur = <<>> \/ x.pos >= Len(x.cur))
      BY <2>2 DEF Fetched
  <2> QED
      BY <2>1, <2>2
<1> HIDE DEF d
<1>3. ReadOK(copyFrame(d))
    BY <1>2, Copied
<1>4. ReadOK(e)
  <2>1. d \in ReadType /\ Returned(d) /\ ~d.fin
      BY <1>2 DEF ReadOK, Returned
  <2>2. (IF shutdownErr THEN "shutdown" ELSE "partial") \in {"shutdown", "partial"}
      OBVIOUS
  <2> DEFINE w == IF shutdownErr THEN "shutdown" ELSE "partial"
  <2> HIDE DEF w
  <2>3. w \in {"shutdown", "partial"} /\ w \in Rets
      BY <2>2 DEF w, Rets
  <2>4. e = [d EXCEPT !.ret = w]
      BY DEF w
  <2> HIDE DEF e
  <2>5. /\ e.sorter = d.sorter /\ e.cur = d.cur /\ e.pos = d.pos /\ e.last = d.last /\ e.fin = d.fin /\ e.call = d.call
        /\ e.read = d.read /\ e.ret = w /\ e \in ReadType
      BY <2>1, <2>3, <2>4 DEF ReadType
  <2>6. Returned(e)
      BY <2>1, <2>3, <2>5 DEF Returned
  <2> QED
      BY <1>2, <2>5, <2>6 DEF ReadOK
<1> HIDE DEF e
<1> QED
    BY <1>1, <1>3, <1>4

\* The loop of readImpl.
LEMMA ReadLoop ==
    ASSUME RecvType, NEW x, ReadOK(x)
    PROVE  ReadOK(readLoop(x))
<1> DEFINE N == x.call.size
           one(r) == IF r.ret # "no" THEN r ELSE nextReadFrame(r)
           body(f) == [n \in 0 .. N |-> IF n = 0 THEN x ELSE one(f[n - 1])]
           run == CHOOSE f : f = body(f)
           S == {y \in ReadType : ReadOK(y)}
           h == [y \in S |-> one(y)]
<1>1. N \in Nat
    BY DEF ReadOK, ReadType, CallType
<1>2. readLoop(x) = run[N]
    BY DEF readLoop
<1>3. x \in S
    BY DEF ReadOK
<1>4. h \in [S -> S]
  <2>1. ASSUME NEW y \in S PROVE one(y) \in S
    <3>1. CASE y.ret # "no"
        BY <3>1
    <3>2. CASE y.ret = "no"
      <4>1. one(y) = nextReadFrame(y) /\ ReadOK(y)
          BY <3>2
      <4>2. ReadOK(nextReadFrame(y))
          BY <3>2, <4>1, NextRead
      <4>3. nextReadFrame(y) \in ReadType
          BY <4>2 DEF ReadOK
      <4> QED
          BY <4>1, <4>2, <4>3
    <3> QED
        BY <3>1, <3>2
  <2> HIDE DEF S, one
  <2> QED
      BY <2>1
<1>5. PICK g : IsRun(N, S, x, h, g)
  <2> HIDE DEF S, h, N
  <2> QED
      BY <1>1, <1>3, <1>4, LoopRuns
<1> HIDE DEF one
<1>6. g = body(g)
  <2> HIDE DEF S
  <2>1. ASSUME NEW n \in 1 .. N PROVE g[n] = one(g[n - 1])
    <3> HIDE DEF N
    <3>1. n - 1 \in 0 .. N
        BY <1>1
    <3>2. g[n - 1] \in S /\ g[n] = h[g[n - 1]]
        BY <1>5, <3>1 DEF IsRun
    <3> QED
        BY <3>2
  <2>2. g \in [0 .. N -> S] /\ g[0] = x
      BY <1>5 DEF IsRun
  <2>3. ASSUME NEW n \in 0 .. N PROVE  g[n] = IF n = 0 THEN x ELSE one(g[n - 1])
    <3>1. CASE n = 0
        BY <2>2, <3>1
    <3>2. CASE n # 0
      <4> HIDE DEF N
      <4>1. n \in 1 .. N
          BY <1>1, <3>2
      <4> QED
          BY <2>1, <3>2, <4>1, Zenon
    <3> QED
        BY <3>1, <3>2
  <2> HIDE DEF N
  <2> QED
      BY <2>2, <2>3
<1>7. run = body(run)
    BY <1>6
<1> HIDE DEF run
<1> DEFINE G == {n \in 0 .. N : run[n] \in S}
<1>8. \A n \in 0 .. N : n \in G
  <2>1. 0 \in G
    <3>1. run[0] = x
        BY <1>1, <1>7
    <3> HIDE DEF S
    <3> QED
        BY <1>1, <1>3, <3>1
  <2>2. ASSUME NEW n \in 1 .. N, n - 1 \in G PROVE n \in G
    <3>1. n \in 0 .. N /\ n # 0
        BY <1>1
    <3> HIDE DEF N
    <3>2. run[n] = one(run[n - 1])
        BY <1>7, <3>1
    <3>3. run[n - 1] \in S
        BY <2>2
    <3> HIDE DEF S
    <3>4. one(run[n - 1]) \in S
        BY <1>4, <3>3
    <3> QED
        BY <3>1, <3>2, <3>4
  <2> HIDE DEF G, N
  <2> QED
      BY <1>1, <2>1, <2>2, AllRounds
<1>9. N \in 0 .. N
    BY <1>1
<1>10. run[N] \in S
    BY <1>8, <1>9
<1> QED
    BY <1>2, <1>10

-----------------------------------------------------------------------------
(* Every step keeps the invariant.                                         *)

\* Max of two numbers.
LEMMA MaxOf ==
    ASSUME NEW a \in Nat, NEW b \in Nat
    PROVE  Max({a, b}) = IF a >= b THEN a ELSE b
<1> DEFINE S == {a, b}
           c == IF a >= b THEN a ELSE b
<1>1. c \in S /\ \A y \in S : c >= y
    OBVIOUS
<1>2. Max(S) \in S /\ \A y \in S : Max(S) >= y
    BY <1>1 DEF Max
<1>3. Max(S) \in Nat /\ Max(S) >= c /\ c >= Max(S) /\ c \in Nat
    BY <1>1, <1>2
<1> HIDE DEF c
<1>4. Max(S) = c
    BY <1>3
<1> QED
    BY <1>4 DEF c

\* A call of Read starts, or goes on, from the state of the stream.
LEMMA ReadStarts ==
    ASSUME RecvType, ReadInv, ~finRead, NEW call \in CallType, call.got <= call.size
    PROVE  ReadOK(ReadState(call)) /\ ReadState(call).ret = "no" /\ ReadState(call).cur = cur
<1> DEFINE x == ReadState(call)  n == Len(readBytes)
<1>1. /\ x.sorter = sorter /\ x.cur = cur /\ x.pos = curPos /\ x.last = curLast /\ x.fin = finRead /\ x.call = call
      /\ x.read = <<>> /\ x.ret = "no"
    BY DEF ReadState
<1>2. x \in ReadType
  <2>1. sorter \in SorterType /\ "no" \in Rets
      BY DEF ReadInv, SorterOK, Rets
  <2> QED
      BY <2>1 DEF ReadState, ReadType, RecvType
<1>3. n \in Nat /\ n + Len(<<>>) = n
    BY DEF RecvType
<1>4. <<>> = Bytes(n, n)
  <2>1. n <= n
      BY <1>3
  <2>2. Bytes(n, n) \in Seq(Nat) /\ Len(Bytes(n, n)) = n - n
      BY <1>3, <2>1, BytesFacts, Zenon
  <2> QED
      BY <1>3, <2>2
<1>5. Returned(x)
    BY <1>1 DEF Returned
<1> HIDE DEF x
<1>6. ReadOK(x)
    BY <1>1, <1>2, <1>3, <1>4, <1>5 DEF ReadOK, ReadInv
<1> QED
    BY <1>1, <1>6 DEF x

\* What a call of Read leaves behind.
LEMMA ReadReturnsInv ==
    ASSUME RecvInv, ~finRead, NEW st, ReadOK(st), readReturns(st), readSig' \in BOOLEAN
    PROVE  RecvInv' /\ (CompletedInv => CompletedInv')
<1> DEFINE n == Len(readBytes) + Len(st.read)
<1>1. /\ sorter' = st.sorter /\ cur' = st.cur /\ curPos' = st.pos /\ curLast' = st.last
      /\ finRead' = st.fin
      /\ reader' = IF st.ret = "wait" THEN st.call ELSE idle
      /\ readBytes' = readBytes \o st.read
      /\ bytesRead' = bytesRead + Len(st.read)
      /\ connRead' = connRead + Len(st.read)
      /\ told' = (told \/ st.ret \in {"EOF", "reset", "canceled"})
      /\ rcvCompleted' = IF st.ret = "EOF" THEN rcvCompleted + 1 ELSE rcvCompleted
      /\ UNCHANGED <<finalOffset, cancelReadErr, resetRemotelyErr, shutdownErr, rdeadline, highestReceived>>
    BY DEF readReturns
<1>2. RecvType /\ ReadInv /\ EndInv /\ WaitingReadHasNothing
    BY DEF RecvInv
<1>3. /\ st \in ReadType /\ SorterOK(st.sorter) /\ st.call.got <= st.call.size
      /\ st.read = Bytes(Len(readBytes), n)
      /\ ReadTo(st.sorter, st.cur, st.pos, n)
      /\ LastFrame(st.sorter, st.last)
      /\ Returned(st)
    BY DEF ReadOK
<1>4. /\ st.cur \in Seq(Nat) /\ st.pos \in Nat /\ st.last \in BOOLEAN /\ st.fin \in BOOLEAN
      /\ st.call \in CallType /\ st.read \in Seq(Nat) /\ st.ret \in Rets
    BY <1>3 DEF ReadType
<1>5. readBytes' \in Seq(Nat) /\ Len(readBytes') = n /\ n \in Nat /\ Len(readBytes) \in Nat /\ Len(st.read) \in Nat
  <2>1. readBytes \in Seq(Nat)
      BY <1>2 DEF RecvType
  <2>2. readBytes \o st.read \in Seq(Nat) /\ Len(readBytes \o st.read) = Len(readBytes) + Len(st.read)
      BY <1>4, <2>1, ConcatProperties, Zenon
  <2> QED
      BY <1>1, <1>4, <2>1, <2>2
<1>6. readBytes' = Bytes(0, n)
  <2>1. 0 <= Len(readBytes) /\ Len(readBytes) <= n /\ 0 \in Nat
      BY <1>5
  <2>2. Bytes(0, Len(readBytes)) \o Bytes(Len(readBytes), n) = Bytes(0, n)
      BY <1>5, <2>1, BytesJoin, Zenon
  <2> QED
      BY <1>1, <1>2, <1>3, <2>2 DEF ReadInv
<1> HIDE DEF n
<1>7. ReadInv'
  <2>1. ReadTo(sorter', cur', curPos', Len(readBytes')) /\ SorterOK(sorter')
      BY <1>1, <1>3, <1>5
  <2>2. LastFrame(sorter, curLast)'
      BY <1>1, <1>3 DEF LastFrame
  <2> QED
      BY <1>5, <1>6, <2>1, <2>2 DEF ReadInv, ReadTo
<1>8. reader' \in CallType /\ reader'.got <= reader'.size /\ (reader'.waiting => st.ret = "wait" /\ reader' = st.call)
  <2>1. CASE st.ret = "wait"
      BY <1>1, <1>3, <1>4, <2>1
  <2>2. CASE st.ret # "wait"
    <3>1. reader' = [waiting |-> FALSE, size |-> 0, got |-> 0, timer |-> FALSE]
        BY <1>1, <2>2 DEF idle
    <3> QED
        BY <3>1 DEF CallType
  <2> QED
      BY <2>1, <2>2
<1>9. bytesRead' = n /\ connRead' \in Int /\ rcvCompleted' \in Nat
    BY <1>1, <1>2, <1>5 DEF RecvType, n
<1>10. told' \in BOOLEAN
    BY <1>1, <1>2 DEF RecvType
<1>11. RecvType'
    BY <1>1, <1>2, <1>4, <1>5, <1>8, <1>9, <1>10 DEF RecvType
<1>12. EndInv'
  <2>1. st.fin => finalOffset = FinalSize
      BY <1>3 DEF Returned
  <2>2. reader'.waiting => ~st.fin
      BY <1>3, <1>8 DEF Returned
  <2>3. told' => finRead' \/ cancelReadErr' \/ resetRemotelyErr'
      BY <1>1, <1>2, <1>3 DEF EndInv, Returned
  <2> QED
      BY <1>1, <1>2, <2>1, <2>2, <2>3 DEF EndInv
<1>13. WaitingReadHasNothing'
  <2> SUFFICES ASSUME reader'.waiting
               PROVE  /\ sorter'.readPos \notin DOMAIN sorter'.queue /\ sorter'.readPos < finalOffset'
                      /\ ~cancelReadErr' /\ ~resetRemotelyErr' /\ ~shutdownErr' /\ rdeadline' # "past"
                      /\ (rdeadline' = "future" => reader'.timer)
      BY DEF WaitingReadHasNothing
  <2>1. Nothing(st.sorter) /\ readErr = "no" /\ (rdeadline = "future" => st.call.timer) /\ reader' = st.call
      BY <1>3, <1>8 DEF Returned
  <2> QED
      BY <1>1, <2>1, ReadErrs DEF Nothing
<1>14. ASSUME CompletedInv PROVE CompletedInv'
  <2>1. CASE st.ret = "EOF"
    <3>1. finalOffset = FinalSize /\ n = FinalSize /\ readErr = "no" /\ st.fin
        BY <1>3, <2>1 DEF Returned, n
    <3>2. ~cancelReadErr /\ ~resetRemotelyErr
        BY <3>1, ReadErrs
    <3>3. rcvCompleted = 0 /\ connRead = bytesRead
        BY <1>14, <3>2 DEF CompletedInv
    <3>4. rcvCompleted' = 1 /\ connRead' = n /\ highestReceived' = FinalSize
        BY <1>1, <1>2, <1>9, <2>1, <3>1, <3>3 DEF EndInv
    <3> QED
        BY <1>1, <3>1, <3>4 DEF CompletedInv
  <2>2. CASE st.ret # "EOF"
    <3>1. ~st.fin /\ rcvCompleted' = rcvCompleted
        BY <1>1, <1>3, <2>2 DEF Returned
    <3>2. CASE rcvCompleted = 1
      <4>1. cancelReadErr \/ resetRemotelyErr
          BY <1>14, <3>2 DEF CompletedInv
      <4>2. st.read = <<>>
          BY <1>3, <4>1, ReadErrs DEF Returned
      <4>3. connRead' = connRead
          BY <1>1, <1>2, <4>2 DEF RecvType
      <4> QED
          BY <1>1, <1>14, <3>1, <3>2, <4>3 DEF CompletedInv
    <3>3. CASE rcvCompleted # 1
      <4>1. connRead' = bytesRead'
          BY <1>1, <1>14, <3>3 DEF CompletedInv
      <4> QED
          BY <1>1, <1>14, <3>1, <3>3, <4>1 DEF CompletedInv
    <3> QED
        BY <3>2, <3>3
  <2> QED
      BY <2>1, <2>2
<1> QED
    BY <1>7, <1>11, <1>12, <1>13, <1>14 DEF RecvInv

\* Initially nothing was received.
LEMMA RecvInitInv == RecvInit => RecvInv /\ CompletedInv
<1> SUFFICES ASSUME RecvInit PROVE RecvInv /\ CompletedInv
    OBVIOUS
<1> DEFINE g == [Start |-> 0, End |-> MaxByteCount]
<1>1. FinalSize \in Nat /\ MaxByteCount \in Nat /\ 0 <= FinalSize /\ FinalSize < MaxByteCount
    BY RecvAssumption
<1>2. g \in Gap /\ g.Start = 0 /\ g.End = MaxByteCount
    BY <1>1 DEF Gap
<1>3. sorter.queue = <<>> /\ sorter.readPos = 0 /\ sorter.gaps = <<g>>
    BY DEF RecvInit, newFrameSorter
<1>4. DOMAIN sorter.queue = {}
    BY <1>3
<1> HIDE DEF g
<1>5. sorter.gaps \in Seq(Gap) /\ Len(sorter.gaps) = 1 /\ sorter.gaps[1] = g
    BY <1>2, <1>3
<1>6. Gaps(sorter.gaps) = {g}
  <2>1. 1 .. Len(sorter.gaps) = {1}
      BY <1>5
  <2> QED
      BY <1>5, <2>1, Zenon DEF Gaps
<1>7. sorter \in SorterType
  <2>1. sorter.queue \in [{} -> Seq(Nat)]
      BY <1>3
  <2>2. sorter.queue \in UNION {[D -> Seq(Nat)] : D \in SUBSET Nat}
      BY <2>1
  <2>3. sorter = [queue |-> sorter.queue, readPos |-> sorter.readPos, gaps |-> sorter.gaps]
      BY DEF RecvInit, newFrameSorter
  <2>4. sorter.readPos \in Nat
      BY <1>3
  <2> QED
      BY <1>5, <2>2, <2>3, <2>4 DEF SorterType
<1>8. Tiles(sorter.queue)
    BY <1>1, <1>4, FS_EmptySet DEF Tiles
<1>9. Content(sorter.queue) /\ \A b \in Nat : ~Held(sorter.queue, b)
    BY <1>4 DEF Content, Held
<1>10. Ordered(sorter.gaps)
    BY <1>1, <1>2, <1>5 DEF Ordered
<1>11. \A b \in Nat : InGaps(sorter.gaps, b) <=> b < MaxByteCount
    BY <1>1, <1>2, <1>6 DEF InGaps
<1>12. Exact(sorter.queue, sorter.gaps, sorter.readPos)
    BY <1>3, <1>4, <1>9, <1>11 DEF Exact
<1>13. SorterOK(sorter)
    BY <1>1, <1>2, <1>3, <1>6, <1>7, <1>8, <1>9, <1>10, <1>12 DEF SorterOK
<1>14. readBytes = <<>> /\ Len(readBytes) = 0 /\ readBytes \in Seq(Nat)
    BY DEF RecvInit
<1>15. Bytes(0, 0) = <<>>
  <2>1. Bytes(0, 0) \in Seq(Nat) /\ Len(Bytes(0, 0)) = 0
      BY BytesFacts
  <2> QED
      BY <2>1
<1>16. ReadInv
    BY <1>3, <1>13, <1>14, <1>15 DEF ReadInv, ReadTo, LastFrame, RecvInit
<1>17. RecvType
  <2>1. idle \in CallType /\ idle.got <= idle.size
      BY DEF idle, CallType
  <2>2. finalOffset = MaxByteCount /\ highestReceived \in 0 .. FinalSize /\ cur = <<>> /\ cur \in Seq(Nat)
      BY <1>1 DEF RecvInit
  <2>3. /\ curPos \in Nat /\ bytesRead = Len(readBytes) /\ connRead \in Int /\ rcvCompleted \in Nat
        /\ reader \in CallType /\ reader.got <= reader.size /\ rdeadline \in {"none", "future", "past"}
      BY <1>14, <2>1 DEF RecvInit
  <2>4. /\ curLast \in BOOLEAN /\ finRead \in BOOLEAN /\ cancelReadErr \in BOOLEAN /\ resetRemotelyErr \in BOOLEAN
        /\ shutdownErr \in BOOLEAN /\ readSig \in BOOLEAN /\ told \in BOOLEAN
      BY Zenon DEF RecvInit
  <2> QED
      BY <1>14, <2>2, <2>3, <2>4 DEF RecvType
<1>18. EndInv /\ WaitingReadHasNothing
    BY <1>1 DEF EndInv, WaitingReadHasNothing, RecvInit, idle
<1>19. CompletedInv
    BY <1>1 DEF CompletedInv, RecvInit
<1> QED
    BY <1>16, <1>17, <1>18, <1>19 DEF RecvInv

\* Read.
LEMMA ReadKeeps ==
    ASSUME RecvInv, NEW n \in ReadSizes, Read(n)
    PROVE  RecvInv' /\ (CompletedInv => CompletedInv')
<1>0. RecvType /\ ReadInv /\ EndInv /\ WaitingReadHasNothing
    BY DEF RecvInv
<1>1. CASE finRead \/ cancelReadErr \/ resetRemotelyErr \/ shutdownErr
  <2>1. /\ ~reader.waiting /\ told' = (told \/ finRead \/ cancelReadErr \/ resetRemotelyErr)
        /\ UNCHANGED <<sorter, finalOffset, cur, curPos, curLast, finRead, cancelReadErr,
                       resetRemotelyErr, shutdownErr, rdeadline, reader, readBytes,
                       highestReceived, bytesRead, connRead, rcvCompleted, readSig>>
      BY <1>1 DEF Read
  <2>2. RecvType'
      BY <1>0, <2>1 DEF RecvType
  <2>3. ReadInv'
      BY <1>0, <2>1 DEF ReadInv, LastFrame, ReadTo
  <2>4. EndInv' /\ WaitingReadHasNothing'
      BY <1>0, <2>1 DEF EndInv, WaitingReadHasNothing
  <2>5. CompletedInv => CompletedInv'
      BY <2>1 DEF CompletedInv
  <2> QED
      BY <2>2, <2>3, <2>4, <2>5 DEF RecvInv
<1>2. CASE ~(finRead \/ cancelReadErr \/ resetRemotelyErr \/ shutdownErr)
  <2> DEFINE c == [idle EXCEPT !.size = n]
  <2>1. c \in CallType /\ c.got <= c.size
    <3>1. n \in Nat
        BY RecvAssumption
    <3>2. idle \in CallType /\ idle.got = 0
        BY DEF idle, CallType
    <3>3. c \in CallType /\ c.got = 0 /\ c.size = n
        BY <3>1, <3>2 DEF CallType
    <3> QED
        BY <3>1, <3>3
  <2> HIDE DEF c
  <2>2. ReadOK(ReadState(c))
      BY <1>0, <1>2, <2>1, ReadStarts
  <2>3. ReadOK(readLoop(ReadState(c)))
      BY <1>0, <2>2, ReadLoop
  <2>4. readReturns(readLoop(ReadState(c))) /\ readSig' = readSig
      BY <1>2, Zenon DEF Read, c
  <2>5. readSig' \in BOOLEAN
      BY <1>0, <2>4 DEF RecvType
  <2> QED
      BY <1>2, <2>3, <2>4, <2>5, ReadReturnsInv
<1> QED
    BY <1>1, <1>2

\* A waiting Read goes on.
LEMMA ReadWakesKeeps ==
    ASSUME RecvInv, ReadWakes
    PROVE  RecvInv' /\ (CompletedInv => CompletedInv')
<1>0. RecvType /\ ReadInv /\ EndInv
    BY DEF RecvInv
<1> DEFINE call == [reader EXCEPT !.waiting = FALSE]
           x == ReadState(call)
           y == IF x.cur = <<>> THEN dequeueNextFrame(x) ELSE x
           first == copyFrame(y)
           st == IF first.ret # "no" THEN first ELSE readLoop(first)
<1>1. reader.waiting /\ readSig' \in BOOLEAN /\ ~finRead
    BY <1>0 DEF ReadWakes, RecvType, EndInv
<1>2. readReturns(st)
    BY Zenon DEF ReadWakes
<1>3. call \in CallType /\ call.got <= call.size
    BY <1>0 DEF RecvType, CallType
<1> HIDE DEF call
<1>4. ReadOK(x) /\ x.ret = "no"
    BY <1>0, <1>1, <1>3, ReadStarts
<1> HIDE DEF x
<1>5. ReadOK(y) /\ y.ret = "no" /\ Fetched(y)
  <2>1. CASE x.cur = <<>>
      BY <1>0, <1>4, <2>1, Dequeued
  <2>2. CASE x.cur # <<>>
      BY <1>4, <2>2 DEF Fetched
  <2> QED
      BY <2>1, <2>2
<1> HIDE DEF y
<1>6. ReadOK(first)
    BY <1>0, <1>5, Copied
<1> HIDE DEF first
<1>7. ReadOK(st)
    BY <1>0, <1>6, ReadLoop
<1> HIDE DEF st
<1> QED
    BY <1>1, <1>2, <1>7, ReadReturnsInv

\* The deadlines.
LEMMA DeadlinesKeep ==
    ASSUME RecvInv, ReadDeadlinePasses \/ \E t \in {"none", "future", "past"} : SetReadDeadline(t)
    PROVE  RecvInv' /\ (CompletedInv => CompletedInv')
<1>0. RecvType /\ ReadInv /\ EndInv /\ WaitingReadHasNothing
    BY DEF RecvInv
<1>1. /\ rdeadline' \in {"none", "future", "past"} /\ readSig' \in {readSig, TRUE}
      /\ readSig' # TRUE => rdeadline = "future" /\ rdeadline' = "past" /\ readSig' = readSig
      /\ UNCHANGED <<sorter, finalOffset, cur, curPos, curLast, finRead, cancelReadErr,
                     resetRemotelyErr, shutdownErr, reader, readBytes, told,
                     highestReceived, bytesRead, connRead, rcvCompleted>>
    BY DEF ReadDeadlinePasses, SetReadDeadline
<1>2. RecvType'
    BY <1>0, <1>1 DEF RecvType
<1>3. ReadInv'
    BY <1>0, <1>1 DEF ReadInv, LastFrame, ReadTo
<1>4. EndInv'
    BY <1>0, <1>1 DEF EndInv
<1>5. WaitingReadHasNothing'
  <2>1. CASE readSig'
      BY <2>1 DEF WaitingReadHasNothing
  <2>2. CASE ~readSig'
    <3>1. rdeadline = "future" /\ rdeadline' = "past" /\ readSig' = readSig /\ ~readSig /\ reader' = reader
      <4>1. readSig' # TRUE
          BY <2>2
      <4> QED
          BY <1>1, <2>2, <4>1, Zenon
    <3>2. timerFired = (reader.timer /\ rdeadline = "past") /\ timerFired' = (reader'.timer /\ rdeadline' = "past")
        BY Zenon DEF timerFired
    <3>3. "future" # "past"
        OBVIOUS
    <3>4. ~timerFired
        BY <3>1, <3>2, <3>3, Zenon
    <3>5. reader.waiting => reader.timer
        BY <1>0, <3>1, <3>4, Zenon DEF WaitingReadHasNothing
    <3> QED
        BY <3>1, <3>2, <3>5, Zenon DEF WaitingReadHasNothing
  <2> QED
      BY <2>1, <2>2
<1>6. CompletedInv => CompletedInv'
    BY <1>1 DEF CompletedInv
<1> QED
    BY <1>2, <1>3, <1>4, <1>5, <1>6 DEF RecvInv

\* A step that only hands data to the sorter, or sets an error, and may tell the final size.
LEMMA NotReading ==
    ASSUME RecvInv, SorterOK(sorter'), sorter'.readPos = sorter.readPos,
           finalOffset' \in {finalOffset, FinalSize}, UNCHANGED <<cur, curPos, curLast, readBytes>>
    PROVE  ReadInv'
<1>1. ReadInv
    BY DEF RecvInv
<1>2. ReadTo(sorter, cur, curPos, Len(readBytes))'
    BY <1>1 DEF ReadInv, ReadTo
<1>3. LastFrame(sorter, curLast)'
    BY <1>1 DEF ReadInv, LastFrame
<1> QED
    BY <1>1, <1>2, <1>3 DEF ReadInv

\* handleStreamFrame.
LEMMA StreamFrameKeeps ==
    ASSUME RecvInv, NEW off \in 0 .. FinalSize, NEW len \in 0 .. (FinalSize - off),
           NEW fin \in {FALSE, off + len = FinalSize}, handleStreamFrame(off, len, fin)
    PROVE  RecvInv' /\ (CompletedInv => CompletedInv')
<1> DEFINE highest == Max({highestReceived, off + len})
           p == push(sorter, off, len)
           done == cancelReadErr /\ fin /\ finalOffset = MaxByteCount
<1>0. RecvType /\ ReadInv /\ EndInv /\ WaitingReadHasNothing
    BY DEF RecvInv
<1>1. /\ FinalSize \in Nat /\ MaxByteCount \in Nat /\ FinalSize < MaxByteCount
      /\ off \in Nat /\ len \in Nat /\ off + len \in Nat /\ off + len <= FinalSize
    BY RecvAssumption
<1>2. /\ highestReceived' = highest
      /\ finalOffset' = IF fin THEN off + len ELSE finalOffset
      /\ connRead' = IF done THEN connRead + Abandon(highest) ELSE connRead
      /\ rcvCompleted' = IF done THEN rcvCompleted + 1 ELSE rcvCompleted
      /\ sorter' = IF cancelReadErr THEN sorter ELSE p.s
      /\ readSig' = (readSig \/ (~cancelReadErr /\ signalsRead(off, len)))
      /\ UNCHANGED <<cur, curPos, curLast, finRead, cancelReadErr, resetRemotelyErr, shutdownErr,
                     rdeadline, reader, readBytes, told, bytesRead>>
    BY Zenon DEF handleStreamFrame, complete
<1>3. highestReceived \in Nat /\ highestReceived <= FinalSize /\ bytesRead \in Nat /\ connRead \in Int
    BY <1>0, <1>1 DEF RecvType
<1>4. highest = IF highestReceived >= off + len THEN highestReceived ELSE off + len
    BY <1>1, <1>3, MaxOf
<1>5. highest \in 0 .. FinalSize /\ highestReceived <= highest /\ off + len <= highest
    BY <1>1, <1>3, <1>4
<1>6. SorterOK(p.s) /\ p.s.readPos = sorter.readPos
  <2>1. SorterOK(sorter)
      BY <1>0 DEF ReadInv
  <2> QED
      BY <1>1, <2>1, PushKeeps
<1>7. fin \in BOOLEAN /\ (fin => off + len = FinalSize)
    OBVIOUS
<1> HIDE DEF highest, p
<1>8. finalOffset' \in {finalOffset, FinalSize} /\ (fin => finalOffset' = FinalSize) /\ (~fin => finalOffset' = finalOffset)
    BY <1>2, <1>7
<1>9. SorterOK(sorter') /\ sorter'.readPos = sorter.readPos
    BY <1>0, <1>2, <1>6 DEF ReadInv
<1>10. ReadInv'
    BY <1>2, <1>8, <1>9, NotReading
<1>11. finalOffset' = FinalSize => highest = FinalSize
  <2>1. CASE fin
      BY <1>1, <1>5, <1>7, <2>1
  <2>2. CASE ~fin
      BY <1>0, <1>1, <1>3, <1>5, <1>8, <2>2 DEF EndInv
  <2> QED
      BY <1>7, <2>1, <2>2
<1>12. RecvType'
  <2>1. finalOffset' \in {MaxByteCount, FinalSize}
      BY <1>0, <1>8 DEF RecvType
  <2>2. connRead' \in Int /\ rcvCompleted' \in Nat
      BY <1>0, <1>2, <1>3, <1>5 DEF RecvType, Abandon
  <2>3. readSig' \in BOOLEAN
      BY <1>2, Zenon
  <2> QED
      BY <1>0, <1>2, <1>5, <2>1, <2>2, <2>3 DEF RecvType
<1>13. EndInv'
  <2>1. finalOffset = FinalSize => finalOffset' = FinalSize
      BY <1>8
  <2> QED
      BY <1>0, <1>2, <1>11, <2>1 DEF EndInv
<1>14. WaitingReadHasNothing'
  <2>1. CASE readSig'
      BY <2>1 DEF WaitingReadHasNothing
  <2>2. CASE ~readSig'
    <3>1. cancelReadErr /\ ~readSig
        BY <1>2, <2>2, Zenon DEF signalsRead
    <3>2. timerFired' = timerFired /\ reader' = reader
        BY <1>2, Zenon DEF timerFired
    <3>3. ~reader.waiting \/ timerFired
        BY <1>0, <3>1, Zenon DEF WaitingReadHasNothing
    <3> QED
        BY <3>2, <3>3, Zenon DEF WaitingReadHasNothing
  <2> QED
      BY <2>1, <2>2
<1>15. ASSUME CompletedInv PROVE CompletedInv'
  <2>1. FinalSize # MaxByteCount
      BY <1>1
  <2>2. CASE done
    <3>1. ~finRead /\ finalOffset # FinalSize
        BY <1>0, <2>1, <2>2 DEF EndInv
    <3>2. rcvCompleted = 0 /\ connRead = bytesRead
        BY <1>15, <3>1 DEF CompletedInv
    <3>3. rcvCompleted' = 1 /\ connRead' = highest
        BY <1>2, <1>3, <1>5, <2>2, <3>2 DEF Abandon
    <3>4. finalOffset' = FinalSize /\ cancelReadErr'
        BY <1>2, <1>8, <2>2
    <3> QED
        BY <1>2, <3>3, <3>4 DEF CompletedInv
  <2>3. CASE ~done
    <3>1. rcvCompleted' = rcvCompleted /\ connRead' = connRead
        BY <1>2, <2>3
    <3>2. CASE finalOffset = FinalSize
      <4>1. highest = highestReceived /\ finalOffset' = FinalSize
          BY <1>0, <1>8, <1>11, <3>2 DEF EndInv
      <4> QED
          BY <1>2, <1>15, <3>1, <3>2, <4>1 DEF CompletedInv
    <3>3. CASE finalOffset # FinalSize
      <4>1. finalOffset = MaxByteCount /\ ~finRead /\ ~resetRemotelyErr
          BY <1>0, <3>3 DEF RecvType, EndInv
      <4>2. rcvCompleted = 0
          BY <1>15, <3>3, <4>1 DEF CompletedInv
      <4>3. ~(cancelReadErr /\ finalOffset' = FinalSize)
          BY <1>7, <1>8, <2>3, <3>3, <4>1, Zenon
      <4> QED
          BY <1>2, <1>15, <3>1, <4>1, <4>2, <4>3 DEF CompletedInv
    <3> QED
        BY <3>2, <3>3
  <2> QED
      BY <2>2, <2>3
<1> QED
    BY <1>10, <1>12, <1>13, <1>14, <1>15 DEF RecvInv

\* handleResetStreamFrame: the stream completes once, if no reset follows a FIN.
LEMMA ResetKeeps ==
    ASSUME RecvInv, handleResetStreamFrame
    PROVE  RecvInv' /\ (CompletedInv /\ ~ResetAfterFin => CompletedInv')
<1>0. RecvType /\ ReadInv /\ EndInv
    BY DEF RecvInv
<1>1. FinalSize \in Nat /\ MaxByteCount \in Nat /\ FinalSize < MaxByteCount /\ FinalSize # MaxByteCount
    BY RecvAssumption
<1>2. /\ ~resetRemotelyErr /\ (ResetAfterFin \/ finalOffset = MaxByteCount \/ cancelReadErr)
      /\ highestReceived' = FinalSize /\ finalOffset' = FinalSize
      /\ connRead' = IF finalOffset = MaxByteCount THEN connRead + Abandon(FinalSize) ELSE connRead
      /\ rcvCompleted' = IF finalOffset = MaxByteCount THEN rcvCompleted + 1 ELSE rcvCompleted
      /\ resetRemotelyErr' = TRUE /\ readSig' = TRUE
      /\ UNCHANGED <<sorter, cur, curPos, curLast, finRead, cancelReadErr, shutdownErr, rdeadline,
                     reader, readBytes, told, bytesRead>>
    BY Zenon DEF handleResetStreamFrame, complete, resetCompletes
<1>3. ReadInv'
  <2>1. SorterOK(sorter') /\ sorter'.readPos = sorter.readPos
      BY <1>0, <1>2 DEF ReadInv
  <2> QED
      BY <1>2, <2>1, NotReading
<1>4. RecvType'
  <2>1. connRead' \in Int /\ rcvCompleted' \in Nat
      BY <1>0, <1>1, <1>2 DEF RecvType, Abandon
  <2>2. highestReceived' \in 0 .. FinalSize /\ finalOffset' \in {MaxByteCount, FinalSize}
      BY <1>1, <1>2
  <2> QED
      BY <1>0, <1>2, <2>1, <2>2 DEF RecvType
<1>5. EndInv' /\ WaitingReadHasNothing'
    BY <1>0, <1>2 DEF EndInv, WaitingReadHasNothing
<1>6. ASSUME CompletedInv, ~ResetAfterFin PROVE CompletedInv'
  <2>1. CASE finalOffset = MaxByteCount
    <3>1. rcvCompleted = 0 /\ connRead = bytesRead
        BY <1>0, <1>1, <1>6, <2>1 DEF CompletedInv, EndInv
    <3>2. rcvCompleted' = 1 /\ connRead' = FinalSize
        BY <1>0, <1>1, <1>2, <2>1, <3>1 DEF Abandon, RecvType
    <3> QED
        BY <1>2, <3>2 DEF CompletedInv
  <2>2. CASE finalOffset # MaxByteCount
    <3>1. finalOffset = FinalSize /\ cancelReadErr /\ highestReceived = FinalSize
        BY <1>0, <1>2, <1>6, <2>2 DEF RecvType, EndInv
    <3>2. rcvCompleted' = rcvCompleted /\ connRead' = connRead /\ rcvCompleted = 1
        BY <1>2, <1>6, <2>2, <3>1 DEF CompletedInv
    <3> QED
        BY <1>2, <1>6, <3>1, <3>2 DEF CompletedInv
  <2> QED
      BY <2>1, <2>2
<1> QED
    BY <1>3, <1>4, <1>5, <1>6 DEF RecvInv

\* CancelRead.
LEMMA CancelReadKeeps ==
    ASSUME RecvInv, CancelRead
    PROVE  RecvInv' /\ (CompletedInv => CompletedInv')
<1>0. RecvType /\ ReadInv /\ EndInv
    BY DEF RecvInv
<1>1. FinalSize \in Nat /\ MaxByteCount \in Nat /\ FinalSize < MaxByteCount /\ FinalSize # MaxByteCount
    BY RecvAssumption
<1>2. /\ ~finRead /\ ~cancelReadErr /\ ~resetRemotelyErr /\ cancelReadErr' = TRUE /\ readSig' = TRUE
      /\ connRead' = IF finalOffset # MaxByteCount THEN connRead + Abandon(highestReceived) ELSE connRead
      /\ rcvCompleted' = IF finalOffset # MaxByteCount THEN rcvCompleted + 1 ELSE rcvCompleted
      /\ UNCHANGED <<sorter, finalOffset, cur, curPos, curLast, finRead, resetRemotelyErr, shutdownErr,
                     rdeadline, reader, readBytes, told, highestReceived, bytesRead>>
    BY Zenon DEF CancelRead, complete
<1>3. ReadInv'
  <2>1. SorterOK(sorter') /\ sorter'.readPos = sorter.readPos
      BY <1>0, <1>2 DEF ReadInv
  <2> QED
      BY <1>2, <2>1, NotReading
<1>4. RecvType'
  <2>1. connRead' \in Int /\ rcvCompleted' \in Nat
      BY <1>0, <1>1, <1>2 DEF RecvType, Abandon
  <2> QED
      BY <1>0, <1>2, <2>1 DEF RecvType
<1>5. EndInv' /\ WaitingReadHasNothing'
    BY <1>0, <1>2 DEF EndInv, WaitingReadHasNothing
<1>6. ASSUME CompletedInv PROVE CompletedInv'
  <2>1. rcvCompleted = 0 /\ connRead = bytesRead
      BY <1>2, <1>6 DEF CompletedInv
  <2>2. finalOffset # MaxByteCount <=> finalOffset = FinalSize
      BY <1>0, <1>1 DEF RecvType
  <2>3. CASE finalOffset = FinalSize
    <3>1. rcvCompleted' = 1 /\ connRead' = highestReceived
        BY <1>0, <1>1, <1>2, <2>1, <2>2, <2>3 DEF Abandon, RecvType
    <3> QED
        BY <1>2, <2>3, <3>1 DEF CompletedInv
  <2>4. CASE finalOffset # FinalSize
      BY <1>2, <2>1, <2>2, <2>4 DEF CompletedInv
  <2> QED
      BY <2>3, <2>4
<1> QED
    BY <1>3, <1>4, <1>5, <1>6 DEF RecvInv

\* closeForShutdown, and steps of others.
LEMMA ShutdownKeeps ==
    ASSUME RecvInv, closeForShutdown \/ UNCHANGED rcvVars
    PROVE  RecvInv' /\ (CompletedInv => CompletedInv')
<1>0. RecvType /\ ReadInv /\ EndInv /\ WaitingReadHasNothing
    BY DEF RecvInv
<1>1. CASE closeForShutdown
  <2>1. /\ shutdownErr' = TRUE /\ readSig' = TRUE
        /\ UNCHANGED <<sorter, finalOffset, cur, curPos, curLast, finRead, cancelReadErr, resetRemotelyErr,
                       rdeadline, reader, readBytes, told, highestReceived, bytesRead, connRead, rcvCompleted>>
      BY <1>1 DEF closeForShutdown
  <2>2. RecvType' /\ ReadInv'
      BY <1>0, <2>1 DEF RecvType, ReadInv, LastFrame, ReadTo
  <2>3. EndInv' /\ WaitingReadHasNothing' /\ (CompletedInv => CompletedInv')
      BY <1>0, <2>1 DEF EndInv, WaitingReadHasNothing, CompletedInv
  <2> QED
      BY <2>2, <2>3 DEF RecvInv
<1>2. CASE UNCHANGED rcvVars
  <2>1. RecvType' /\ ReadInv'
      BY <1>0, <1>2 DEF rcvVars, RecvType, ReadInv, LastFrame, ReadTo
  <2>2. EndInv' /\ (CompletedInv => CompletedInv')
      BY <1>0, <1>2 DEF rcvVars, EndInv, CompletedInv
  <2>3. WaitingReadHasNothing'
      BY <1>0, <1>2 DEF rcvVars, WaitingReadHasNothing, timerFired
  <2> QED
      BY <2>1, <2>2, <2>3 DEF RecvInv
<1> QED
    BY <1>1, <1>2

\* Every step keeps the invariant.
LEMMA RecvNextInv ==
    ASSUME RecvInv, [RecvNext]_rcvVars
    PROVE  RecvInv' /\ (CompletedInv /\ ~ResetAfterFin => CompletedInv')
<1>1. CASE \E n \in ReadSizes : Read(n)
    BY <1>1, ReadKeeps
<1>2. CASE ReadWakes
    BY <1>2, ReadWakesKeeps
<1>3. CASE ReadDeadlinePasses \/ \E t \in {"none", "future", "past"} : SetReadDeadline(t)
    BY <1>3, DeadlinesKeep, Zenon
<1>4. CASE \E off \in 0 .. FinalSize : \E len \in 0 .. (FinalSize - off) :
              \E fin \in {FALSE, off + len = FinalSize} : handleStreamFrame(off, len, fin)
    BY <1>4, StreamFrameKeeps, Zenon
<1>5. CASE handleResetStreamFrame
    BY <1>5, ResetKeeps
<1>6. CASE CancelRead
    BY <1>6, CancelReadKeeps
<1>7. CASE closeForShutdown \/ UNCHANGED rcvVars
    BY <1>7, ShutdownKeeps
<1> QED
    BY <1>1, <1>2, <1>3, <1>4, <1>5, <1>6, <1>7, Zenon DEF RecvNext

\* What is queued or in a gap is what has not been read.
LEMMA QueuedOrGap ==
    ASSUME NEW s, SorterOK(s)
    PROVE  {b \in s.readPos .. (FinalSize - 1) :
               \A g \in DOMAIN s.gaps : ~(s.gaps[g].Start <= b /\ b < s.gaps[g].End)}
           = UNION {{s.queue[p][i] : i \in DOMAIN s.queue[p]} : p \in DOMAIN s.queue}
<1> DEFINE A == {b \in s.readPos .. (FinalSize - 1) :
                    \A g \in DOMAIN s.gaps : ~(s.gaps[g].Start <= b /\ b < s.gaps[g].End)}
           data(p) == {s.queue[p][i] : i \in DOMAIN s.queue[p]}
           B == UNION {data(p) : p \in DOMAIN s.queue}
<1>1. FinalSize \in Nat /\ MaxByteCount \in Nat /\ FinalSize < MaxByteCount /\ s.readPos \in Nat
    BY RecvAssumption, SorterFacts
<1>2. DOMAIN s.gaps = 1 .. Len(s.gaps)
    BY DEF SorterOK, SorterType
<1>3. \A p \in DOMAIN s.queue : p \in Nat /\ Len(s.queue[p]) \in Nat /\ s.readPos <= p /\ s.queue[p] \in Seq(Nat)
  <2>1. \A p \in DOMAIN s.queue : s.queue[p] \in Seq(Nat)
      BY ZenonT(60) DEF SorterOK, SorterType
  <2> QED
      BY <2>1, SorterFacts
<1>4. \A p \in DOMAIN s.queue : \A b : b \in data(p) <=> b \in Nat /\ p <= b /\ b < p + Len(s.queue[p])
  <2> SUFFICES ASSUME NEW p \in DOMAIN s.queue, NEW b
               PROVE  b \in data(p) <=> b \in Nat /\ p <= b /\ b < p + Len(s.queue[p])
      OBVIOUS
  <2> DEFINE l == Len(s.queue[p])
  <2>1. p \in Nat /\ l \in Nat /\ s.queue[p] \in Seq(Nat) /\ p + l \in Nat /\ p <= p + l
      BY <1>3
  <2>2. s.queue[p] = Bytes(p, p + l)
      BY DEF SorterOK, Content
  <2>3. \A k \in 1 .. (p + l) - p : Bytes(p, p + l)[k] = p + k - 1
      BY <2>1, BytesFacts, Zenon
  <2>4. DOMAIN s.queue[p] = 1 .. l /\ \A k \in 1 .. l : s.queue[p][k] = p + k - 1
    <3>1. (p + l) - p = l /\ DOMAIN s.queue[p] = 1 .. l
        BY <2>1
    <3> HIDE DEF l
    <3>2. \A k \in 1 .. l : Bytes(p, p + l)[k] = p + k - 1
        BY <2>3, <3>1
    <3> QED
        BY <2>2, <3>1, <3>2, Zenon
  <2> HIDE DEF l
  <2>5. ASSUME b \in data(p) PROVE b \in Nat /\ p <= b /\ b < p + l
    <3>1. PICK k \in 1 .. l : b = s.queue[p][k]
        BY <2>4, <2>5
    <3> QED
        BY SMTT(60), <2>1, <2>4, <3>1
  <2>6. ASSUME b \in Nat, p <= b, b < p + l PROVE b \in data(p)
    <3>1. b - p + 1 \in 1 .. l /\ p + (b - p + 1) - 1 = b
        BY <2>1, <2>6
    <3>2. s.queue[p][b - p + 1] = b
        BY <2>4, <3>1
    <3> QED
        BY <2>4, <3>1, <3>2, Zenon
  <2> HIDE DEF data
  <2> QED
      BY <2>5, <2>6 DEF l
<1> HIDE DEF data
<1>5. ASSUME NEW b \in A PROVE b \in B
  <2>1. b \in Nat /\ s.readPos <= b /\ b < MaxByteCount /\ \A k \in 1 .. Len(s.gaps) : ~(s.gaps[k].Start <= b /\ b < s.gaps[k].End)
      BY <1>1, <1>2
  <2>2. Held(s.queue, b)
      BY <2>1, HeldOrGap
  <2>3. PICK p \in DOMAIN s.queue : p <= b /\ b < p + Len(s.queue[p])
      BY <2>2 DEF Held
  <2>4. b \in data(p)
      BY <1>4, <2>1, <2>3
  <2> QED
      BY <2>4
<1>6. ASSUME NEW b \in B PROVE b \in A
  <2>1. PICK p \in DOMAIN s.queue : b \in data(p)
      OBVIOUS
  <2>2. b \in Nat /\ p <= b /\ b < p + Len(s.queue[p]) /\ p \in Nat /\ s.readPos <= p
      BY <1>3, <1>4, <2>1
  <2>3. Held(s.queue, b)
      BY <2>2 DEF Held
  <2>4. b < FinalSize
      BY <2>2, <2>3 DEF SorterOK
  <2>5. b \in s.readPos .. (FinalSize - 1)
      BY <1>1, <1>3, <2>2, <2>4
  <2>6. \A k \in 1 .. Len(s.gaps) : ~(s.gaps[k].Start <= b /\ b < s.gaps[k].End)
      BY <2>2, <2>3, GapIsEmpty
  <2> QED
      BY <1>2, <2>5, <2>6
<1>7. A = B
  <2> HIDE DEF A, B
  <2> QED
      BY <1>5, <1>6
<1> QED
    BY <1>7, Zenon DEF data

\* The invariant says what Read returns.
LEMMA RecvInvInOrder == RecvInv => ReadInOrder
<1> SUFFICES ASSUME RecvInv PROVE ReadInOrder
    OBVIOUS
<1>1. SorterOK(sorter) /\ readBytes = Bytes(0, Len(readBytes))
    BY DEF RecvInv, ReadInv
<1>2. \A p \in DOMAIN sorter.queue :
          /\ sorter.queue[p] = Bytes(p, p + Len(sorter.queue[p]))
          /\ p >= sorter.readPos
          /\ \A q \in DOMAIN sorter.queue : q > p => q >= p + Len(sorter.queue[p])
  <2>1. Content(sorter.queue)
      BY <1>1 DEF SorterOK
  <2>2. sorter.readPos \in Nat
      BY <1>1, SorterFacts
  <2>3. /\ \A p \in DOMAIN sorter.queue : p \in Nat /\ Len(sorter.queue[p]) \in Nat /\ sorter.readPos <= p
        /\ \A p, r \in DOMAIN sorter.queue : p < r => p + Len(sorter.queue[p]) <= r
      BY <1>1, SorterFacts
  <2> QED
      BY <2>1, <2>2, <2>3 DEF Content
<1>3. {b \in sorter.readPos .. (FinalSize - 1) :
            \A g \in DOMAIN sorter.gaps : ~(sorter.gaps[g].Start <= b /\ b < sorter.gaps[g].End)}
       = UNION {{sorter.queue[p][i] : i \in DOMAIN sorter.queue[p]} : p \in DOMAIN sorter.queue}
    BY <1>1, QueuedOrGap, Zenon
<1> QED
    BY <1>1, <1>2, <1>3, Zenon DEF ReadInOrder

\* receive_stream.go readImpl and frame_sorter.go: whatever the peer's framing, Read returns
\* the bytes of the stream in order, each once, and what is queued or in a gap is what is left.
THEOREM ReadsAreInOrder == RecvSpec => []ReadInOrder
<1>1. RecvInit => RecvInv
    BY RecvInitInv
<1>2. RecvInv /\ [RecvNext]_rcvVars => RecvInv'
    BY RecvNextInv
<1>3. RecvInv => ReadInOrder
    BY RecvInvInOrder
<1> QED
    BY <1>1, <1>2, <1>3, PTL DEF RecvSpec

\* readChan: a Read that waits, and that neither a signal nor its timer will wake, has nothing to
\* return, whichever of frames, resets, cancellation, deadlines and shutdown came when.
THEOREM ReadersAreWoken == RecvSpec => []WaitingReadHasNothing
<1>1. RecvInit => RecvInv
    BY RecvInitInv
<1>2. RecvInv /\ [RecvNext]_rcvVars => RecvInv'
    BY RecvNextInv
<1>3. RecvInv => WaitingReadHasNothing
    BY DEF RecvInv
<1> QED
    BY <1>1, <1>2, <1>3, PTL DEF RecvSpec

\* onStreamCompleted and Abandon: a stream that ends, by being read, reset or canceled, is
\* reported once and gives back exactly the bytes received.  A RESET_STREAM after the FIN is
\* excluded: with it the stream may never complete.
THEOREM ReceiveStreamEnds == ASSUME ~ResetAfterFin PROVE RecvSpec => []StreamEndsOnce
<1>1. RecvInit => RecvInv /\ CompletedInv
    BY RecvInitInv
<1>2. RecvInv /\ CompletedInv /\ [RecvNext]_rcvVars => RecvInv' /\ CompletedInv'
    BY RecvNextInv
<1>3. RecvInv /\ CompletedInv => StreamEndsOnce
    BY RecvAssumption DEF RecvInv, RecvType, EndInv, CompletedInv, StreamEndsOnce
<1> QED
    BY <1>1, <1>2, <1>3, PTL DEF RecvSpec
=============================================================================
