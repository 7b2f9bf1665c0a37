----------------------------- MODULE RingBuffer -----------------------------
(***************************************************************************)
(* The ring buffer of internal/utils/ringbuffer (datagram queues, framer,  *)
(* frame queues): an array with a head and a tail that wrap around, doubled*)
(* when it is full.  A queue without positions is kept beside it.          *)
(***************************************************************************)
EXTENDS Integers, Sequences

CONSTANTS
    RingSizes,             \* sizes Init may be called with; 0: it was not called
    MaxPushed              \* bound: elements pushed

VARIABLES
    ring,                  \* the array, from position 0; Zero where nothing is stored
    headPos, tailPos, full,
    pushed,                \* elements pushed so far: element k is the number k
    queued                 \* the queue it should be

rbVars == <<ring, headPos, tailPos, full, pushed, queued>>

Zero == 0
size == Len(ring)
at(p) == ring[p + 1]       \* Go positions start at 0
zeros(n) == [k \in 1 .. n |-> Zero]

Init ==
    /\ \E n \in RingSizes : ring = zeros(n)
    /\ headPos = 0 /\ tailPos = 0 /\ full = FALSE
    /\ pushed = 0 /\ queued = <<>>

Length ==
    IF full THEN size
    ELSE IF tailPos >= headPos THEN tailPos - headPos ELSE tailPos - headPos + size

Empty == ~full /\ headPos = tailPos

\* Mutant: the elements stay where they are.
grownInPlace ==
    LET newSize == IF size = 0 THEN 1 ELSE 2 * size
    IN  [ring |-> ring \o zeros(newSize - size), head |-> 0, tail |-> size]

\* The elements move to the start of an array of twice the size, the head's part first.
grow ==
    LET newSize == IF size = 0 THEN 1 ELSE 2 * size
    IN  [ring |-> SubSeq(ring, headPos + 1, size) \o SubSeq(ring, 1, headPos) \o zeros(newSize - size),
         head |-> 0, tail |-> size]

next(p, n) == IF p + 1 = n THEN 0 ELSE p + 1

PushBack ==
    /\ pushed < MaxPushed
    /\ LET r == IF full \/ size = 0 THEN grow ELSE [ring |-> ring, head |-> headPos, tail |-> tailPos]
       IN  /\ ring' = [r.ring EXCEPT ![r.tail + 1] = pushed + 1]
           /\ headPos' = r.head
           /\ tailPos' = next(r.tail, Len(r.ring))
           /\ full' = (tailPos' = r.head)
    /\ pushed' = pushed + 1
    /\ queued' = Append(queued, pushed + 1)

\* PopFront and PeekFront must not be called on an empty buffer.
PopFront ==
    /\ ~Empty
    /\ full' = FALSE
    /\ ring' = [ring EXCEPT ![headPos + 1] = Zero]
    /\ headPos' = next(headPos, size)
    /\ queued' = Tail(queued)
    /\ UNCHANGED <<tailPos, pushed>>

Clear ==
    /\ ~Empty
    /\ ring' = zeros(size)
    /\ headPos' = 0 /\ tailPos' = 0 /\ full' = FALSE
    /\ queued' = <<>>
    /\ UNCHANGED pushed

Next == PushBack \/ PopFront \/ Clear

Spec == Init /\ [][Next]_rbVars

\* The ring buffer is a queue: its length and its emptiness are the queue's, from the head on it
\* holds the queue's elements in order, and nothing is kept alive elsewhere in the array
\* (internal/utils/ringbuffer/ringbuffer.go).
RingIsQueue ==
    /\ Length = Len(queued)
    /\ Empty <=> queued = <<>>
    /\ \A k \in 1 .. size : at((headPos + k - 1) % size) = IF k <= Len(queued) THEN queued[k] ELSE Zero
=============================================================================
