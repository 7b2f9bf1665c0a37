----------------------------- MODULE StreamsMap -----------------------------
(***************************************************************************)
(* The streams of one type that one endpoint opens and the other accepts:  *)
(* the outgoing streams map of the opener, with several goroutines in      *)
(* OpenStreamSync, and the incoming streams map of the accepter.  STREAM   *)
(* and MAX_STREAMS frames arrive in any order and repeatedly.              *)
(*                                                                         *)
(* The opener may start with 0-RTT, under limits it remembers; when the    *)
(* accepter rejects it, its maps are closed and made anew (ResetFor0RTT).  *)
(***************************************************************************)
EXTENDS Integers, FiniteSets

CONSTANTS
    Openers,         \* goroutines that call OpenStreamSync
    maxNumStreams,   \* streams the accepter allows at a time
    MaxStreamCount,  \* the largest stream number there may be
    MaxCalls,        \* bound: waiting calls of OpenStreamSync
    LateCancel,      \* may a context end after its waiter was woken?
    Accepters        \* goroutines that call AcceptStream

VARIABLES
    outStreams, openQueue, lowestInQueue, highestInQueue, nextStream, maxStream,
    blockedSent, outClosed,
    reset0RTT,       \* streamsMap.reset
    opener,          \* per goroutine: Idle, Closed or its place in the queue
    woken,           \* places whose waitChan holds a signal
    early,           \* 0-RTT: the accepter has not answered yet
    inStreams, shouldDelete, nextStreamToAccept, nextStreamToOpen, inMaxStream,
    newStreamChan, inClosed,
    accepter,        \* per goroutine: waiting in AcceptStream?
    offered          \* MAX_STREAMS frames sent

outVars == <<outStreams, openQueue, lowestInQueue, highestInQueue, nextStream, maxStream,
             blockedSent, outClosed, reset0RTT, opener, woken>>
inVars == <<inStreams, shouldDelete, nextStreamToAccept, nextStreamToOpen, inMaxStream,
            newStreamChan, inClosed, accepter, offered>>
mapVars == <<outVars, early, inVars>>

InvalidStreamNum == -1
Idle == -1
Closed == -2   \* waiting on a map that was closed

-----------------------------------------------------------------------------
(* Outgoing *)

\* Mutant: the search for the next waiter stops at a place given up.
unblockAtLowest(q, lowest) == IF lowest \in q THEN woken \cup {lowest} ELSE woken

\* unblockOpenSync: signal the first waiter that is left in the queue.
unblockOpenSync(q, lowest) ==
    woken \cup {p \in q : p >= lowest /\ \A x \in q : x >= lowest => p <= x}

openStream == /\ outStreams' = outStreams \cup {nextStream}
              /\ nextStream' = nextStream + 1

\* OpenStream, and OpenStreamWithFEC: waiting calls of OpenStreamSync go first.
OpenStream ==
    /\ ~reset0RTT /\ ~outClosed
    /\ IF openQueue # {} \/ nextStream > maxStream
       THEN blockedSent' = TRUE /\ UNCHANGED <<outStreams, nextStream>>
       ELSE openStream /\ UNCHANGED blockedSent
    /\ UNCHANGED <<openQueue, lowestInQueue, highestInQueue, maxStream, outClosed, reset0RTT, opener,
                   woken, early, inVars>>

\* OpenStreamSync and OpenStreamSyncWithFEC up to the wait.
OpenStreamSync(o) ==
    /\ opener[o] = Idle
    /\ ~reset0RTT /\ ~outClosed
    /\ IF openQueue = {} /\ nextStream <= maxStream
       THEN /\ openStream
            /\ UNCHANGED <<openQueue, lowestInQueue, highestInQueue, blockedSent, opener>>
       ELSE /\ highestInQueue < MaxCalls
            /\ opener' = [opener EXCEPT ![o] = highestInQueue]
            /\ highestInQueue' = highestInQueue + 1
            /\ lowestInQueue' = IF openQueue = {} THEN highestInQueue ELSE lowestInQueue
            /\ openQueue' = openQueue \cup {highestInQueue}
            /\ blockedSent' = TRUE
            /\ UNCHANGED <<outStreams, nextStream>>
    /\ UNCHANGED <<maxStream, outClosed, reset0RTT, woken, early, inVars>>

\* A signal ends the wait: open a stream and pass the signal on, or wait on.
OpenSyncWakes(o) ==
    /\ opener[o] \in woken
    /\ IF nextStream > maxStream
       THEN /\ woken' = woken \ {opener[o]}
            /\ UNCHANGED <<outStreams, nextStream, openQueue, lowestInQueue, opener>>
       ELSE /\ openStream
            /\ openQueue' = openQueue \ {opener[o]}
            /\ lowestInQueue' = opener[o] + 1
            /\ woken' = unblockOpenSync(openQueue', lowestInQueue') \ {opener[o]}
            /\ opener' = [opener EXCEPT ![o] = Idle]
    /\ UNCHANGED <<highestInQueue, maxStream, blockedSent, outClosed, reset0RTT, early, inVars>>

\* The context of a waiting call ends.  With a signal in waitChan the select may
\* choose either, and the signal is gone with the waiter.
OpenSyncCanceled(o) ==
    /\ opener[o] \in openQueue
    /\ LateCancel \/ opener[o] \notin woken
    /\ openQueue' = openQueue \ {opener[o]}
    /\ woken' = woken \ {opener[o]}
    /\ opener' = [opener EXCEPT ![o] = Idle]
    /\ UNCHANGED <<outStreams, lowestInQueue, highestInQueue, nextStream, maxStream, blockedSent,
                   outClosed, reset0RTT, early, inVars>>

\* The map was closed under a waiting call, which returns the error.
OpenSyncReturnsError(o) ==
    /\ opener[o] = Closed
    /\ opener' = [opener EXCEPT ![o] = Idle]
    /\ UNCHANGED <<outStreams, openQueue, lowestInQueue, highestInQueue, nextStream, maxStream,
                   blockedSent, outClosed, reset0RTT, woken, early, inVars>>

\* SetMaxStream, for a MAX_STREAMS frame or transport parameters.
SetMaxStream(n) ==
    /\ n > maxStream
    /\ maxStream' = n
    /\ blockedSent' = (n < nextStream - 1 + Cardinality(openQueue))
    /\ woken' = unblockOpenSync(openQueue, lowestInQueue)
    /\ UNCHANGED <<outStreams, openQueue, lowestInQueue, highestInQueue, nextStream, outClosed,
                   reset0RTT, opener, inVars>>

HandleMaxStreamsFrame(n) == ~early /\ ~outClosed /\ SetMaxStream(n) /\ UNCHANGED early

\* UpdateLimits: the peer accepted 0-RTT or there was none.
UpdateLimits ==
    /\ early /\ ~outClosed
    /\ early' = FALSE
    /\ IF maxNumStreams > maxStream THEN SetMaxStream(maxNumStreams) ELSE UNCHANGED <<outVars, inVars>>

OutDeleteStream(n) ==
    /\ outStreams' = outStreams \ {n}
    /\ UNCHANGED <<openQueue, lowestInQueue, highestInQueue, nextStream, maxStream, blockedSent,
                   outClosed, reset0RTT, opener, woken, early, inVars>>

\* CloseWithError wakes every waiter.
closeWaiters == opener' = [o \in Openers |-> IF opener[o] \in openQueue THEN Closed ELSE opener[o]]

\* 0-RTT is rejected; the limits of the new maps are set when the handshake completes.
ResetFor0RTT ==
    /\ early /\ ~outClosed /\ ~reset0RTT
    /\ maxStream # InvalidStreamNum
    /\ reset0RTT' = TRUE
    /\ closeWaiters
    /\ outStreams' = {} /\ openQueue' = {} /\ woken' = {} /\ nextStream' = 1
    /\ maxStream' = InvalidStreamNum /\ blockedSent' = FALSE
    /\ lowestInQueue' = 0 /\ highestInQueue' = 0
    /\ UNCHANGED <<outClosed, early, inVars>>

UseResetMaps ==
    /\ reset0RTT
    /\ reset0RTT' = FALSE
    /\ UNCHANGED <<outStreams, openQueue, lowestInQueue, highestInQueue, nextStream, maxStream,
                   blockedSent, outClosed, opener, woken, early, inVars>>

CloseOutgoing ==
    /\ ~outClosed
    /\ outClosed' = TRUE
    /\ closeWaiters
    /\ openQueue' = {} /\ woken' = {}
    /\ UNCHANGED <<outStreams, lowestInQueue, highestInQueue, nextStream, maxStream, blockedSent,
                   reset0RTT, early, inVars>>

-----------------------------------------------------------------------------
(* Incoming *)

\* A frame of stream n arrives: GetOrOpenStream opens it and those below.
GetOrOpenStream(n) ==
    /\ ~early /\ ~inClosed
    /\ n < nextStream
    /\ n >= nextStreamToOpen
    /\ n <= inMaxStream
    /\ inStreams' = inStreams \cup (nextStreamToOpen .. n)
    /\ newStreamChan' = TRUE
    /\ nextStreamToOpen' = n + 1
    /\ UNCHANGED <<outVars, early, shouldDelete, nextStreamToAccept, inMaxStream, inClosed, accepter,
                   offered>>

\* Mutant: streams that wait to be accepted do not count.
limitAfterAccepted(streams) == nextStreamToOpen + (maxNumStreams -
                                   Cardinality({s \in streams : s < nextStreamToAccept})) - 1

\* The limit that leaves room for maxNumStreams streams.
limitAfter(streams) == nextStreamToOpen + (maxNumStreams - Cardinality(streams)) - 1

\* deleteStream of an accepted stream.
deleteAccepted(n) ==
    /\ inStreams' = inStreams \ {n}
    /\ shouldDelete' = shouldDelete \ {n}
    /\ \E limit \in {limitAfter(inStreams')} :
         IF maxNumStreams > Cardinality(inStreams') /\ limit <= MaxStreamCount
         THEN inMaxStream' = limit /\ offered' = offered \cup {limit}
         ELSE UNCHANGED <<inMaxStream, offered>>

\* DeleteStream: a stream that was not accepted is only marked.
InDeleteStream(n) ==
    /\ n \notin shouldDelete
    /\ IF n >= nextStreamToAccept
       THEN shouldDelete' = shouldDelete \cup {n} /\ UNCHANGED <<inStreams, inMaxStream, offered>>
       ELSE deleteAccepted(n)
    /\ UNCHANGED <<outVars, early, nextStreamToAccept, nextStreamToOpen, newStreamChan, inClosed, accepter>>

\* AcceptStream from the moment it holds the mutex: return a stream, an error, or wait.
acceptLoop(a) ==
    /\ IF inClosed \/ nextStreamToAccept \notin inStreams
       THEN /\ accepter' = [accepter EXCEPT ![a] = ~inClosed]
            /\ UNCHANGED <<inStreams, shouldDelete, inMaxStream, offered, nextStreamToAccept>>
       ELSE /\ accepter' = [accepter EXCEPT ![a] = FALSE]
            /\ nextStreamToAccept' = nextStreamToAccept + 1
            /\ IF nextStreamToAccept \in shouldDelete THEN deleteAccepted(nextStreamToAccept)
               ELSE UNCHANGED <<inStreams, shouldDelete, inMaxStream, offered>>
    /\ UNCHANGED <<outVars, early, nextStreamToOpen, inClosed>>

\* A call drains newStreamChan first.  (A channel that is closed stays ready.)
AcceptStream(a) == ~accepter[a] /\ newStreamChan' = inClosed /\ acceptLoop(a)
AcceptWakes(a) == accepter[a] /\ newStreamChan /\ newStreamChan' = inClosed /\ acceptLoop(a)

AcceptCanceled(a) ==
    /\ accepter[a]
    /\ accepter' = [accepter EXCEPT ![a] = FALSE]
    /\ UNCHANGED <<outVars, early, inStreams, shouldDelete, nextStreamToAccept, nextStreamToOpen,
                   inMaxStream, newStreamChan, inClosed, offered>>

CloseIncoming ==
    /\ ~inClosed
    /\ inClosed' = TRUE
    /\ newStreamChan' = TRUE
    /\ UNCHANGED <<outVars, early, inStreams, shouldDelete, nextStreamToAccept, nextStreamToOpen,
                   inMaxStream, accepter, offered>>

-----------------------------------------------------------------------------
MapInit ==
    /\ outStreams = {} /\ openQueue = {} /\ lowestInQueue = 0 /\ highestInQueue = 0
    /\ nextStream = 1
    /\ maxStream \in {InvalidStreamNum, 1}
    /\ blockedSent = FALSE /\ outClosed = FALSE /\ reset0RTT = FALSE
    /\ opener = [o \in Openers |-> Idle] /\ woken = {} /\ early = TRUE
    /\ inStreams = {} /\ shouldDelete = {} /\ nextStreamToAccept = 1 /\ nextStreamToOpen = 1
    /\ inMaxStream = maxNumStreams /\ newStreamChan = FALSE /\ inClosed = FALSE
    /\ accepter = [a \in Accepters |-> FALSE] /\ offered = {}

MapNext ==
    \/ OpenStream \/ UpdateLimits \/ ResetFor0RTT \/ UseResetMaps \/ CloseOutgoing \/ CloseIncoming
    \/ \E o \in Openers : \/ OpenStreamSync(o) \/ OpenSyncWakes(o)
                          \/ OpenSyncCanceled(o) \/ OpenSyncReturnsError(o)
    \/ \E n \in offered : HandleMaxStreamsFrame(n)
    \/ \E n \in outStreams : OutDeleteStream(n)
    \/ \E n \in 1 .. MaxStreamCount : GetOrOpenStream(n)
    \/ \E n \in inStreams : InDeleteStream(n)
    \/ \E a \in Accepters : AcceptStream(a) \/ AcceptWakes(a) \/ AcceptCanceled(a)

MapSpec == MapInit /\ [][MapNext]_mapVars

-----------------------------------------------------------------------------
\* unblockOpenSync, "It's sufficient to only unblock OpenStreamSync once": when a
\* stream can be opened while calls of OpenStreamSync wait, one of those that are still
\* waiting holds the signal, also after others were canceled.
OpenerIsWoken ==
    (openQueue # {} /\ nextStream <= maxStream) => \E o \in Openers : opener[o] \in woken

\* The two maps agree: the opener keeps the limit the accepter enforces, which never
\* has more than maxNumStreams streams to keep, and counts those that completed
\* before they were accepted; and an AcceptStream that waits unsignalled has no
\* stream to return.
LimitsAgree ==
    /\ ~early => nextStream - 1 <= inMaxStream
    /\ Cardinality(inStreams) <= maxNumStreams
    /\ \A a \in Accepters : (accepter[a] /\ ~newStreamChan) => nextStreamToAccept \notin inStreams
=============================================================================
