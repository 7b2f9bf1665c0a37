------------------------------- MODULE Server -------------------------------
(***************************************************************************)
(* A Transport with a listener: the goroutine that reads the socket, the   *)
(* server's run loop with its bounded queues, the goroutine that waits for *)
(* each new connection, callers of Accept, and the three ways to close:    *)
(* Listener.Close, Transport.Close and an error of the socket.             *)
(* A destination connection ID stands for the client that uses it.  Any    *)
(* client may send any packet at any time, so answers need not be tracked. *)
(***************************************************************************)
EXTENDS Integers, Sequences, FiniteSets, Functions

CONSTANTS
    ClientIDs,                     \* destination connection IDs that clients use
    MaxServerUnprocessedPackets, MaxAcceptQueueSize, Max0RTTQueues, Max0RTTQueueLen,
    ReplyQueueSize,                \* capacity of the queues of answers
    Max0RTTQueueingDuration,
    MaxArrivals, MaxConns, MaxSrvTime,   \* bounds: packets, connections, clock
    SingleUse,                     \* the Transport was made by Listen or ListenAddr
    Collisions                     \* a client's ID may equal one chosen at random

ASSUME EarlyDataAssumption == Max0RTTQueues \in Nat /\ Max0RTTQueueLen \in Nat /\ Max0RTTQueueingDuration \in Nat
ASSUME ServerQueueAssumption ==
    MaxServerUnprocessedPackets \in Nat /\ MaxAcceptQueueSize \in Nat /\ ReplyQueueSize \in Nat
ASSUME ServerBoundAssumption ==
    MaxArrivals \in Nat /\ MaxConns \in Nat /\ MaxSrvTime \in Nat /\ SingleUse \in BOOLEAN /\ Collisions \in BOOLEAN

VARIABLES
    srvPackets,          \* receivedPackets
    zeroRTTQueues,       \* [connection ID -> [packets, expiration]]
    nextZeroRTTCleanup,  \* 0: not set
    replies,             \* packets in the queues that runSendQueue serves
    srvConns,            \* connections: [id, st, waiter]
    srvHandlers,         \* packetHandlerMap: [connection ID -> connection]
    mapClosed,           \* packetHandlerMap.closed
    connQueue, accepted,
    errorChan,           \* closed: closeErr is set
    srvLoop,             \* run of the server: "run", "stuck", "ended"
    tServer,             \* Transport.server # nil
    tClosed, tMutex, closeMx, listening,
    closerPC,            \* "start": not called, or waiting for its first lock
    srvClock, arrivals

sockVars == <<srvPackets, replies, listening, arrivals>>
earlyVars == <<zeroRTTQueues, nextZeroRTTCleanup>>
connVars == <<srvConns, srvHandlers, mapClosed>>
acceptVars == <<connQueue, accepted>>
closeVars == <<errorChan, srvLoop, tServer, tClosed, tMutex, closeMx, closerPC>>
srvVars == <<sockVars, earlyVars, connVars, acceptVars, closeVars, srvClock>>

Closers == {"listener", "transport", "socket"}
PacketTypes == {"Initial", "0RTT", "unsupported", "dropped", "short"}
\* "none": no token, or one that is not for Retry and is invalid, which is ignored.
Tokens == {"none", "valid", "expiredRetry"}
\* Who sends the answers: the server, from queues that are alike, and the Transport.
Replies == {"server", "transport"}
Conns == 1 .. Len(srvConns)
isLive(n) == srvConns[n].st # "closed"

-----------------------------------------------------------------------------
(* The socket *)

enqueueReply(r) == replies' = [replies EXCEPT ![r] = IF @ < ReplyQueueSize THEN @ + 1 ELSE @]

(* Transport.handlePacket, with maybeSendStatelessReset and                *)
(* baseServer.handlePacket.  A packet for a connection is its business.    *)
TransportHandlePacket(id, type, tok) ==
    /\ listening /\ arrivals < MaxArrivals
    /\ arrivals' = arrivals + 1
    /\ IF id \in DOMAIN srvHandlers THEN UNCHANGED <<srvPackets, replies>>
       ELSE IF type = "short" THEN enqueueReply("transport") /\ UNCHANGED srvPackets
       ELSE /\ tMutex = "free"
            /\ srvPackets' = IF tServer /\ Len(srvPackets) < MaxServerUnprocessedPackets
                             THEN Append(srvPackets, [id |-> id, type |-> type, token |-> tok, at |-> srvClock])
                             ELSE srvPackets
            /\ UNCHANGED replies
    /\ UNCHANGED <<listening, earlyVars, connVars, acceptVars, closeVars, srvClock>>

\* runSendQueue of the Transport and of the server: one answer is sent.
RunSendQueue(r) ==
    /\ replies[r] > 0
    /\ IF r = "transport" THEN listening ELSE srvLoop # "ended"
    /\ replies' = [replies EXCEPT ![r] = @ - 1]
    /\ UNCHANGED <<srvPackets, listening, arrivals, earlyVars, connVars, acceptVars, closeVars, srvClock>>

SrvTick ==
    /\ srvClock < MaxSrvTime
    /\ srvClock' = srvClock + 1
    /\ UNCHANGED <<sockVars, earlyVars, connVars, acceptVars, closeVars>>

-----------------------------------------------------------------------------
(* The server's run loop *)

\* Mutant: the queue of a client outlives the creation of its connection.
without0RTTKept(queues, id) == queues

without0RTT(queues, id) == Restrict(queues, DOMAIN queues \ {id})

earlier(a, b) == IF a = 0 \/ b < a THEN b ELSE a

\* handle0RTTPacket: the queues, and the time of the next cleanup.
handle0RTTPacket(p) ==
    LET queue == zeroRTTQueues[p.id]
        expiration == p.at + Max0RTTQueueingDuration
    IN  IF p.id \in DOMAIN srvHandlers THEN [queues |-> zeroRTTQueues, next |-> nextZeroRTTCleanup]
        ELSE IF p.id \in DOMAIN zeroRTTQueues
        THEN [queues |-> [zeroRTTQueues EXCEPT ![p.id].packets =
                              IF @ < Max0RTTQueueLen THEN @ + 1 ELSE @],
              next |-> nextZeroRTTCleanup]
        ELSE IF Cardinality(DOMAIN zeroRTTQueues) >= Max0RTTQueues
        THEN [queues |-> zeroRTTQueues, next |-> nextZeroRTTCleanup]
        ELSE [queues |-> [id \in DOMAIN zeroRTTQueues \cup {p.id} |->
                            IF id = p.id THEN [packets |-> 1, expiration |-> expiration]
                            ELSE zeroRTTQueues[id]],
              next |-> earlier(nextZeroRTTCleanup, expiration)]

\* cleanupZeroRTTQueues, deferred when the packet came after the cleanup was due.
cleanupZeroRTTQueues(e, now) ==
    LET kept == {id \in DOMAIN e.queues : e.queues[id].expiration > now}
    IN  IF nextZeroRTTCleanup = 0 \/ now <= nextZeroRTTCleanup THEN e
        ELSE [queues |-> Restrict(e.queues, kept),
              next |-> IF kept = {} THEN 0
                       ELSE CHOOSE t \in {e.queues[id].expiration : id \in kept} :
                              \A id \in kept : t <= e.queues[id].expiration]

setQueues(e, now) ==
    LET c == cleanupZeroRTTQueues(e, now)
    IN  zeroRTTQueues' = c.queues /\ nextZeroRTTCleanup' = c.next

\* validateToken; what a token says of its age and address is part of its kind.
validateToken(tok) == tok = "valid"

(* handleInitialImpl.  A token that is not for Retry is ignored when it is *)
(* invalid; VerifySourceAddress and GetConfigForClient may decide anything. *)
handleInitialImpl(p) ==
    IF p.id \in DOMAIN srvHandlers
    THEN setQueues([queues |-> zeroRTTQueues, next |-> nextZeroRTTCleanup], p.at)
         /\ UNCHANGED <<replies, srvConns, srvHandlers, srvLoop>>
    ELSE IF p.token = "expiredRetry"
    THEN /\ enqueueReply("server")
         /\ setQueues([queues |-> zeroRTTQueues, next |-> nextZeroRTTCleanup], p.at)
         /\ UNCHANGED <<srvConns, srvHandlers, srvLoop>>
    ELSE \E answer \in {"refused", "accept"} \cup (IF validateToken(p.token) THEN {} ELSE {"retry"}) :
           /\ setQueues([queues |-> without0RTT(zeroRTTQueues, p.id), next |-> nextZeroRTTCleanup], p.at)
           /\ IF answer # "accept"
              THEN enqueueReply("server") /\ UNCHANGED <<srvConns, srvHandlers, srvLoop>>
              ELSE /\ Len(srvConns) < MaxConns
                   /\ \E taken \in (IF Collisions THEN BOOLEAN ELSE {FALSE}) :
                        IF taken    \* AddWithConnID fails: close a connection that does not run
                        THEN srvLoop' = "stuck" /\ UNCHANGED <<srvConns, srvHandlers>>
                        ELSE /\ srvConns' = Append(srvConns, [id |-> p.id, st |-> "handshake",
                                                              waiter |-> "wait", asked |-> FALSE])
                             /\ srvHandlers' = [id \in DOMAIN srvHandlers \cup {p.id} |->
                                                  IF id = p.id THEN Len(srvConns) + 1 ELSE srvHandlers[id]]
                             /\ UNCHANGED srvLoop
                   /\ UNCHANGED replies

\* run, with handlePacketImpl.
ServerRun ==
    /\ srvLoop = "run" /\ srvPackets # <<>>
    /\ srvPackets' = Tail(srvPackets)
    /\ LET p == Head(srvPackets)
       IN  CASE p.type = "Initial" -> handleInitialImpl(p)
             [] p.type = "0RTT" -> setQueues(handle0RTTPacket(p), p.at)
                                   /\ UNCHANGED <<replies, srvConns, srvHandlers, srvLoop>>
             [] OTHER -> /\ setQueues([queues |-> zeroRTTQueues, next |-> nextZeroRTTCleanup], p.at)
                         /\ IF p.type = "unsupported" THEN enqueueReply("server") ELSE UNCHANGED replies
                         /\ UNCHANGED <<srvConns, srvHandlers, srvLoop>>
    /\ UNCHANGED <<listening, arrivals, mapClosed, acceptVars, errorChan, tServer, tClosed, tMutex,
                   closeMx, closerPC, srvClock>>

\* The select of run prefers nothing: it may handle packets until it sees errorChan.
ServerRunEnds ==
    /\ srvLoop = "run" /\ errorChan
    /\ srvLoop' = "ended"
    /\ UNCHANGED <<sockVars, earlyVars, connVars, acceptVars, errorChan, tServer, tClosed, tMutex,
                   closeMx, closerPC, srvClock>>

-----------------------------------------------------------------------------
(* Connections and Accept *)

updConn(n, c) == srvConns' = [srvConns EXCEPT ![n] = c]
ConnUnchanged == UNCHANGED <<sockVars, earlyVars, mapClosed, closeVars, srvClock>>

\* The handshake completes (or the connection is ready for early data).
ConnReady(n) ==
    /\ srvConns[n].st = "handshake"
    /\ updConn(n, [srvConns[n] EXCEPT !.st = "ready"])
    /\ UNCHANGED <<srvHandlers, acceptVars>> /\ ConnUnchanged

\* The connection ends: by itself, or because it was destroyed or refused.
ConnEnds(n) ==
    /\ isLive(n)
    /\ updConn(n, [srvConns[n] EXCEPT !.st = "closed"])
    /\ UNCHANGED <<srvHandlers, acceptVars>> /\ ConnUnchanged

AskedConnEnds(n) == srvConns[n].asked /\ ConnEnds(n)

\* The entry of a client's connection ID is deleted: after the connection was closed, or after its
\* handshake, when the client uses IDs of the server (SetHandshakeComplete); the connection keeps
\* its entries for those.
HandlerDeleted(id) ==
    /\ srvConns[srvHandlers[id]].st # "handshake"
    /\ srvHandlers' = Restrict(srvHandlers, DOMAIN srvHandlers \ {id})
    /\ UNCHANGED <<srvConns, acceptVars>> /\ ConnUnchanged

\* Mutant: a connection that finds the accept queue full is dropped silently.
queueFullDrops(c) == [c EXCEPT !.waiter = "done"]

\* The accept queue is full: CONNECTION_REFUSED.
queueFull(c) == [c EXCEPT !.waiter = "refuse", !.asked = TRUE]

(* The goroutine that handleInitialImpl starts: handleNewConn, then the    *)
(* accept queue.  closeWithTransportError returns when the connection ended.*)
WaitForConn(n) ==
    LET c == srvConns[n]
    IN  /\ \/ c.waiter = "wait" /\ errorChan
              /\ updConn(n, [c EXCEPT !.waiter = "refuse", !.asked = TRUE]) /\ UNCHANGED connQueue
           \/ c.waiter \in {"wait", "refuse"} /\ c.st = "closed"
              /\ updConn(n, [c EXCEPT !.waiter = "done"]) /\ UNCHANGED connQueue
           \/ c.waiter = "wait" /\ c.st = "ready"
              /\ updConn(n, [c EXCEPT !.waiter = "enqueue"]) /\ UNCHANGED connQueue
           \/ c.waiter = "enqueue" /\ Len(connQueue) < MaxAcceptQueueSize
              /\ updConn(n, [c EXCEPT !.waiter = "done"]) /\ connQueue' = Append(connQueue, n)
           \/ c.waiter = "enqueue" /\ Len(connQueue) >= MaxAcceptQueueSize
              /\ updConn(n, queueFull(c)) /\ UNCHANGED connQueue
        /\ UNCHANGED <<srvHandlers, accepted>> /\ ConnUnchanged

\* accept returns a connection.  The other cases of its select, a canceled context
\* and a closed errorChan, return an error and change nothing.
Accept ==
    /\ connQueue # <<>>
    /\ accepted' = accepted \cup {Head(connQueue)}
    /\ connQueue' = Tail(connQueue)
    /\ UNCHANGED <<srvConns, srvHandlers>> /\ ConnUnchanged

-----------------------------------------------------------------------------
(* Closing *)

goTo(c, pc) == closerPC' = [closerPC EXCEPT ![c] = pc]
CloseUnchanged == UNCHANGED <<srvPackets, replies, arrivals, earlyVars, srvHandlers, acceptVars, srvClock>>

\* Transport.close takes the mutex and destroys every connection of the
\* packetHandlerMap; it is called by Close, and by listen when the socket fails.
TransportCloseStart(c) ==
    /\ closerPC[c] = "start" /\ c # "listener" /\ tMutex = "free"
    /\ c = "socket" => listening
    /\ IF tClosed
       THEN goTo(c, "waitListen") /\ UNCHANGED <<tMutex, mapClosed, srvConns>>
       ELSE /\ tMutex' = c /\ mapClosed' = TRUE
            /\ srvConns' = [n \in Conns |-> IF isLive(n) /\ ~mapClosed
                                            THEN [srvConns[n] EXCEPT !.asked = TRUE] ELSE srvConns[n]]
            /\ goTo(c, "waitConns")
    /\ UNCHANGED <<errorChan, srvLoop, tServer, tClosed, closeMx, listening>> /\ CloseUnchanged

\* handlerMap.Close returns when all of them ended.
TransportConnsEnded(c) ==
    /\ closerPC[c] = "waitConns"
    /\ \A n \in Conns : srvConns[n].asked => ~isLive(n)
    /\ goTo(c, IF tServer THEN "lock" ELSE "closed")
    /\ UNCHANGED <<errorChan, srvLoop, tServer, tClosed, tMutex, closeMx, srvConns, mapClosed, listening>>
    /\ CloseUnchanged

(* baseServer.close: closeErr, errorChan, and the end of run are awaited   *)
(* with closeMx held; a second call returns at once.                       *)
ServerCloseStart(c) ==
    /\ closerPC[c] = IF c = "listener" THEN "start" ELSE "lock"
    /\ closeMx = "free"
    /\ IF errorChan
       THEN goTo(c, IF c = "listener" THEN "done" ELSE "closed") /\ UNCHANGED <<errorChan, closeMx>>
       ELSE errorChan' = TRUE /\ closeMx' = c /\ goTo(c, "waitRun")
    /\ UNCHANGED <<srvLoop, tServer, tClosed, tMutex, srvConns, mapClosed, listening>> /\ CloseUnchanged

\* Mutant: Transport.close has the server notify the Transport as well.
notifyOnCloseAlways(c) == TRUE

\* Only Listener.Close calls onClose.
notifyOnClose(c) == c = "listener"

ServerCloseEnd(c) ==
    /\ closerPC[c] = "waitRun" /\ srvLoop = "ended"
    /\ closeMx' = "free"
    /\ goTo(c, IF notifyOnClose(c) THEN "onClose" ELSE "closed")
    /\ UNCHANGED <<errorChan, srvLoop, tServer, tClosed, tMutex, srvConns, mapClosed, listening>>
    /\ CloseUnchanged

\* The end of Transport.close; the goroutine that reads the socket returns.
TransportCloseEnd(c) ==
    /\ closerPC[c] = "closed"
    /\ tClosed' = TRUE /\ tMutex' = "free"
    /\ goTo(c, "waitListen")
    /\ UNCHANGED <<errorChan, srvLoop, tServer, closeMx, srvConns, mapClosed, listening>> /\ CloseUnchanged

\* Transport.closeServer
CloseServer(c) ==
    /\ closerPC[c] = "onClose" /\ tMutex = "free"
    /\ tServer' = FALSE /\ tClosed' = (tClosed \/ SingleUse)
    /\ goTo(c, IF SingleUse THEN "waitListen" ELSE "done")
    /\ UNCHANGED <<errorChan, srvLoop, tMutex, closeMx, srvConns, mapClosed, listening>> /\ CloseUnchanged

\* listen returns: its read deadline has passed or the socket is closed.  The
\* temporary error makes it look at closed, under the mutex.
ListenReturns ==
    /\ listening
    /\ \/ closerPC["socket"] = "waitListen"
       \/ /\ closerPC["socket"] = "start" /\ tMutex = "free" /\ tClosed
          /\ \E c \in Closers : closerPC[c] = "waitListen"
    /\ listening' = FALSE
    /\ UNCHANGED <<closeVars, srvConns, mapClosed>> /\ CloseUnchanged

CloseReturns(c) ==
    /\ closerPC[c] = "waitListen" /\ ~listening
    /\ goTo(c, "done")
    /\ UNCHANGED <<errorChan, srvLoop, tServer, tClosed, tMutex, closeMx, srvConns, mapClosed, listening>>
    /\ CloseUnchanged

CloseStep(c) ==
    \/ TransportCloseStart(c) \/ TransportConnsEnded(c) \/ ServerCloseStart(c) \/ ServerCloseEnd(c)
    \/ TransportCloseEnd(c) \/ CloseServer(c) \/ CloseReturns(c)

-----------------------------------------------------------------------------
ServerInit ==
    /\ srvPackets = <<>> /\ replies = [r \in Replies |-> 0] /\ listening = TRUE /\ arrivals = 0
    /\ zeroRTTQueues = <<>> /\ nextZeroRTTCleanup = 0
    /\ srvConns = <<>> /\ srvHandlers = <<>> /\ mapClosed = FALSE
    /\ connQueue = <<>> /\ accepted = {}
    /\ errorChan = FALSE /\ srvLoop = "run" /\ tServer = TRUE /\ tClosed = FALSE
    /\ tMutex = "free" /\ closeMx = "free" /\ srvClock = 1
    /\ closerPC = [c \in Closers |-> "start"]

ServerNext ==
    \/ \E id \in ClientIDs, type \in PacketTypes, tok \in Tokens :
         (type = "Initial" \/ tok = "none") /\ TransportHandlePacket(id, type, tok)
    \/ \E r \in Replies : RunSendQueue(r)
    \/ SrvTick \/ ServerRun \/ ServerRunEnds \/ Accept \/ ListenReturns
    \/ \E n \in Conns : ConnReady(n) \/ ConnEnds(n) \/ WaitForConn(n)
    \/ \E id \in DOMAIN srvHandlers : HandlerDeleted(id)
    \/ \E c \in Closers : CloseStep(c)

\* Goroutines that can go on do.  Nothing makes the socket fail, a handshake
\* complete or a caller close.
ServerFairness ==
    /\ WF_srvVars(ServerRunEnds) /\ WF_srvVars(ListenReturns)
    /\ \A n \in 1 .. MaxConns : WF_srvVars(n \in Conns /\ AskedConnEnds(n)) /\ WF_srvVars(n \in Conns /\ WaitForConn(n))
    /\ \A c \in Closers : WF_srvVars(closerPC[c] # "start" /\ CloseStep(c))

ServerSpec == ServerInit /\ [][ServerNext]_srvVars /\ ServerFairness

-----------------------------------------------------------------------------
\* Early packets wait only while there is no connection for them, in a bounded
\* number of queues, and a cleanup is due no later than the first of them expires.
EarlyDataExpires ==
    /\ Cardinality(DOMAIN zeroRTTQueues) <= Max0RTTQueues
    /\ \A id \in DOMAIN zeroRTTQueues :
         /\ id \notin DOMAIN srvHandlers
         /\ nextZeroRTTCleanup \in 1 .. zeroRTTQueues[id].expiration

\* A connection that completed its handshake is never forgotten: it is on its way to
\* the application, refused, or ended.
NoConnForgotten ==
    \A n \in Conns : (srvConns[n].waiter = "done" /\ isLive(n)) => n \in Range(connQueue) \cup accepted

\* Every call of a close function returns, whoever else closes at the same time: a
\* call that has begun ends, so no other waits for its locks forever.
NoCloseCallIsWaiting == \A c \in Closers : closerPC[c] \in {"start", "done"}
CloseCallsReturn == <>[]NoCloseCallIsWaiting

\* server.go, Listener.Close: "if it was created using the Listen convenience method,
\* all established connection will be closed immediately".
ListenerCloseClosesConns ==
    (SingleUse /\ closerPC["listener"] = "done" /\ ~tServer)
      => \A n \in Conns : (n \in accepted) => (srvConns[n].asked \/ ~isLive(n))
=============================================================================
