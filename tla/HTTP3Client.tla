----------------------------- MODULE HTTP3Client -----------------------------
(***************************************************************************)
(* The HTTP/3 RoundTripper (http3/roundtrip.go) and the clients it caches, *)
(* for one host: concurrent requests share a client, whose connection is   *)
(* dialed once, by the first request and under that request's context      *)
(* (http3/client.go).  A request that fails removes the cached client, and *)
(* is retried when it reused a connection that timed out.                  *)
(*                                                                         *)
(* A connection, seen from here: dialing returns it when it is ready for   *)
(* 0-RTT or when the handshake is complete; it may fail any time after, by *)
(* timing out or otherwise; SETTINGS arrive once.  What happens on a       *)
(* request's stream is the subject of HTTP3Stream.                         *)
(***************************************************************************)
EXTENDS Integers, Sequences, FiniteSets

CONSTANTS
    Requests,            \* the calls of RoundTripOpt
    Kinds,               \* the kinds of requests: [get0RTT, checkSettings]
    MaxClients           \* bound: clients created

ASSUME RequestsAssumption ==
    IsFiniteSet(Requests) /\ Kinds \subseteq [get0RTT: BOOLEAN, checkSettings: BOOLEAN]
ASSUME ClientBoundAssumption == MaxClients \in Nat

VARIABLES
    clients,             \* every client created: the cached one is an index
    cached,              \* r.clients[hostname], or NoClient
    req,                 \* the requests: see pc
    ctx,                 \* "open", "canceled" or "deadline"
    transport,           \* r.transport: "own Dial", "none" or "open"
    closedTripper        \* Close was called

h3cVars == <<clients, cached, req, ctx, transport, closedTripper>>

NoClient == 0

\* The clients and the requests, then the RoundTripper itself.
RequestsTypeOK ==
    /\ clients \in Seq([dial: {"idle", "dialing", "failed", "done"}, conn: {"none", "early", "ready", "timeout", "closed"},
                        complete: BOOLEAN, receivedSettings: BOOLEAN, useCount: Nat])
    /\ cached \in 0 .. Len(clients)
    /\ req \in [Requests -> [pc: {"start", "dialOnce", "dialing", "handshake", "settings", "open", "do", "failed",
                                  "error", "response", "panicked"},
                             cl: Nat, isReused: BOOLEAN, timeout: BOOLEAN, get0RTT: BOOLEAN, checkSettings: BOOLEAN]]
    /\ ctx \in [Requests -> {"open", "canceled", "deadline"}]
TripperTypeOK == transport \in {"own Dial", "none", "open"} /\ closedTripper \in BOOLEAN

ClientTypeOK == RequestsTypeOK /\ TripperTypeOK

ClientInit ==
    /\ clients = <<>> /\ cached = NoClient
    /\ \E kind \in [Requests -> Kinds] :
          req = [r \in Requests |-> [pc |-> "start", cl |-> NoClient, isReused |-> FALSE, timeout |-> FALSE,
                                     get0RTT |-> kind[r].get0RTT, checkSettings |-> kind[r].checkSettings]]
    /\ ctx = [r \in Requests |-> "open"]
    /\ transport \in {"own Dial", "none"}
    /\ closedTripper = FALSE

------------------------------------------------------------------------------
(* The connection                                                          *)

alive(c) == clients[c].conn \in {"early", "ready"}

\* handleHandshakeComplete cancels handshakeCtx, and nothing else does: HandshakeComplete() never
\* fires for a connection that ends before.
CompleteHandshake ==
    /\ \E c \in 1 .. Len(clients) :
          /\ clients[c].conn = "early"
          /\ clients' = [clients EXCEPT ![c].conn = "ready", ![c].complete = TRUE]
    /\ UNCHANGED <<cached, req, ctx, transport, closedTripper>>

ReceiveSettings ==
    /\ \E c \in 1 .. Len(clients) :
          /\ alive(c) /\ ~clients[c].receivedSettings
          /\ clients' = [clients EXCEPT ![c].receivedSettings = TRUE]
    /\ UNCHANGED <<cached, req, ctx, transport, closedTripper>>

\* The connection times out, or is closed by the peer or for an error (setupConn,
\* handleUnidirectionalStreams and handleBidirectionalStreams close it for those).
FailConnection ==
    /\ \E c \in 1 .. Len(clients), how \in {"timeout", "closed"} :
          /\ alive(c)
          /\ clients' = [clients EXCEPT ![c].conn = how]
    /\ UNCHANGED <<cached, req, ctx, transport, closedTripper>>

------------------------------------------------------------------------------
(* RoundTripOpt of the RoundTripper and of the client                      *)

EndContext ==
    /\ \E r \in Requests, how \in {"canceled", "deadline"} :
          /\ ctx[r] = "open" /\ req[r].pc \notin {"failed", "response"}
          /\ ctx' = [ctx EXCEPT ![r] = how]
    /\ UNCHANGED <<clients, cached, req, transport, closedTripper>>

newClient == [dial |-> "idle", conn |-> "none", complete |-> FALSE, receivedSettings |-> FALSE, useCount |-> 1]

\* getClient: the cached client, which is reused if its handshake is complete, or a new one, and a
\* transport for it unless there is one or the application has its own Dial function.
getClient(r) ==
    /\ req[r].pc = "start"
    /\ IF cached = NoClient
       THEN /\ Len(clients) < MaxClients
            /\ clients' = Append(clients, newClient)
            /\ cached' = Len(clients) + 1
            /\ transport' = IF transport = "none" THEN "open" ELSE transport
            /\ req' = [req EXCEPT ![r].pc = "dialOnce", ![r].cl = Len(clients) + 1, ![r].isReused = FALSE]
       ELSE /\ clients' = [clients EXCEPT ![cached].useCount = @ + 1]
            /\ req' = [req EXCEPT ![r].pc = "dialOnce", ![r].cl = cached,
                                  ![r].isReused = clients[cached].complete]
            /\ UNCHANGED <<cached, transport>>
    /\ UNCHANGED <<ctx, closedTripper>>

\* A request is refused before it has a client: RoundTripOpt finds it malformed, there is no
\* cached connection for OnlyCachedConn, or getClient cannot make a client.
RefuseRequest(r) ==
    /\ req[r].pc = "start"
    /\ req[r].cl = NoClient \/ cached = NoClient
    /\ req' = [req EXCEPT ![r].pc = "failed"]
    /\ clients' = IF req[r].cl = NoClient THEN clients ELSE [clients EXCEPT ![req[r].cl].useCount = @ - 1]
    /\ UNCHANGED <<cached, ctx, transport, closedTripper>>

\* A request with a canceled context reports that, and a deadline is a timeout.
errorOf(r, isTimeout) == IF ctx[r] = "open" THEN isTimeout ELSE ctx[r] = "deadline"
fails(r, isTimeout) == [req EXCEPT ![r].pc = "error", ![r].timeout = errorOf(r, isTimeout)]

afterDial(r) == IF req[r].get0RTT THEN "settings" ELSE "handshake"

\* dialOnce: the first request dials, the others wait until it has.
DialOnce(r) ==
    LET c == req[r].cl IN
    /\ req[r].pc = "dialOnce"
    /\ \/ /\ clients[c].dial = "idle"
          /\ clients' = [clients EXCEPT ![c].dial = "dialing"]
          /\ req' = [req EXCEPT ![r].pc = "dialing"]
       \/ /\ clients[c].dial = "done"
          /\ req' = [req EXCEPT ![r].pc = afterDial(r)]
          /\ UNCHANGED clients
       \/ /\ clients[c].dial = "failed"
          /\ \E isTimeout \in BOOLEAN : req' = fails(r, isTimeout)
          /\ UNCHANGED clients
    /\ UNCHANGED <<cached, ctx, transport, closedTripper>>

\* dial: the handshake succeeds, or gets as far as 0-RTT, or fails; a canceled context fails it.
\* The dialer reads r.transport when it is called, without the mutex: after Close it is nil.
Dial(r) ==
    LET c == req[r].cl IN
    /\ req[r].pc = "dialing"
    /\ \/ /\ transport # "none"
          /\ \E early \in BOOLEAN :
                clients' = [clients EXCEPT ![c].dial = "done", ![c].conn = IF early THEN "early" ELSE "ready",
                                           ![c].complete = ~early]
          /\ req' = [req EXCEPT ![r].pc = afterDial(r)]
       \/ /\ clients' = [clients EXCEPT ![c].dial = "failed"]
          /\ \E isTimeout \in BOOLEAN : req' = fails(r, isTimeout)
       \/ /\ transport = "none"
          /\ req' = [req EXCEPT ![r].pc = "panicked"]
          /\ UNCHANGED clients
    /\ UNCHANGED <<cached, ctx, transport, closedTripper>>

\* Wait for the handshake, unless this is a 0-RTT request.
AwaitHandshake(r) ==
    /\ req[r].pc = "handshake"
    /\ \/ /\ clients[req[r].cl].complete
          /\ req' = [req EXCEPT ![r].pc = "settings"]
       \/ /\ ctx[r] # "open"
          /\ req' = fails(r, FALSE)
    /\ UNCHANGED <<clients, cached, ctx, transport, closedTripper>>

\* Mutant: only SETTINGS end the wait, not the end of the connection.
settingsNeverFail(c) == FALSE

settingsFail(c) == ~alive(c)

\* CheckSettings waits for the SETTINGS or the end of the connection, not for the context, and
\* may refuse the settings.
CheckSettings(r) ==
    LET c == clients[req[r].cl] IN
    /\ req[r].pc = "settings"
    /\ \/ /\ ~req[r].checkSettings \/ c.receivedSettings
          /\ req' = [req EXCEPT ![r].pc = "open"]
       \/ /\ req[r].checkSettings /\ c.receivedSettings
          /\ req' = fails(r, FALSE)
       \/ /\ req[r].checkSettings /\ settingsFail(req[r].cl)
          /\ req' = fails(r, c.conn = "timeout")
    /\ UNCHANGED <<clients, cached, ctx, transport, closedTripper>>

\* Opening the stream and doing the request: each fails with the connection or the context, and
\* the request may fail on its own.
OpenStream(r) ==
    /\ req[r].pc = "open"
    /\ \/ /\ alive(req[r].cl) /\ ctx[r] = "open"
          /\ req' = [req EXCEPT ![r].pc = "do"]
       \/ /\ ~alive(req[r].cl) \/ ctx[r] # "open"
          /\ req' = fails(r, clients[req[r].cl].conn = "timeout")
    /\ UNCHANGED <<clients, cached, ctx, transport, closedTripper>>

DoRequest(r) ==
    /\ req[r].pc = "do"
    /\ \/ /\ req' = [req EXCEPT ![r].pc = "response"]
          /\ clients' = [clients EXCEPT ![req[r].cl].useCount = @ - 1]
       \/ /\ req' = fails(r, clients[req[r].cl].conn = "timeout")
          /\ UNCHANGED clients
    /\ UNCHANGED <<cached, ctx, transport, closedTripper>>

\* Mutant: only a client that was reused is removed.
removesClientReused(r) == req[r].isReused

\* removeClient: the client that is cached now, whichever it is.
removesClient(r) == TRUE

\* RoundTripOpt after an error: the client is removed, and the request retried if it reused the
\* connection and timed out.  The deferred decrement of useCount happens after the retry: until
\* then the old client, which is no longer cached, counts as used.
isRetried(r) == req[r].isReused /\ req[r].timeout

HandleError(r) ==
    /\ req[r].pc = "error"
    /\ cached' = IF removesClient(r) THEN NoClient ELSE cached
    /\ req' = [req EXCEPT ![r].pc = IF isRetried(r) THEN "start" ELSE "failed", ![r].timeout = FALSE]
    /\ clients' = IF isRetried(r) THEN clients
                  ELSE [clients EXCEPT ![req[r].cl].useCount = @ - 1]
    /\ UNCHANGED <<ctx, transport, closedTripper>>

------------------------------------------------------------------------------
(* Closing                                                                 *)

\* client.Close: a client that has no connection yet has nothing to close.
closeClient(c) == IF alive(c) THEN [clients EXCEPT ![c].conn = "closed"] ELSE clients

CloseIdleConnections ==
    /\ cached # NoClient /\ clients[cached].useCount = 0
    /\ clients' = closeClient(cached)
    /\ cached' = NoClient
    /\ UNCHANGED <<req, ctx, transport, closedTripper>>

\* RoundTripper.Close: the cached client is closed and, unless the application has its own Dial
\* function, the transport with all its connections.
Close ==
    /\ ~closedTripper
    /\ closedTripper' = TRUE
    /\ \/ /\ transport = "open"
          /\ clients' = [c \in 1 .. Len(clients) |-> closeClient(c)[c]]
          /\ transport' = "none"
       \/ /\ transport # "open"
          /\ clients' = IF cached = NoClient THEN clients ELSE closeClient(cached)
          /\ UNCHANGED transport
    /\ cached' = NoClient
    /\ UNCHANGED <<req, ctx>>

RoundTrip(r) ==
    \/ getClient(r) \/ RefuseRequest(r) \/ DialOnce(r) \/ Dial(r) \/ AwaitHandshake(r)
    \/ CheckSettings(r) \/ OpenStream(r) \/ DoRequest(r) \/ HandleError(r)

\* A panic of one request ends the program.
programRuns == \A r \in Requests : req[r].pc # "panicked"

ClientNext ==
    /\ programRuns
    /\ \/ CompleteHandshake \/ ReceiveSettings \/ FailConnection \/ EndContext
       \/ \E r \in Requests : RoundTrip(r)
       \/ CloseIdleConnections \/ Close

\* A request that is not blocked goes on, a dial ends, and a peer whose connection stays up sends
\* its SETTINGS and completes the handshake.
ClientFairness ==
    /\ \A r \in Requests : WF_h3cVars(programRuns /\ RoundTrip(r))
    /\ WF_h3cVars(programRuns /\ CompleteHandshake) /\ WF_h3cVars(programRuns /\ ReceiveSettings)

ClientSpec == ClientInit /\ [][ClientNext]_h3cVars /\ ClientFairness

------------------------------------------------------------------------------
\* A client whose dial failed does not stay: as long as it is cached, and would fail every later
\* request to the host, a request that uses it is about to remove it (http3/roundtrip.go
\* RoundTripOpt, http3/client.go dialOnce).
FailedClientIsRemoved ==
    cached # NoClient /\ clients[cached].dial = "failed" =>
       \E r \in Requests : req[r].cl = cached /\ req[r].pc \in {"dialOnce", "error"}

\* A request that waits for HandshakeComplete of a connection that was returned for 0-RTT and ended
\* before its handshake completed: the channel never fires, although interface.go:240 says that it
\* does when the handshake fails, and only the request's own context ends the wait.
awaitsFailedHandshake(r) ==
    req[r].pc = "handshake" /\ ctx[r] = "open" /\ ~alive(req[r].cl) /\ ~clients[req[r].cl].complete

\* Every request returns, whatever happens to its connection, its client and the RoundTripper, with
\* that one exception (http3/client.go roundTripOpt, http3/roundtrip.go RoundTripOpt).  A request for
\* which the model has no further client is not counted, nor is a program that panicked.
RequestsHaveReturned ==
    programRuns =>
       \A r \in Requests : \/ req[r].pc \in {"failed", "response"}
                           \/ awaitsFailedHandshake(r)
                           \/ req[r].pc = "start" /\ cached = NoClient /\ Len(clients) = MaxClients
RequestsReturn == <>[]RequestsHaveReturned

\* Close closes the connections that this RoundTripper has used (http3/roundtrip.go Close), also
\* the ones that are no longer cached.
CloseClosesConnections ==
    closedTripper /\ (\A r \in Requests : req[r].pc \in {"failed", "response"}) =>
       \A c \in 1 .. Len(clients) : ~alive(c)
=============================================================================
