----------------------------- MODULE MCEndpoints -----------------------------
(***************************************************************************)
(* Calls and goroutines of the endpoints that must end: a server that is   *)
(* closed, requests of an HTTP/3 client, the goroutines of one request on  *)
(* both sides, and the handshake.  They share no state with each other     *)
(* here: a behaviour is one of one component, and this module gives each   *)
(* the constants it is checked with.                                       *)
(***************************************************************************)
EXTENDS Server, HTTP3Client, Integers, Sequences

VARIABLES
    part,    \* the component that runs
    dir, connOpen, ctxDone, reqDone, canceler, roundTrip, streamErr, bodySender, body, app,
    h3Server, panicked,
    hsClient, hsServers, hsNet

Request == INSTANCE HTTP3Stream WITH
    Window <- 1, RequestBodies <- {0, 2}, ContentLengths <- {1}, MaxResponse <- 2,
    BadResponses <- FALSE, server <- h3Server

Hs == INSTANCE Handshake WITH
    None <- "none", Orig <- "orig", RetryIDs <- {"r1"}, Use0RTT <- FALSE, OldVersion <- FALSE,
    MaxUndecryptablePackets <- 1, Coalesced <- TRUE

requestVars == <<
    dir, connOpen, ctxDone, reqDone, canceler, roundTrip, streamErr, bodySender, body, app,
    h3Server, panicked>>
handshakeVars == <<
    hsClient, hsServers, hsNet>>
mcVars == <<part, srvVars, h3cVars, requestVars, handshakeVars>>

MCInit ==
    /\ part \in {"server", "client", "request", "handshake"}
    /\ ServerInit
    /\ ClientInit
    /\ part # "client" => transport = "none"
    /\ Request!Init
    /\ part # "request" => body.left = 0 /\ body.length = 1
    /\ Hs!Init

MCNext ==
    /\ UNCHANGED part
    /\ \/ part = "server" /\ ServerNext
       \/ part # "server" /\ UNCHANGED srvVars
    /\ \/ part = "client" /\ ClientNext
       \/ part # "client" /\ UNCHANGED h3cVars
    /\ \/ part = "request" /\ Request!Next
       \/ part # "request" /\ UNCHANGED requestVars
    /\ \/ part = "handshake" /\ Hs!Next
       \/ part # "handshake" /\ UNCHANGED handshakeVars

(* The fairness of each component, for its own behaviours. *)
MCFairness ==
    /\ WF_srvVars(part = "server" /\ ServerRunEnds)
    /\ WF_srvVars(part = "server" /\ ListenReturns)
    /\ \A n \in 1 .. MaxConns :
          /\ WF_srvVars(part = "server" /\ n \in Conns /\ AskedConnEnds(n))
          /\ WF_srvVars(part = "server" /\ n \in Conns /\ WaitForConn(n))
    /\ \A c \in Closers :
          WF_srvVars(part = "server" /\ closerPC[c] # "start" /\ CloseStep(c))
    /\ \A r \in Requests : WF_h3cVars(part = "client" /\ programRuns /\ RoundTrip(r))
    /\ WF_h3cVars(part = "client" /\ programRuns /\ CompleteHandshake)
    /\ WF_h3cVars(part = "client" /\ programRuns /\ ReceiveSettings)
    /\ WF_requestVars(part = "request" /\ Request!Transport)
    /\ WF_requestVars(part = "request" /\ Request!Cancel)
    /\ WF_requestVars(part = "request" /\ Request!Caller)
    /\ WF_requestVars(part = "request" /\ Request!BodySender)
    /\ WF_requestVars(part = "request" /\ Request!AppReads)
    /\ WF_requestVars(part = "request" /\ Request!ServerRequest)
    /\ SF_requestVars(part = "request" /\ Request!HandlerEnds)
    /\ WF_handshakeVars(part = "handshake" /\ Hs!RepeatedArrives)
    /\ WF_handshakeVars(part = "handshake" /\ Hs!ClientSends)
    /\ WF_handshakeVars(part = "handshake" /\ Hs!ProcessUndecryptable)

MCSpec == MCInit /\ [][MCNext]_mcVars /\ MCFairness

------------------------------------------------------------------------------
\* The one kind of request: an ordinary request with a function CheckSettings.
MCKinds == {[get0RTT |-> FALSE, checkSettings |-> TRUE]}

\* Close calls of a listener, a Transport and a failing socket return, so do the requests of an
\* HTTP/3 client but those that wait for HandshakeComplete of a connection that ended, and all
\* that runs for a request ends (Server, HTTP3Client, HTTP3Stream).
CallsReturn ==
    <>[](/\ part = "server" => NoCloseCallIsWaiting
         /\ part = "client" => RequestsHaveReturned
         /\ part = "request" => Request!RequestHasEnded)

\* connection.go: on a path that may lose each packet its sender can no longer repeat, keys are not
\* dropped while they are needed: both sides confirm the handshake (Handshake).
HandshakeIsConfirmed == part = "handshake" => Hs!HandshakeIsConfirmed
==============================================================================
