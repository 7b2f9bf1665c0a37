----------------------------- MODULE MCConnection -----------------------------
(***************************************************************************)
(* The components whose correctness is a matter of safety, from the        *)
(* streams to the server and the HTTP/3 body.  They share no state with    *)
(* each other here: a behaviour is one of one component, and this module   *)
(* gives each the constants it is checked with.                            *)
(***************************************************************************)
EXTENDS StreamsMap, KeyUpdate, ConnectionIDs, SendStream, ReceiveStream, Integers, Sequences

VARIABLES
    part,    \* the component that runs
    hsClient, hsServers, hsNet,
    isHead, handler, rw, clHeader, bufferedStr, wire, wireEnd, writes, sentBody, bodyReader,
    pos, bytesRemainingInFrame, limit, gotBody,
    isClient, enableDatagram, supportsDatagrams, handshakeComplete, uni, rcvdControlStream,
    settings, settingsClosed, closeError,
    serve, lnOpen, listeners, altSvcHeader, srvClosed,
    srvPackets, zeroRTTQueues, nextZeroRTTCleanup, replies, srvConns, srvHandlers, mapClosed,
    connQueue, accepted, errorChan, srvLoop, tServer, tClosed, tMutex, closeMx, listening,
    closerPC, srvClock, arrivals,
    ring, headPos, tailPos, full, pushed, queued,
    q, caches, put, usable, popped

Hs == INSTANCE Handshake WITH
    None <- "none", Orig <- "orig", RetryIDs <- {"r1"}, Use0RTT <- TRUE, OldVersion <- TRUE,
    MaxUndecryptablePackets <- 1, Coalesced <- FALSE

Body == INSTANCE HTTP3Body WITH
    Statuses <- {20, 21}, ContentLengths <- {0, 2, 3}, WriteSizes <- 0 .. 3,
    ReadSizes <- {1, 2, 8}, BufioSize <- 4, MaxHeaderBytes <- 4, MaxBody <- 4, MaxWrites <- 3,
    reader <- bodyReader

Control == INSTANCE HTTP3Control WITH
    Streams <- {"u1", "u2", "u3"},
    SettingsFrames <- {<<>>, <<<<33, 1>>, <<8, 1>>>>, <<<<8, 2>>>>, <<<<5, 7>>, <<5, 7>>>>}

H3Server == INSTANCE HTTP3Server WITH
    Serves <- {"l1", "l2", "l3"}

Server == INSTANCE Server WITH
    ClientIDs <- {"c1", "c2"}, MaxServerUnprocessedPackets <- 1, MaxAcceptQueueSize <- 1,
    Max0RTTQueues <- 1, Max0RTTQueueLen <- 1, ReplyQueueSize <- 1, Max0RTTQueueingDuration <- 0,
    MaxArrivals <- 2, MaxConns <- 1, MaxSrvTime <- 2, SingleUse <- FALSE, Collisions <- FALSE

Ring == INSTANCE RingBuffer WITH
    RingSizes <- {0, 2, 3}, MaxPushed <- 8

Tokens == INSTANCE TokenStore WITH
    Origins <- {"h1", "h2", "h3"}, Capacity <- 2, SingleOriginSize <- 2, MaxPut <- 5

handshakeVars == <<
    hsClient, hsServers, hsNet>>
bodyVars == <<
    isHead, handler, rw, clHeader, bufferedStr, wire, wireEnd, writes, sentBody, bodyReader,
    pos, bytesRemainingInFrame, limit, gotBody>>
controlVars == <<
    isClient, enableDatagram, supportsDatagrams, handshakeComplete, uni, rcvdControlStream,
    settings, settingsClosed, closeError>>
h3serverVars == <<
    serve, lnOpen, listeners, altSvcHeader, srvClosed>>
serverVars == <<
    srvPackets, zeroRTTQueues, nextZeroRTTCleanup, replies, srvConns, srvHandlers, mapClosed,
    connQueue, accepted, errorChan, srvLoop, tServer, tClosed, tMutex, closeMx, listening,
    closerPC, srvClock, arrivals>>
ringVars == <<
    ring, headPos, tailPos, full, pushed, queued>>
tokensVars == <<
    q, caches, put, usable, popped>>
mcVars == <<part, sndVars, rcvVars, mapVars, cidVars, kuVars, handshakeVars, bodyVars, controlVars, h3serverVars, serverVars, ringVars, tokensVars>>

MCInit ==
    /\ part \in {"send", "receive", "streams", "connIDs", "keys", "handshake", "body", "control", "h3server", "server", "ring", "tokens"}
    /\ SendInit
    /\ part # "send" => sendWindow = 2
    /\ RecvInit
    /\ MapInit
    /\ part # "streams" => maxStream = 1
    /\ IDInit
    /\ KeysInit
    /\ Hs!Init
    /\ part # "handshake" => hsClient.version = "new"
    /\ Body!Init
    /\ part # "body" => ~isHead
    /\ Control!Init
    /\ part # "control" => isClient /\ enableDatagram /\ supportsDatagrams
    /\ H3Server!Init
    /\ Server!ServerInit
    /\ Ring!Init
    /\ part # "ring" => ring = <<>>
    /\ Tokens!Init

MCNext ==
    /\ UNCHANGED part
    /\ \/ part = "send" /\ SendNext
       \/ part # "send" /\ UNCHANGED sndVars
    /\ \/ part = "receive" /\ RecvNext
       \/ part # "receive" /\ UNCHANGED rcvVars
    /\ \/ part = "streams" /\ MapNext
       \/ part # "streams" /\ UNCHANGED mapVars
    /\ \/ part = "connIDs" /\ IDNext
       \/ part # "connIDs" /\ UNCHANGED cidVars
    /\ \/ part = "keys" /\ KeysNext
       \/ part # "keys" /\ UNCHANGED kuVars
    /\ \/ part = "handshake" /\ Hs!Next
       \/ part # "handshake" /\ UNCHANGED handshakeVars
    /\ \/ part = "body" /\ Body!Next
       \/ part # "body" /\ UNCHANGED bodyVars
    /\ \/ part = "control" /\ Control!Next
       \/ part # "control" /\ UNCHANGED controlVars
    /\ \/ part = "h3server" /\ H3Server!Next
       \/ part # "h3server" /\ UNCHANGED h3serverVars
    /\ \/ part = "server" /\ Server!ServerNext
       \/ part # "server" /\ UNCHANGED serverVars
    /\ \/ part = "ring" /\ Ring!Next
       \/ part # "ring" /\ UNCHANGED ringVars
    /\ \/ part = "tokens" /\ Tokens!Next
       \/ part # "tokens" /\ UNCHANGED tokensVars

MCSpec == MCInit /\ [][MCNext]_mcVars

------------------------------------------------------------------------------
\* Packets an endpoint seals (KeyUpdate).
MCMaxSealed == [client |-> 3, server |-> 2]

\* readChan, writeChan and waitChan: a Read, Write or OpenStreamSync call that waits without a
\* signal on its way has nothing to return (ReceiveStream, SendStream, StreamsMap).
WaitingCallsAreBlocked ==
    /\ part = "receive" => WaitingReadHasNothing
    /\ part = "send" => WaitingWriteIsBlocked
    /\ part = "streams" => OpenerIsWoken

\* onStreamCompleted and the final size: both halves of a stream end once, when they should and
\* with what was sent (ReceiveStream, SendStream).
StreamsEndOnce ==
    /\ part = "receive" => StreamEndsOnce
    /\ part = "send" => EndOfStream

\* connection.go: neither endpoint closes the connection for what the other, or an old packet,
\* sent during the handshake (Handshake).
HandshakeHasNoError == part = "handshake" => Hs!HandshakeHasNoError

\* http3/response_writer.go and http_stream.go: the client reads the body that the handler wrote,
\* and no more of it than Content-Length announces (HTTP3Body).
BodyArrives == part = "body" => Body!BodyArrives /\ Body!ContentLengthIsKept

\* server.go, http3/server.go and client.go: early packets wait for no longer than they should,
\* SETTINGS are taken once, from the one control stream, and an HTTP/3 server that was closed
\* serves no listener (Server, HTTP3Control, HTTP3Server).
EndpointStateIsKept ==
    /\ part = "server" => Server!EarlyDataExpires
    /\ part = "control" => Control!SettingsAreReceivedOnce
    /\ part = "h3server" => H3Server!ClosedServerServesNothing

\* ringbuffer.go and token_store.go: the ring is a queue that grows, and a token that is popped is
\* the newest one kept for its origin (RingBuffer, TokenStore).
ContainersKeepContent ==
    /\ part = "ring" => Ring!RingIsQueue
    /\ part = "tokens" => Tokens!TokensAreNewest
==============================================================================
