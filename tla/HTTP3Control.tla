----------------------------- MODULE HTTP3Control -----------------------------
(***************************************************************************)
(* The unidirectional streams a peer opens on an HTTP/3 connection, as     *)
(* handleUnidirectionalStreams of the client (http3/client.go) and of the  *)
(* server (http3/server.go) treat them: a goroutine per stream reads the   *)
(* stream's type, the first control stream's SETTINGS frame is parsed and, *)
(* on the client, announced by closing the channel receivedSettings.  The  *)
(* peer may open any streams and send anything on them.                    *)
(***************************************************************************)
EXTENDS Integers, FiniteSets, Sequences

CONSTANTS
    Streams,               \* unidirectional streams of the peer
    SettingsFrames         \* SETTINGS frames it may send: sequences of <<id, value>>

VARIABLES
    isClient,
    enableDatagram,        \* our side enabled HTTP datagrams
    supportsDatagrams,     \* the transports negotiated QUIC datagrams
    handshakeComplete,
    uni,                   \* per stream, what its goroutine does next
    rcvdControlStream,
    settings,              \* the peer's settings, or NoSettings
    settingsClosed,        \* how often receivedSettings was closed
    closeError             \* the error the connection was closed with, or "none"

h3tVars == <<isClient, enableDatagram, supportsDatagrams, handshakeComplete, uni, rcvdControlStream,
             settings, settingsClosed, closeError>>

settingExtendedConnect == 8
settingDatagram == 33
NoSettings == [datagram |-> FALSE, extendedConnect |-> FALSE, other |-> {}, received |-> FALSE]

Init ==
    /\ isClient \in BOOLEAN /\ enableDatagram \in BOOLEAN /\ supportsDatagrams \in BOOLEAN
    /\ handshakeComplete = FALSE
    /\ uni = [i \in Streams |-> "unopened"]
    /\ rcvdControlStream = FALSE
    /\ settings = NoSettings /\ settingsClosed = 0 /\ closeError = "none"

TypeOK ==
    /\ uni \in [Streams -> {"unopened", "type", "control", "frame", "datagram", "done"}]
    /\ settingsClosed \in Nat

\* conn.CloseWithError: the first error counts.
CloseWithError(e) == IF closeError = "none" THEN e ELSE closeError

open == closeError = "none"

\* The accept loop starts a goroutine per stream.
AcceptUniStream(i) ==
    /\ open /\ uni[i] = "unopened"
    /\ uni' = [uni EXCEPT ![i] = "type"]
    /\ UNCHANGED <<isClient, enableDatagram, supportsDatagrams, handshakeComplete, rcvdControlStream,
                   settings, settingsClosed, closeError>>

\* Only control streams go on: QPACK streams are ignored, an unknown stream is not read, a push
\* stream closes the connection, and a stream whose type cannot be read ends its goroutine.
ReadStreamType(i) ==
    /\ uni[i] = "type"
    /\ \E type \in {"control", "qpack", "push", "unknown", "failed"} :
          /\ uni' = [uni EXCEPT ![i] = IF type = "control" THEN "control" ELSE "done"]
          /\ closeError' = IF type # "push" THEN closeError
                           ELSE CloseWithError(IF isClient THEN "IDError" ELSE "StreamCreationError")
    /\ UNCHANGED <<isClient, enableDatagram, supportsDatagrams, handshakeComplete, rcvdControlStream,
                   settings, settingsClosed>>

\* rcvdControlStream.CompareAndSwap: only a single control stream is allowed.
isFirstAlways == TRUE
isFirstControlStr == ~rcvdControlStream

ClaimControlStream(i) ==
    /\ uni[i] = "control"
    /\ rcvdControlStream' = TRUE
    /\ uni' = [uni EXCEPT ![i] = IF isFirstControlStr THEN "frame" ELSE "done"]
    /\ closeError' = IF isFirstControlStr THEN closeError ELSE CloseWithError("StreamCreationError")
    /\ UNCHANGED <<isClient, enableDatagram, supportsDatagrams, handshakeComplete, settings, settingsClosed>>

\* parseSettingsFrame: a setting that is repeated, or a flag that is neither 0 nor 1, is an error.
isFlag(setting) == setting[1] \in {settingExtendedConnect, settingDatagram}

isInvalid(f) ==
    \/ \E j, k \in DOMAIN f : j # k /\ f[j][1] = f[k][1]
    \/ \E j \in DOMAIN f : isFlag(f[j]) /\ f[j][2] \notin {0, 1}

parseSettingsFrame(f) ==
    LET isSet(id) == \E j \in DOMAIN f : f[j] = <<id, 1>>
    IN  [datagram |-> isSet(settingDatagram), extendedConnect |-> isSet(settingExtendedConnect),
         other |-> {f[j] : j \in {k \in DOMAIN f : ~isFlag(f[k])}}, received |-> TRUE]

\* The first frame of the control stream must be a SETTINGS frame that can be parsed.  The client
\* announces it; HTTP datagrams that both sides want need the transport's support.
ReceiveSettings(i) ==
    /\ uni[i] = "frame"
    /\ \E f \in SettingsFrames :
       LET s == parseSettingsFrame(f)
       IN  IF isInvalid(f)
           THEN /\ closeError' = CloseWithError("FrameError")
                /\ uni' = [uni EXCEPT ![i] = "done"]
                /\ UNCHANGED <<settings, settingsClosed>>
           ELSE /\ settings' = IF isClient THEN s ELSE settings
                /\ settingsClosed' = IF isClient THEN settingsClosed + 1 ELSE settingsClosed
                /\ uni' = [uni EXCEPT ![i] = IF s.datagram /\ enableDatagram THEN "datagram" ELSE "done"]
                /\ UNCHANGED closeError
    /\ UNCHANGED <<isClient, enableDatagram, supportsDatagrams, handshakeComplete, rcvdControlStream>>

ReceiveOtherFrame(i) ==
    /\ uni[i] = "frame"
    /\ \E e \in {"FrameError", "MissingSettings"} : closeError' = CloseWithError(e)
    /\ uni' = [uni EXCEPT ![i] = "done"]
    /\ UNCHANGED <<isClient, enableDatagram, supportsDatagrams, handshakeComplete, rcvdControlStream,
                   settings, settingsClosed>>

\* ConnectionState blocks until the handshake is complete.
CheckDatagrams(i) ==
    /\ uni[i] = "datagram" /\ handshakeComplete
    /\ closeError' = IF supportsDatagrams THEN closeError ELSE CloseWithError("SettingsError")
    /\ uni' = [uni EXCEPT ![i] = "done"]
    /\ UNCHANGED <<isClient, enableDatagram, supportsDatagrams, handshakeComplete, rcvdControlStream,
                   settings, settingsClosed>>

CompleteHandshake ==
    /\ ~handshakeComplete
    /\ handshakeComplete' = TRUE
    /\ UNCHANGED <<isClient, enableDatagram, supportsDatagrams, uni, rcvdControlStream, settings,
                   settingsClosed, closeError>>

Next ==
    \/ CompleteHandshake
    \/ \E i \in Streams :
          \/ AcceptUniStream(i) \/ ReadStreamType(i) \/ ClaimControlStream(i)
          \/ ReceiveSettings(i) \/ ReceiveOtherFrame(i) \/ CheckDatagrams(i)

Spec == Init /\ [][Next]_h3tVars

\* receivedSettings is closed at most once (closing a channel twice panics), also when the peer opens
\* several control streams whose goroutines run at the same time, and it is closed only with the
\* settings in place; a connection that stays open has agreed on datagrams with the transport
\* (http3/client.go handleUnidirectionalStreams).
SettingsAreReceivedOnce ==
    /\ settingsClosed <= 1
    /\ settingsClosed = 1 => settings.received
    /\ open /\ settings.datagram /\ enableDatagram /\ (\A i \in Streams : uni[i] \in {"unopened", "done"}) =>
          supportsDatagrams
=============================================================================
