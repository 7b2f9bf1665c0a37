----------------------------- MODULE Handshake -----------------------------
(***************************************************************************)
(* The handshake of a client with a server: Version Negotiation and Retry, *)
(* the encryption levels each side can read and write, packets that arrive *)
(* before their keys, completion and confirmation, and 0-RTT.              *)
(* TLS is external: the ClientHello (CH1, CH2: two CRYPTO frames), the     *)
(* ServerHello (SH), the server's Handshake messages (HSF) and the         *)
(* client's Finished (FIN) make keys available.  HACK is a Handshake       *)
(* packet with an ACK only, EARLY and DATA are 1-RTT data, ACK1 is a 1-RTT *)
(* ACK for 1-RTT data, DONE is HANDSHAKE_DONE.  The network keeps every    *)
(* datagram and delivers it at any time and any number of times, or never; *)
(* so a packet is sent as soon as it can be, unless sending drops keys.    *)
(* A connection of the server is named by the connection ID that its       *)
(* Initial keys are derived from: Orig, or the ID of a Retry.              *)
(***************************************************************************)
EXTENDS Integers, Sequences, FiniteSets, SequencesExt

CONSTANTS
    Orig, RetryIDs,        \* connection IDs
    None,
    Use0RTT,               \* the client has a session ticket and uses 0-RTT
    OldVersion,            \* the client may start with a version the server does not support
    MaxUndecryptablePackets,
    Coalesced              \* the server may send SH and HSF in one datagram

VARIABLES hsClient, hsServers, hsNet

hsVars == <<hsClient, hsServers, hsNet>>

ServerIDs == {Orig} \cup RetryIDs

level(part) ==
    CASE part \in {"CH1", "CH2", "SH"} -> "Initial"
      [] part = "0RTT" -> "0-RTT"
      [] part \in {"HSF", "FIN", "HACK"} -> "Handshake"
      [] OTHER -> "1-RTT"

\* A connection: levels it reads and writes, the queues of undecryptable packets,
\* and the parts it handled.
newConnection(started) ==
    [started |-> started, read |-> {"Initial"}, write |-> {"Initial"},
     undecryptable |-> <<>>, toProcess |-> <<>>, lost |-> {},
     complete |-> FALSE, confirmed |-> FALSE, handled |-> {}, err |-> None,
     used0RTT |-> FALSE, retrySrc |-> None]

\* The client, for a version: keys is the ID of its Initial keys, peer the server's
\* connection whose ServerHello it got.
newClientConnection(version, negotiated) ==
    [conn |-> [newConnection(TRUE) EXCEPT !.write = IF Use0RTT THEN {"Initial", "0-RTT"} ELSE {"Initial"}],
     version |-> version, versionNegotiated |-> negotiated,
     keys |-> Orig, peer |-> None, token |-> None]

-----------------------------------------------------------------------------
(* Keys *)

\* The getters of cryptoSetup: is the opener there, not yet there, or dropped?
opener(c, lvl) ==
    IF lvl \in c.read THEN "available"
    ELSE IF lvl = "Initial" THEN "dropped"
    ELSE IF lvl = "1-RTT" \/ "Initial" \in c.read THEN "not yet"
    ELSE "dropped"

dropKeys(c, lvl) == [c EXCEPT !.read = @ \ {lvl}, !.write = @ \ {lvl}]

\* EventReceivedReadKeys: what waited is to be processed.
receivedReadKeys(c, lvl) ==
    [c EXCEPT !.read = @ \cup {lvl}, !.lost = @ \cup Range(c.toProcess),
              !.toProcess = c.undecryptable, !.undecryptable = <<>>]

\* tryQueueingUndecryptablePacket
tryQueueing(c, part) ==
    IF c.complete THEN [c EXCEPT !.err = "queued after completion"]
    ELSE IF Len(c.undecryptable) >= MaxUndecryptablePackets THEN c
    ELSE [c EXCEPT !.undecryptable = Append(@, part)]

-----------------------------------------------------------------------------
(* Packets *)

\* Mutant: the client drops its Handshake keys when the handshake completes.
confirmsOnCompletionAlways(isClient) == TRUE

\* The handshake is confirmed for the server when it completes.
confirmsOnCompletion(isClient) == ~isClient

handleHandshakeConfirmed(c) == [dropKeys(c, "Handshake") EXCEPT !.confirmed = TRUE]

\* handleHandshakeComplete; it follows the frames of the packet.
handleHandshakeComplete(c, isClient) ==
    LET d == [c EXCEPT !.complete = TRUE, !.undecryptable = <<>>]
    IN  IF confirmsOnCompletion(isClient) THEN handleHandshakeConfirmed(d) ELSE d

\* TLS has the ClientHello: perhaps 0-RTT keys, then Handshake keys.
serverHello(c, accepts0RTT) ==
    LET early == IF accepts0RTT THEN [receivedReadKeys(c, "0-RTT") EXCEPT !.used0RTT = TRUE] ELSE c
    IN  [receivedReadKeys(early, "Handshake") EXCEPT !.write = @ \cup {"Handshake", "1-RTT"}]

\* The server's answer settles 0-RTT: the client's 0-RTT keys are of no use any more.
settle0RTT(c, accepted) == [c EXCEPT !.write = @ \ {"0-RTT"}, !.used0RTT = Use0RTT /\ accepted]

\* TLS has the server's messages.  The client checks the transport parameters and
\* takes the 1-RTT keys.
serverFinished(c, accepted, retrySrc) ==
    IF c.retrySrc # retrySrc THEN [c EXCEPT !.err = "transport parameters"]
    ELSE handleHandshakeComplete(
           [receivedReadKeys(settle0RTT(c, accepted), "1-RTT") EXCEPT !.write = @ \cup {"1-RTT"}], TRUE)

\* The crypto stream gives a message to TLS when all of it is there.
hasClientHello(c) == {"CH1", "CH2"} \subseteq c.handled

\* HandleMessage, with the events of TLS that follow.
handleCryptoFrame(c, part, accepts0RTT, retrySrc) ==
    CASE part \in {"CH1", "CH2"} -> IF hasClientHello(c) THEN serverHello(c, accepts0RTT) ELSE c
      [] part = "SH" -> [receivedReadKeys(c, "Handshake") EXCEPT !.write = @ \cup {"Handshake"}]
      [] part = "HSF" -> serverFinished(c, accepts0RTT, retrySrc)
      [] part = "FIN" -> handleHandshakeComplete(receivedReadKeys(c, "1-RTT"), FALSE)

\* HANDSHAKE_DONE, or an ACK for 1-RTT data.
handleConfirmation(c) == IF c.confirmed THEN c ELSE handleHandshakeConfirmed(c)

(* The frames of a packet that was opened.  What was handled before        *)
(* changes nothing.                                                        *)
handleFrames(c, part, accepts0RTT, retrySrc) ==
    LET d == [c EXCEPT !.handled = @ \cup {part}]
    IN  CASE part \in c.handled -> c
          [] part \in {"CH1", "CH2", "SH", "HSF", "FIN"} -> handleCryptoFrame(d, part, accepts0RTT, retrySrc)
          [] part \in {"DONE", "ACK1"} -> handleConfirmation(d)
          [] OTHER -> d

\* The server drops Initial keys with the first Handshake packet it receives.
dropsInitial(c, part, isClient) == ~isClient /\ level(part) = "Handshake" /\ "Initial" \in c.read

\* handleLongHeaderPacket, handleShortHeaderPacket and handleUnpackError.
\* sameKeys: the packet was protected with the keys of this connection.
handlePacket(c, part, isClient, sameKeys, accepts0RTT, retrySrc) ==
    CASE isClient /\ part = "0RTT" -> c
      [] opener(c, level(part)) = "dropped" -> c
      [] opener(c, level(part)) = "not yet" -> tryQueueing(c, part)
      [] OTHER -> IF ~sameKeys THEN c
                  ELSE LET d == handleFrames(c, part, accepts0RTT, retrySrc)
                       IN  IF dropsInitial(d, part, isClient) THEN dropKeys(d, "Initial") ELSE d

-----------------------------------------------------------------------------
(* Server *)

VersionNegotiation == [retry |-> None, token |-> None]

clientPackets == {d \in hsNet : "to" \in DOMAIN d /\ d.to \in ServerIDs}
serverPackets == {d \in hsNet : "from" \in DOMAIN d}
retryPackets == {d \in hsNet : "retry" \in DOMAIN d /\ d.retry # None}

\* What a connection of the server sends: CRYPTO data of a level until its keys are
\* dropped, 1-RTT data, and HANDSHAKE_DONE once the handshake completed.
serverDatagrams(c) ==
    IF ~c.started THEN {}
    ELSE {<<p>> : p \in {q \in {"SH", "HSF", "EARLY", "ACK1", "DONE"} :
                           /\ level(q) \in c.write
                           /\ q \in {"SH", "HSF"} => hasClientHello(c)
                           /\ q = "ACK1" => "DATA" \in c.handled
                           /\ q = "DONE" => c.complete}}
         \cup (IF Coalesced /\ {"Initial", "Handshake"} \subseteq c.write THEN {<<"SH", "HSF">>} ELSE {})

serverSends(id, c) == {[from |-> id, parts |-> parts, used0RTT |-> c.used0RTT] : parts \in serverDatagrams(c)}

ServerBecomes(id, c) ==
    /\ hsServers' = [hsServers EXCEPT ![id] = c]
    /\ hsNet' = hsNet \cup serverSends(id, c)
    /\ UNCHANGED hsClient

\* The server gets an Initial packet for which it has no connection: Version
\* Negotiation, Retry (VerifySourceAddress) or a new connection.
ServerGetsInitial(d) ==
    /\ d.parts \in {<<"CH1">>, <<"CH2">>} /\ ~hsServers[d.to].started
    /\ IF d.version = "old"
       THEN hsNet' = hsNet \cup {VersionNegotiation} /\ UNCHANGED <<hsServers, hsClient>>
       ELSE \/ /\ d.token = None
               /\ \E id \in RetryIDs : hsNet' = hsNet \cup {[retry |-> id, token |-> id]}
               /\ UNCHANGED <<hsServers, hsClient>>
            \/ ServerBecomes(d.to, handlePacket([newConnection(TRUE) EXCEPT !.retrySrc = d.token],
                                                d.parts[1], FALSE, TRUE, FALSE, None))

\* A connection of the server handles a datagram, after those it has to process.  It drops a
\* packet of another version than its own.
ServerReceive(d) ==
    LET old == hsServers[d.to]
    IN  /\ old.started /\ old.toProcess = <<>> /\ old.err = None
        /\ d.version = "new"
        /\ \E accepts \in (IF Use0RTT THEN BOOLEAN ELSE {FALSE}) :
             ServerBecomes(d.to, FoldLeft(LAMBDA c, part : handlePacket(c, part, FALSE, TRUE, accepts, None),
                                          old, d.parts))

ServerProcessUndecryptable(id) ==
    LET old == hsServers[id]
    IN  /\ old.toProcess # <<>> /\ old.err = None
        /\ ServerBecomes(id, FoldLeft(LAMBDA c, part : handlePacket(c, part, FALSE, TRUE, FALSE, None),
                                      [old EXCEPT !.toProcess = <<>>], old.toProcess))

\* Get1RTTOpener drops the 0-RTT keys some time after completion.
ServerDrops0RTT(id) ==
    /\ hsServers[id].complete /\ "0-RTT" \in hsServers[id].read
    /\ ServerBecomes(id, [hsServers[id] EXCEPT !.read = @ \ {"0-RTT"}])

-----------------------------------------------------------------------------
(* Client *)

\* What the client sends without dropping keys, and what drops its Initial keys.
clientDatagrams(cl) ==
    {parts \in {<<"CH1">>, <<"CH2">>, <<"0RTT">>, <<"DATA">>} :
       level(parts[1]) \in cl.conn.write /\ (parts[1] = "DATA" => cl.conn.complete)}
handshakeDatagrams(cl) ==
    {parts \in {<<"HACK">>, <<"FIN">>, <<"FIN", "DATA">>} :
       "Handshake" \in cl.conn.write /\ (parts[1] = "FIN" => cl.conn.complete)}

datagram(cl, parts) == [to |-> cl.keys, parts |-> parts, version |-> cl.version, token |-> cl.token]

ClientBecomes(cl, sent) ==
    /\ hsClient' = cl
    /\ hsNet' = hsNet \cup {datagram(cl, parts) : parts \in sent \cup clientDatagrams(cl)}
    /\ UNCHANGED hsServers

\* Mutant: the Handshake keys are dropped as well when the Finished was sent.
droppedBySendingFinished(conn, parts) ==
    IF parts[1] = "FIN" THEN dropKeys(dropKeys(conn, "Initial"), "Handshake") ELSE dropKeys(conn, "Initial")

\* sendPackedCoalescedPacket: with the first Handshake packet the Initial keys are dropped.
droppedBySending(conn, parts) == dropKeys(conn, "Initial")

ClientSendHandshake(parts) ==
    /\ hsClient.conn.err = None /\ parts \in handshakeDatagrams(hsClient)
    /\ ClientBecomes([hsClient EXCEPT !.conn = droppedBySending(@, parts)], {parts})

\* sameKeys for the client: Initial keys come from an ID, the others from the
\* ServerHello it handled.
clientKeys(cl, d, part) == d.from = IF level(part) = "Initial" THEN cl.keys ELSE cl.peer

clientHandles(cl, d, part) ==
    LET conn == handlePacket(cl.conn, part, TRUE, clientKeys(cl, d, part), d.used0RTT, hsServers[d.from].retrySrc)
    IN  [cl EXCEPT !.conn = conn, !.peer = IF @ = None /\ "SH" \in conn.handled THEN d.from ELSE @]

ClientReceive(d) ==
    /\ hsClient.conn.err = None /\ hsClient.conn.toProcess = <<>>
    /\ ClientBecomes(FoldLeft(LAMBDA cl, part : clientHandles(cl, d, part), hsClient, d.parts), {})

\* Undecryptable packets are processed; one that did not come from the connection that
\* is the peer now cannot be opened, and is as good as lost.
ClientProcessUndecryptable ==
    LET todo == hsClient.conn.toProcess
        d == [from |-> hsClient.peer, used0RTT |-> hsServers[hsClient.peer].used0RTT]
    IN  /\ todo # <<>> /\ hsClient.conn.err = None
        /\ ClientBecomes(FoldLeft(LAMBDA cl, part : clientHandles(cl, d, part),
                                  [hsClient EXCEPT !.conn.toProcess = <<>>], todo), {})

\* handleRetryPacket: only before the first packet, and only once.
retryAccepted(cl) == cl.conn.handled = {} /\ cl.token = None

HandleRetryPacket(r) ==
    /\ retryAccepted(hsClient) /\ hsClient.conn.err = None
    /\ ClientBecomes([hsClient EXCEPT !.token = r.token, !.keys = r.retry, !.conn.retrySrc = r.retry], {})

\* handleVersionNegotiationPacket: before the first packet, once, and not when it
\* offers the version in use.
versionChanges(cl) == cl.conn.handled = {} /\ ~cl.versionNegotiated /\ cl.version = "old"

\* The connection is closed to be recreated by dial.
HandleVersionNegotiation ==
    /\ VersionNegotiation \in hsNet
    /\ versionChanges(hsClient)
    /\ ClientBecomes(newClientConnection("new", TRUE), {})

-----------------------------------------------------------------------------
Init ==
    /\ hsClient \in {newClientConnection(v, FALSE) : v \in IF OldVersion THEN {"old", "new"} ELSE {"new"}}
    /\ hsServers = [id \in ServerIDs |-> newConnection(FALSE)]
    /\ hsNet = {datagram(hsClient, parts) : parts \in clientDatagrams(hsClient)}

ClientSends == \E parts \in {<<"HACK">>, <<"FIN">>, <<"FIN", "DATA">>} : ClientSendHandshake(parts)
ProcessUndecryptable == ClientProcessUndecryptable \/ \E id \in ServerIDs : ServerProcessUndecryptable(id)

Next ==
    \/ ClientSends
    \/ \E d \in clientPackets : ServerGetsInitial(d) \/ ServerReceive(d)
    \/ ProcessUndecryptable
    \/ \E id \in ServerIDs : ServerDrops0RTT(id)
    \/ \E d \in serverPackets : ClientReceive(d)
    \/ \E d \in retryPackets : HandleRetryPacket(d)
    \/ HandleVersionNegotiation

(* The path loses packets, and a sender repeats what was lost only as long *)
(* as it has the keys to do so.  The client repeats what its keys are for; *)
(* a connection of the server does too, and the server answers a repeated  *)
(* Initial packet again for which it has no connection.                    *)
isRepeated(d) ==
    CASE d \in clientPackets ->
            d \in {datagram(hsClient, parts) : parts \in clientDatagrams(hsClient) \cup handshakeDatagrams(hsClient)}
      [] d \in serverPackets -> d \in serverSends(d.from, hsServers[d.from])
      [] OTHER -> ~hsServers[hsClient.keys].started

RepeatedArrives ==
    \/ \E d \in clientPackets : isRepeated(d) /\ (ServerGetsInitial(d) \/ ServerReceive(d))
    \/ \E d \in serverPackets : isRepeated(d) /\ ClientReceive(d)
    \/ \E d \in retryPackets : isRepeated(d) /\ HandleRetryPacket(d)
    \/ isRepeated(VersionNegotiation) /\ HandleVersionNegotiation

\* What is repeated arrives in the end, the client sends what it can, and a connection that has
\* packets to process does so.  A packet that its sender cannot repeat may be lost for good.
Spec ==
    /\ Init /\ [][Next]_hsVars
    /\ WF_hsVars(RepeatedArrives) /\ WF_hsVars(ClientSends) /\ WF_hsVars(ProcessUndecryptable)

-----------------------------------------------------------------------------
\* Whatever is lost, repeated, reordered or answered twice: neither side closes the
\* connection with an error, and no packet is queued for keys after completion.
HandshakeHasNoError ==
    /\ hsClient.conn.err = None
    /\ \A id \in ServerIDs : hsServers[id].err = None

\* Neither side drops keys while the other may still need a packet that only they can repeat: the
\* handshake is confirmed on both sides in the end, although each packet may be lost.
HandshakeIsConfirmed ==
    <>(hsClient.conn.confirmed /\ hsClient.peer # None /\ hsServers[hsClient.peer].confirmed)

\* connection.go, handleHandshakeEvents: "Queue all packets for decryption that have
\* been undecryptable so far."
UndecryptableAreProcessed ==
    /\ hsClient.conn.lost = {}
    /\ \A id \in ServerIDs : hsServers[id].lost = {}
=============================================================================
