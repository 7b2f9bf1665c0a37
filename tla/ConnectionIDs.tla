--------------------------- MODULE ConnectionIDs ---------------------------
(***************************************************************************)
(* The connection IDs an issuer (a server) gives to its peer: the issuer's *)
(* connIDGenerator and the entries of its packetHandlerMap, and the peer's *)
(* connIDManager.  A connection ID is its sequence number; InitialID is    *)
(* the one the client chose.  NEW_CONNECTION_ID frames arrive in any order *)
(* and repeatedly; packets that carry RETIRE_CONNECTION_ID frames arrive   *)
(* in any order, or are lost and their frames sent again.                  *)
(***************************************************************************)
EXTENDS Integers, FiniteSets, FiniteSetsExt

CONSTANTS
    MaxActiveConnectionIDs,  \* what the manager stores, and announces as limit
    MaxIssuedConnectionIDs,
    MaxSeq,                  \* bound: sequence numbers issued
    MaxOnPath,               \* bound: packets on their way
    RetirePriorTos           \* values other implementations put into RetirePriorTo; 0 is this one's

ASSUME IDLimitAssumption ==
    MaxActiveConnectionIDs \in Nat \ {0} /\ MaxIssuedConnectionIDs \in Nat \ {0}
ASSUME IDBoundAssumption == MaxSeq \in Nat /\ MaxOnPath \in Nat /\ RetirePriorTos \subseteq Nat

VARIABLES
    highestSeq, activeSrcConnIDs,
    initialClientDest,       \* initialClientDestConnID # nil
    handlers,                \* packetHandlerMap: what handles the packets of an ID
    retiring,                \* IDs with a timer that deletes their entry
    srcClosed,
    newFrames,               \* NEW_CONNECTION_ID frames sent
    activeSeq, cidQueue, highestRetired, cidHandshakeComplete,  \* the manager
    resetTokens,             \* tokens the manager's packetHandlerMap knows
    hasResetToken,           \* activeStatelessResetToken # nil
    toRetire,                \* RETIRE_CONNECTION_ID frames to send
    cidPath,                 \* packets on their way to the issuer
    cidErr, dstClosed

srcVars == <<highestSeq, activeSrcConnIDs, initialClientDest, handlers, retiring, srcClosed, newFrames>>
dstVars == <<activeSeq, cidQueue, highestRetired, cidHandshakeComplete, resetTokens, hasResetToken,
             toRetire, dstClosed>>
cidVars == <<srcVars, dstVars, cidPath, cidErr>>

InitialID == -1
Larger(a, b) == IF a > b THEN a ELSE b

-----------------------------------------------------------------------------
(* Issuer *)

\* issueNewConnID, n times.
issueNewConnIDs(n, active, handled, prior) ==
    LET seqs == (highestSeq + 1) .. (highestSeq + n)
    IN  /\ highestSeq' = highestSeq + n
        /\ activeSrcConnIDs' = active \cup seqs
        /\ handlers' = [id \in DOMAIN handled \cup seqs |-> IF id \in seqs THEN "conn" ELSE handled[id]]
        /\ newFrames' = newFrames \cup {[seq |-> s, prior |-> prior] : s \in seqs}

\* The peer's active_connection_id_limit arrives; the ID of the handshake counts.
SetMaxActiveConnIDs ==
    /\ highestSeq = 0 /\ ~srcClosed
    /\ \E limit \in {MaxActiveConnectionIDs} :
         issueNewConnIDs((IF limit < MaxIssuedConnectionIDs THEN limit ELSE MaxIssuedConnectionIDs)
                           - Cardinality(activeSrcConnIDs), activeSrcConnIDs, handlers, 0)
    /\ UNCHANGED <<initialClientDest, retiring, srcClosed, dstVars, cidPath, cidErr>>

\* Retire issues no replacement for the initial connection ID.
isReplaced(seq) == seq # 0

(* Retire, for one RETIRE_CONNECTION_ID frame of a packet sent to dest.    *)
Retire(seq, dest, prior) ==
    IF seq > highestSeq \/ (seq \in activeSrcConnIDs /\ seq = dest)
    THEN cidErr' = TRUE /\ UNCHANGED <<highestSeq, activeSrcConnIDs, handlers, newFrames, retiring>>
    ELSE /\ IF seq \in activeSrcConnIDs
            THEN /\ retiring' = retiring \cup {seq}
                 /\ issueNewConnIDs(IF isReplaced(seq) /\ highestSeq < MaxSeq THEN 1 ELSE 0,
                                    activeSrcConnIDs \ {seq}, handlers, prior)
            ELSE UNCHANGED <<highestSeq, activeSrcConnIDs, handlers, newFrames, retiring>>
         /\ UNCHANGED cidErr

\* A packet arrives and is handled by the connection.
HandlePacketOf(p) ==
    /\ ~srcClosed
    /\ cidPath' = cidPath \ {p}
    /\ IF p.dest \in DOMAIN handlers /\ handlers[p.dest] = "conn" /\ p.retire # InitialID
       THEN \E prior \in {r \in RetirePriorTos : r <= highestSeq + 1} : Retire(p.retire, p.dest, prior)
       ELSE UNCHANGED <<highestSeq, activeSrcConnIDs, handlers, newFrames, retiring, cidErr>>
    /\ UNCHANGED <<initialClientDest, srcClosed, dstVars>>

\* connIDGenerator.SetHandshakeComplete: the client's ID is retired.
SrcHandshakeComplete ==
    /\ initialClientDest /\ ~srcClosed
    /\ initialClientDest' = FALSE
    /\ retiring' = retiring \cup {InitialID}
    /\ UNCHANGED <<highestSeq, activeSrcConnIDs, handlers, srcClosed, newFrames, dstVars, cidPath, cidErr>>

\* The timer of packetHandlerMap.Retire or ReplaceWithClosed.  It outlasts every
\* packet sent with the ID (RetiredConnectionIDDeleteTimeout).
RetireTimer(id) ==
    /\ \A p \in cidPath : p.dest # id
    /\ retiring' = retiring \ {id}
    /\ handlers' = [i \in DOMAIN handlers \ {id} |-> handlers[i]]
    /\ UNCHANGED <<highestSeq, activeSrcConnIDs, initialClientDest, srcClosed, newFrames, dstVars,
                   cidPath, cidErr>>

\* Mutant: the ID that the client chose is forgotten when the connection is closed.
srcIDsWithoutInitial == activeSrcConnIDs

srcIDs == activeSrcConnIDs \cup (IF initialClientDest THEN {InitialID} ELSE {})

\* RemoveAll, for a connection that is destroyed, or ReplaceWithClosed.
CloseSource(by) ==
    /\ ~srcClosed
    /\ srcClosed' = TRUE
    /\ IF by = "destroy"
       THEN handlers' = [i \in DOMAIN handlers \ srcIDs |-> handlers[i]] /\ UNCHANGED retiring
       ELSE /\ handlers' = [i \in DOMAIN handlers \cup srcIDs |-> IF i \in srcIDs THEN by ELSE handlers[i]]
            /\ retiring' = retiring \cup srcIDs
    /\ UNCHANGED <<highestSeq, activeSrcConnIDs, initialClientDest, newFrames, dstVars, cidPath, cidErr>>

-----------------------------------------------------------------------------
(* Manager *)

\* updateConnectionID: use the first ID of the queue; frames are the retirements
\* queued so far, sent the ones that leave in the packet that is being packed.
updateConnectionID(queue, retired, frames, sent) ==
    /\ toRetire' = (frames \cup {activeSeq}) \ sent
    /\ highestRetired' = Larger(retired, activeSeq)
    /\ activeSeq' = Min(queue)
    /\ cidQueue' = queue \ {Min(queue)}
    /\ hasResetToken' = TRUE
    /\ resetTokens' = (resetTokens \ (IF hasResetToken THEN {activeSeq} ELSE {})) \cup {Min(queue)}

\* A frame with a number below the active one or one already retired.
isOvertaken(f) == f.seq < activeSeq \/ f.seq < highestRetired

\* Add; the frame comes in a 1-RTT packet.
AddNewConnectionID(f) ==
    LET prior == f.prior > highestRetired
        retired == IF prior THEN {s \in cidQueue : s < f.prior} ELSE {}
        highest == IF prior THEN f.prior ELSE highestRetired
        queue == (cidQueue \ retired) \cup (IF f.seq = activeSeq THEN {} ELSE {f.seq})
    IN  /\ cidHandshakeComplete /\ ~dstClosed
        /\ IF isOvertaken(f)
           THEN /\ toRetire' = toRetire \cup {f.seq}
                /\ UNCHANGED <<cidQueue, highestRetired, activeSeq, resetTokens, hasResetToken>>
           ELSE IF f.seq # activeSeq /\ activeSeq < f.prior
           THEN updateConnectionID(queue, highest, toRetire \cup retired, {})
           ELSE /\ toRetire' = toRetire \cup retired
                /\ highestRetired' = highest
                /\ cidQueue' = queue
                /\ UNCHANGED <<activeSeq, resetTokens, hasResetToken>>
        /\ cidErr' = (cidErr \/ Cardinality(cidQueue') >= MaxActiveConnectionIDs)
        /\ UNCHANGED <<srcVars, cidHandshakeComplete, cidPath, dstClosed>>

\* SetHandshakeComplete, and SetStatelessResetToken for the ID of the handshake.
DstHandshakeComplete ==
    /\ ~cidHandshakeComplete /\ ~dstClosed
    /\ cidHandshakeComplete' = TRUE
    /\ hasResetToken' = TRUE /\ resetTokens' = resetTokens \cup {0}
    /\ UNCHANGED <<srcVars, activeSeq, cidQueue, highestRetired, toRetire, cidPath, cidErr, dstClosed>>

\* shouldUpdateConnID; whether enough packets were sent with the ID is left open.
shouldUpdateConnID ==
    /\ cidHandshakeComplete
    /\ cidQueue # {}
    /\ activeSeq = 0 \/ 2 * Cardinality(cidQueue) >= MaxActiveConnectionIDs

\* A packet is packed: Get, and one RETIRE_CONNECTION_ID frame if there is one.
PackPacketTo(changes) ==
    /\ ~dstClosed /\ Cardinality(cidPath) < MaxOnPath
    /\ changes => shouldUpdateConnID
    /\ (shouldUpdateConnID /\ activeSeq = 0) => changes
    /\ \E frame \in {IF changes THEN activeSeq ELSE InitialID} \cup toRetire :
         /\ cidPath' = cidPath \cup {[dest |-> IF changes THEN Min(cidQueue) ELSE activeSeq, retire |-> frame]}
         /\ IF changes THEN updateConnectionID(cidQueue, highestRetired, toRetire, {frame})
            ELSE /\ toRetire' = toRetire \ {frame}
                 /\ UNCHANGED <<activeSeq, cidQueue, highestRetired, resetTokens, hasResetToken>>
    /\ UNCHANGED <<srcVars, cidHandshakeComplete, cidErr, dstClosed>>

\* A packet is lost; its frame is queued again.
LosePacket(p) ==
    /\ cidPath' = cidPath \ {p}
    /\ toRetire' = IF p.retire # InitialID THEN toRetire \cup {p.retire} ELSE toRetire
    /\ UNCHANGED <<srcVars, activeSeq, cidQueue, highestRetired, cidHandshakeComplete, resetTokens,
                   hasResetToken, cidErr, dstClosed>>

\* connIDManager.Close
CloseManager ==
    /\ ~dstClosed
    /\ dstClosed' = TRUE
    /\ resetTokens' = IF hasResetToken THEN resetTokens \ {activeSeq} ELSE resetTokens
    /\ UNCHANGED <<srcVars, activeSeq, cidQueue, highestRetired, cidHandshakeComplete, hasResetToken,
                   toRetire, cidPath, cidErr>>

-----------------------------------------------------------------------------
IDInit ==
    /\ highestSeq = 0 /\ activeSrcConnIDs = {0} /\ initialClientDest = TRUE
    /\ handlers = [id \in {0, InitialID} |-> "conn"] /\ retiring = {} /\ srcClosed = FALSE
    /\ newFrames = {}
    /\ activeSeq = 0 /\ cidQueue = {} /\ highestRetired = 0 /\ cidHandshakeComplete = FALSE
    /\ resetTokens = {} /\ hasResetToken = FALSE /\ toRetire = {} /\ dstClosed = FALSE
    /\ cidPath = {} /\ cidErr = FALSE

IDNext ==
    \/ SetMaxActiveConnIDs \/ SrcHandshakeComplete \/ DstHandshakeComplete \/ CloseManager
    \/ \E p \in cidPath : HandlePacketOf(p) \/ LosePacket(p)
    \/ \E id \in retiring : RetireTimer(id)
    \/ \E by \in {"destroy", "closedLocal", "closedRemote"} : CloseSource(by)
    \/ \E f \in newFrames : AddNewConnectionID(f)
    \/ \E changes \in BOOLEAN : PackPacketTo(changes)

IDSpec == IDInit /\ [][IDNext]_cidVars

-----------------------------------------------------------------------------
\* A connection that ended leaves nothing behind: every entry of the
\* packetHandlerMap that it had has a timer that deletes it.
NoHandlerLeft == srcClosed => DOMAIN handlers \subseteq retiring

\* Neither side calls the other's frames an error (too many IDs, an ID retired that
\* was not issued or that the packet uses), the ID in use is one the issuer still has,
\* and packets on their way find their connection, however frames are reordered; the
\* connection leaves nothing behind (conn_id_generator.go, conn_id_manager.go,
\* packet_handler_map.go).
PacketsAreRouted ==
    /\ ~cidErr
    /\ ~srcClosed => /\ \A p \in cidPath : p.dest \in DOMAIN handlers /\ handlers[p.dest] = "conn"
                     /\ activeSeq \in activeSrcConnIDs
    /\ resetTokens = IF hasResetToken /\ ~dstClosed THEN {activeSeq} ELSE {}
    /\ NoHandlerLeft
=============================================================================
