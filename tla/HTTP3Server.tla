----------------------------- MODULE HTTP3Server -----------------------------
(***************************************************************************)
(* The listeners of an HTTP/3 server (http3/server.go): calls of           *)
(* ListenAndServe, Serve and ServeListener that start, accept connections  *)
(* and end while another goroutine calls Close, and the Alt-Svc header that*)
(* announces the ports being served.  Every listener has its own port.     *)
(***************************************************************************)
EXTENDS FiniteSets

CONSTANTS Serves           \* the calls, each with a listener of its own

VARIABLES
    serve,                 \* per call, where it is
    lnOpen,                \* per call, whether its listener is open
    listeners,             \* s.listeners
    altSvcHeader,          \* the ports announced
    srvClosed              \* s.closed

h3vVars == <<serve, lnOpen, listeners, altSvcHeader, srvClosed>>

TypeOK ==
    /\ serve \in [Serves -> {"start", "listen", "add", "accept", "remove", "returned"}]
    /\ lnOpen \in [Serves -> BOOLEAN]
    /\ listeners \subseteq Serves /\ altSvcHeader \subseteq Serves

Init ==
    /\ serve = [s \in Serves |-> "start"]
    /\ lnOpen = [s \in Serves |-> FALSE]
    /\ listeners = {} /\ altSvcHeader = {} /\ srvClosed = FALSE

\* serveConn checks for a closed server, and listens without holding the mutex.
CheckClosed(s) ==
    /\ serve[s] = "start"
    /\ serve' = [serve EXCEPT ![s] = IF srvClosed THEN "returned" ELSE "listen"]
    /\ UNCHANGED <<lnOpen, listeners, altSvcHeader, srvClosed>>

Listen(s) ==
    /\ serve[s] = "listen"
    /\ \E ok \in BOOLEAN :
          /\ lnOpen' = [lnOpen EXCEPT ![s] = ok]
          /\ serve' = [serve EXCEPT ![s] = IF ok THEN "add" ELSE "returned"]
    /\ UNCHANGED <<listeners, altSvcHeader, srvClosed>>

\* ServeListener is called with a listener of the caller.
ServeListener(s) ==
    /\ serve[s] = "start"
    /\ lnOpen' = [lnOpen EXCEPT ![s] = TRUE]
    /\ serve' = [serve EXCEPT ![s] = "add"]
    /\ UNCHANGED <<listeners, altSvcHeader, srvClosed>>

\* generateAltSvcHeader: the ports of the listeners there are.
generateAltSvcHeader(lns) == lns

refusesNever == FALSE
refusesListener == srvClosed

\* addListener: a closed server takes no listener.
addListener(s) ==
    /\ serve[s] = "add"
    /\ IF refusesListener
       THEN /\ serve' = [serve EXCEPT ![s] = "returned"]
            /\ UNCHANGED <<listeners, altSvcHeader>>
       ELSE /\ serve' = [serve EXCEPT ![s] = "accept"]
            /\ listeners' = listeners \cup {s}
            /\ altSvcHeader' = generateAltSvcHeader(listeners')
    /\ UNCHANGED <<lnOpen, srvClosed>>

\* Accept returns an error once the listener is closed, and the call ends.
AcceptFails(s) ==
    /\ serve[s] = "accept" /\ ~lnOpen[s]
    /\ serve' = [serve EXCEPT ![s] = "remove"]
    /\ UNCHANGED <<lnOpen, listeners, altSvcHeader, srvClosed>>

removeListener(s) ==
    /\ serve[s] = "remove"
    /\ serve' = [serve EXCEPT ![s] = "returned"]
    /\ listeners' = listeners \ {s}
    /\ altSvcHeader' = generateAltSvcHeader(listeners')
    /\ UNCHANGED <<lnOpen, srvClosed>>

\* A listener fails by itself.
ListenerFails(s) ==
    /\ serve[s] = "accept" /\ lnOpen[s]
    /\ lnOpen' = [lnOpen EXCEPT ![s] = FALSE]
    /\ UNCHANGED <<serve, listeners, altSvcHeader, srvClosed>>

\* Close: under the mutex it marks the server closed and closes the listeners.
Close ==
    /\ ~srvClosed
    /\ srvClosed' = TRUE
    /\ lnOpen' = [s \in Serves |-> lnOpen[s] /\ s \notin listeners]
    /\ UNCHANGED <<serve, listeners, altSvcHeader>>

Next ==
    \/ \E s \in Serves :
          \/ CheckClosed(s) \/ Listen(s) \/ ServeListener(s) \/ addListener(s) \/ AcceptFails(s)
          \/ removeListener(s) \/ ListenerFails(s)
    \/ Close

Spec == Init /\ [][Next]_h3vVars

\* A closed server serves nothing: no call goes on accepting connections on an open listener,
\* whatever Close raced with, and the header announces a port only while a call serves it
\* (http3/server.go Close, addListener, generateAltSvcHeader).
ClosedServerServesNothing ==
    /\ srvClosed => \A s \in Serves : serve[s] = "accept" => ~lnOpen[s]
    /\ altSvcHeader = {s \in Serves : serve[s] \in {"accept", "remove"}}
=============================================================================
