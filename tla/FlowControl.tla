---------------------------- MODULE FlowControl ----------------------------
(***************************************************************************)
(* Flow control of one direction of a connection: the stream and the       *)
(* connection flow controllers of the sender and of the receiver, and the  *)
(* receiver's window update queue.  Every stream carries Total bytes.      *)
(*                                                                         *)
(* STREAM frames arrive in any order; since a frame that is lost is sent   *)
(* again they all arrive.  MAX_DATA and MAX_STREAM_DATA frames stay on the *)
(* path: they may arrive in any order, late, and repeatedly.               *)
(***************************************************************************)
EXTENDS Integers, FiniteSets

CONSTANTS
    Streams,
    Total,           \* bytes the application sends on a stream
    StreamWindow, MaxStreamWindow,  \* initial and largest receiveWindowSize
    ConnWindow, MaxConnWindow

VARIABLES
    bytesSent, maxData,      \* sender: per stream, bytes sent and send window
    connBytesSent, connMaxData, \* sender: the same of the connection
    path,                    \* STREAM frames on their way
    updates,                 \* MAX_DATA and MAX_STREAM_DATA frames on their way
    rcv,                     \* receiver: the flow controller of every stream
    conn,                    \* receiver: the connection's flow controller
    queue, queuedConn,       \* window update queue
    readers                  \* the AddBytesRead call of every stream's reader

fcVars == <<bytesSent, maxData, connBytesSent, connMaxData, path, updates, rcv, conn, queue, queuedConn, readers>>

Lesser(a, b) == IF a < b THEN a ELSE b
Larger(a, b) == IF a < b THEN b ELSE a
newController(w) == [read |-> 0, highest |-> 0, window |-> w, size |-> w, epoch |-> 0, final |-> FALSE]
notReading == [pc |-> "idle", n |-> 0]

-----------------------------------------------------------------------------
(* Sender *)

\* Mutant: the connection's window is not looked at.
SendWindowSizeOfStream(s) == maxData[s] - bytesSent[s]

\* SendWindowSize of a stream: its window and the connection's.
SendWindowSize(s) == Lesser(maxData[s] - bytesSent[s], connMaxData - connBytesSent)

\* popStreamFrame, then AddBytesSent of the stream and of the connection; the
\* last frame carries the FIN.
AddBytesSent(s, n) ==
    /\ bytesSent[s] + n <= Total
    /\ n <= SendWindowSize(s)
    /\ bytesSent' = [bytesSent EXCEPT ![s] = @ + n]
    /\ connBytesSent' = connBytesSent + n
    /\ path' = path \cup {[stream |-> s, offset |-> bytesSent[s] + n, final |-> bytesSent[s] + n = Total]}
    /\ UNCHANGED <<maxData, connMaxData, updates, rcv, conn, queue, queuedConn, readers>>

\* UpdateSendWindow: a frame that arrives late does not lower the window.
UpdateSendWindow(u) ==
    /\ IF u.stream = "conn"
       THEN /\ u.limit > connMaxData /\ connMaxData' = u.limit
            /\ UNCHANGED maxData
       ELSE /\ u.limit > maxData[u.stream] /\ maxData' = [maxData EXCEPT ![u.stream] = u.limit]
            /\ UNCHANGED connMaxData
    /\ UNCHANGED <<bytesSent, connBytesSent, path, updates, rcv, conn, queue, queuedConn, readers>>

-----------------------------------------------------------------------------
(* Receiver *)

\* UpdateHighestReceived, and IncrementHighestReceived of the connection.
UpdateHighestReceived(f) ==
    LET c == rcv[f.stream]
        increment == IF f.offset > c.highest THEN f.offset - c.highest ELSE 0
    IN  /\ path' = path \ {f}
        /\ rcv' = [rcv EXCEPT ![f.stream].highest = @ + increment,
                              ![f.stream].final = @ \/ f.final]
        /\ conn' = [conn EXCEPT !.highest = @ + increment]
        /\ UNCHANGED <<bytesSent, maxData, connBytesSent, connMaxData, updates, queue, queuedConn, readers>>

\* Mutant: the update is not due at the threshold, only beyond it.
hasWindowUpdateLate(c) == c.window - c.read < (3 * c.size) \div 4

\* The update is due when a quarter of the window is consumed.
hasWindowUpdate(c) == c.window - c.read <= (3 * c.size) \div 4

addBytesRead(c, n) == [c EXCEPT !.read = @ + n]

\* AddBytesRead of the stream: its own controller, under its mutex.
AddBytesRead(s, n) ==
    /\ readers[s].pc = "idle"
    /\ rcv[s].read + n <= rcv[s].highest
    /\ rcv' = [rcv EXCEPT ![s] = addBytesRead(@, n)]
    /\ readers' = [readers EXCEPT ![s] =
                     [pc |-> IF ~rcv[s].final /\ hasWindowUpdate(rcv'[s]) THEN "queueStream" ELSE "conn",
                      n |-> n]]
    /\ UNCHANGED <<bytesSent, maxData, connBytesSent, connMaxData, path, updates, conn, queue, queuedConn>>

\* The calls that follow without the mutex: AddStream, AddBytesRead of the
\* connection, AddConnection.
AddStream(s) ==
    /\ readers[s].pc = "queueStream"
    /\ queue' = queue \cup {s}
    /\ readers' = [readers EXCEPT ![s].pc = "conn"]
    /\ UNCHANGED <<bytesSent, maxData, connBytesSent, connMaxData, path, updates, rcv, conn, queuedConn>>

ConnAddBytesRead(s) ==
    /\ readers[s].pc = "conn"
    /\ conn' = addBytesRead(conn, readers[s].n)
    /\ readers' = [readers EXCEPT ![s] = IF hasWindowUpdate(conn') THEN [@ EXCEPT !.pc = "queueConn"]
                                         ELSE notReading]
    /\ UNCHANGED <<bytesSent, maxData, connBytesSent, connMaxData, path, updates, rcv, queue, queuedConn>>

AddConnection(s) ==
    /\ readers[s].pc = "queueConn"
    /\ queuedConn' = TRUE
    /\ readers' = [readers EXCEPT ![s] = notReading]
    /\ UNCHANGED <<bytesSent, maxData, connBytesSent, connMaxData, path, updates, rcv, conn, queue>>

\* Abandon: the bytes nobody will read.
unread(c) == c.highest - c.read

\* A stream whose final offset is known is canceled.
Abandon(s) ==
    /\ readers[s].pc = "idle"
    /\ rcv[s].final /\ rcv[s].read < rcv[s].highest
    /\ rcv' = [rcv EXCEPT ![s].read = rcv[s].highest]
    /\ readers' = [readers EXCEPT ![s] = [pc |-> "conn", n |-> unread(rcv[s])]]
    /\ UNCHANGED <<bytesSent, maxData, connBytesSent, connMaxData, path, updates, conn, queue, queuedConn>>

\* How fast the window was consumed, which is left open, against an RTT that may be unknown yet.
Paces == {"unknown", "slow", "fast"}

(* getWindowUpdate: maybeAdjustWindowSize doubles the window when it was   *)
(* consumed fast, but never shrinks one that started larger than its       *)
(* maximum; and then the window moves.                                     *)
maybeAdjustWindowSize(c, max, pace) ==
    IF c.read - c.epoch <= c.size \div 2 \/ pace = "unknown" THEN c
    ELSE [c EXCEPT !.size = IF pace = "fast" THEN Larger(@, Lesser(2 * @, max)) ELSE @, !.epoch = c.read]

windowAfter(c) == c.read + c.size

getWindowUpdate(c, max, pace) ==
    LET a == maybeAdjustWindowSize(c, max, pace)
    IN  IF hasWindowUpdate(c) THEN [a EXCEPT !.window = windowAfter(a)] ELSE c

\* EnsureMinimumWindowSize of the connection: one and a half times a stream's window.
\* The application may refuse (AllowConnectionWindowIncrease).
EnsureMinimumWindowSize(c, min, allow) ==
    IF min <= c.size THEN c
    ELSE [c EXCEPT !.size = IF allow THEN Larger(@, Lesser(min, MaxConnWindow)) ELSE @, !.epoch = c.read]

\* A frame with limit 0 is what GetWindowUpdate returns when none is due.
update(to, old, new) == [stream |-> to, limit |-> IF new.window = old.window THEN 0 ELSE new.window]

\* QueueAll, the connection.
QueueConnUpdate ==
    /\ queuedConn
    /\ queuedConn' = FALSE
    /\ \E pace \in Paces : conn' = getWindowUpdate(conn, MaxConnWindow, pace)
    /\ updates' = updates \cup {update("conn", conn, conn')}
    /\ UNCHANGED <<bytesSent, maxData, connBytesSent, connMaxData, path, rcv, queue, readers>>

\* QueueAll, one stream of the queue.
QueueStreamUpdate(s) ==
    /\ s \in queue
    /\ queue' = queue \ {s}
    /\ IF rcv[s].final THEN UNCHANGED <<rcv, conn, updates>>
       ELSE \E pace \in Paces, allow \in BOOLEAN :
              /\ rcv' = [rcv EXCEPT ![s] = getWindowUpdate(@, MaxStreamWindow, pace)]
              /\ conn' = IF rcv'[s].size > rcv[s].size
                         THEN EnsureMinimumWindowSize(conn, (3 * rcv'[s].size) \div 2, allow) ELSE conn
              /\ updates' = IF rcv'[s].window = rcv[s].window THEN updates
                            ELSE updates \cup {update(s, rcv[s], rcv'[s])}
    /\ UNCHANGED <<bytesSent, maxData, connBytesSent, connMaxData, path, queuedConn, readers>>

-----------------------------------------------------------------------------
FlowInit ==
    /\ bytesSent = [s \in Streams |-> 0] /\ maxData = [s \in Streams |-> StreamWindow]
    /\ connBytesSent = 0 /\ connMaxData = ConnWindow
    /\ path = {} /\ updates = {}
    /\ rcv = [s \in Streams |-> newController(StreamWindow)] /\ conn = newController(ConnWindow)
    /\ queue = {} /\ queuedConn = FALSE
    /\ readers = [s \in Streams |-> notReading]

Reads(s) == (\E n \in 1 .. Total : AddBytesRead(s, n)) \/ Abandon(s)
Reader(s) == AddStream(s) \/ ConnAddBytesRead(s) \/ AddConnection(s)

FlowNext ==
    \/ \E s \in Streams, n \in 1 .. Total : AddBytesSent(s, n)
    \/ \E u \in updates : UpdateSendWindow(u)
    \/ \E f \in path : UpdateHighestReceived(f)
    \/ \E s \in Streams : Reads(s) \/ Reader(s) \/ QueueStreamUpdate(s)
    \/ QueueConnUpdate

(* Frames arrive, the applications write and read, and the run loop packs  *)
(* packets, which empties the window update queue.                         *)
FlowFairness ==
    /\ \A s \in Streams : /\ WF_fcVars(\E n \in 1 .. Total : AddBytesSent(s, n))
                          /\ WF_fcVars(Reads(s)) /\ WF_fcVars(Reader(s))
                          /\ WF_fcVars(QueueStreamUpdate(s))
    /\ WF_fcVars(\E u \in updates : UpdateSendWindow(u))
    /\ WF_fcVars(\E f \in path : UpdateHighestReceived(f))
    /\ WF_fcVars(QueueConnUpdate)

FlowSpec == FlowInit /\ [][FlowNext]_fcVars /\ FlowFairness

-----------------------------------------------------------------------------
\* The bytes of all streams up to the offset n[s] of each stream s.
Bytes(n) == UNION {{s} \X (1 .. n[s]) : s \in Streams}

\* checkFlowControlViolation never reports a peer that runs this code, the windows
\* that are announced never allow more unread data than the buffer limits, and the
\* connection counts every byte of every stream once.
WindowsAreKept ==
    /\ conn.highest <= conn.window
    /\ \A s \in Streams : rcv[s].highest <= rcv[s].window
    /\ conn.window - conn.read <= Larger(ConnWindow, MaxConnWindow)
    /\ connMaxData <= conn.window
    /\ conn.highest = Cardinality(Bytes([s \in Streams |-> rcv[s].highest]))

\* No window update is lost between AddBytesRead, the queue and the path: the
\* streams send all they have, however windows, reordering and readers interleave.
EverythingIsSent == <>(\A s \in Streams : bytesSent[s] = Total)
=============================================================================
