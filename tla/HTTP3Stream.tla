----------------------------- MODULE HTTP3Stream -----------------------------
(***************************************************************************)
(* One HTTP/3 request on its QUIC stream, with everything that runs for it:*)
(* on the client RoundTripOpt and doRequest, the goroutine that sends the  *)
(* request body, the goroutine that waits for the request's context, and   *)
(* the application that reads or closes the response body (http3/client.go,*)
(* http3/body.go); on the server handleRequest, the handler and what       *)
(* handleConn does with the result (http3/server.go).                      *)
(*                                                                         *)
(* A direction of the stream carries frames up to the reader's window.  Its*)
(* sender ends it with a FIN or a RESET_STREAM, its reader with a          *)
(* STOP_SENDING, which makes the sender reset it.  Which bytes the frames  *)
(* hold is the subject of HTTP3Body.  Hijacked streams and requests with   *)
(* DontCloseRequestStream, whose stream is the application's, are left out.*)
(***************************************************************************)
EXTENDS Integers

CONSTANTS
    Window,              \* frames a sender may be ahead of its reader
    RequestBodies,       \* frames a request body may hold; 0: no body
    ContentLengths,      \* Content-Lengths a request may announce
    MaxResponse,         \* bound: frames a handler writes
    BadResponses         \* the client may find a complete response header malformed

VARIABLES
    dir,                 \* the two directions of the stream
    connOpen,            \* the QUIC connection
    ctxDone,             \* the request's context was canceled
    reqDone,             \* the channel reqDone is closed
    canceler,            \* the goroutine that waits for the context
    roundTrip,           \* RoundTripOpt
    streamErr,           \* the request failed with a stream error
    bodySender,          \* sendRequestBody and the Close after it
    body,                \* the request body: frames left, Content-Length left
    app,                 \* the application's use of the response body
    server,              \* the goroutine of handleConn for this stream
    panicked

h3sVars == <<dir, connOpen, ctxDone, reqDone, canceler, roundTrip, streamErr, bodySender, body, app,
             server, panicked>>

NoLength == -1
Directions == {"up", "down"}     \* request and response

TypeOK ==
    /\ dir \in [Directions -> [sent: Nat, read: Nat, snd: {"open", "fin", "reset"},
                               rcv: {"open", "eof", "reset", "stopped"}, final: BOOLEAN]]
    /\ canceler \in {"none", "waiting", "done"}
    /\ roundTrip \in {"start", "send", "await", "failing", "failed", "returned"}
    /\ bodySender \in {"none", "copy", "extra", "close", "done"}
    /\ app \in {"none", "reading", "done"}
    /\ server \in {"accept", "handler", "reading", "writing", "flush", "end", "done"}

Init ==
    /\ dir = [d \in Directions |-> [sent |-> 0, read |-> 0, snd |-> "open", rcv |-> "open", final |-> FALSE]]
    /\ connOpen = TRUE /\ ctxDone = FALSE /\ reqDone = FALSE
    /\ canceler = "none" /\ roundTrip = "start" /\ streamErr = FALSE
    /\ bodySender = "none"
    /\ body \in [left: RequestBodies, length: ContentLengths \cup {NoLength}]
    /\ app = "none" /\ server = "accept" /\ panicked = FALSE

------------------------------------------------------------------------------
(* The QUIC stream                                                         *)

hasRoom(d) == dir[d].sent - dir[d].read < Window
canWrite(d) == connOpen /\ dir[d].snd = "open" /\ hasRoom(d)
writeFails(d) == ~connOpen \/ dir[d].snd # "open"
hasFrame(d) == connOpen /\ dir[d].rcv = "open" /\ dir[d].read < dir[d].sent
atEOF(d) == connOpen /\ dir[d].rcv = "open" /\ dir[d].read = dir[d].sent /\ dir[d].snd = "fin"
readFails(d) == ~connOpen \/ dir[d].rcv \in {"reset", "stopped"}

written(d) == [d EXCEPT !.sent = @ + 1]
closed(d) == IF d.snd = "open" THEN [d EXCEPT !.snd = "fin"] ELSE d
CancelWrite(d) == [d EXCEPT !.snd = "reset"]
CancelRead(d) == IF d.rcv = "open" THEN [d EXCEPT !.rcv = "stopped"] ELSE d
gotFrame(d) == [d EXCEPT !.read = @ + 1]
gotEOF(d) == [d EXCEPT !.rcv = "eof"]

\* A RESET_STREAM arrives: a Read fails from now on, and a canceled direction knows its end.
DeliverReset ==
    /\ \E d \in Directions :
          /\ connOpen /\ dir[d].snd = "reset" /\ dir[d].rcv \in {"open", "stopped"} /\ ~dir[d].final
          /\ dir' = [dir EXCEPT ![d].rcv = IF @ = "open" THEN "reset" ELSE @, ![d].final = TRUE]
    /\ UNCHANGED <<connOpen, ctxDone, reqDone, canceler, roundTrip, streamErr, bodySender, body, app, server, panicked>>

\* A FIN arrives on a direction whose reader has stopped.
DeliverFin ==
    /\ \E d \in Directions :
          /\ connOpen /\ dir[d].snd = "fin" /\ dir[d].rcv = "stopped" /\ ~dir[d].final
          /\ dir' = [dir EXCEPT ![d].final = TRUE]
    /\ UNCHANGED <<connOpen, ctxDone, reqDone, canceler, roundTrip, streamErr, bodySender, body, app, server, panicked>>

\* A STOP_SENDING arrives: the sender cancels writing.
DeliverStop ==
    /\ \E d \in Directions :
          /\ connOpen /\ dir[d].rcv = "stopped" /\ dir[d].snd = "open"
          /\ dir' = [dir EXCEPT ![d] = CancelWrite(@)]
    /\ UNCHANGED <<connOpen, ctxDone, reqDone, canceler, roundTrip, streamErr, bodySender, body, app, server, panicked>>

\* The connection is lost.
LoseConnection ==
    /\ connOpen
    /\ connOpen' = FALSE
    /\ UNCHANGED <<dir, ctxDone, reqDone, canceler, roundTrip, streamErr, bodySender, body, app, server, panicked>>

------------------------------------------------------------------------------
(* The client                                                              *)

\* The user of the request cancels its context.
CancelContext ==
    /\ ~ctxDone /\ app # "done"
    /\ ctxDone' = TRUE
    /\ UNCHANGED <<dir, connOpen, reqDone, canceler, roundTrip, streamErr, bodySender, body, app, server, panicked>>

\* The goroutine for the request's cancellation.
Cancel ==
    /\ canceler = "waiting"
    /\ \/ /\ ctxDone
          /\ dir' = [dir EXCEPT !["up"] = CancelWrite(@), !["down"] = CancelRead(@)]
       \/ /\ reqDone
          /\ UNCHANGED dir
    /\ canceler' = "done"
    /\ UNCHANGED <<connOpen, ctxDone, reqDone, roundTrip, streamErr, bodySender, body, app, server, panicked>>

fail(isStreamErr) ==
    /\ roundTrip' = "failing"
    /\ streamErr' = isStreamErr
    /\ reqDone' = TRUE

\* roundTripOpt starts the goroutine above.
StartRequest ==
    /\ roundTrip = "start"
    /\ roundTrip' = "send"
    /\ canceler' = "waiting"
    /\ UNCHANGED <<dir, connOpen, ctxDone, reqDone, streamErr, bodySender, body, app, server, panicked>>

\* doRequest writes the request header; without a body it closes its side, with one it starts to
\* send it.
SendRequest ==
    /\ roundTrip = "send"
    /\ \/ /\ writeFails("up")
          /\ fail(TRUE)
          /\ UNCHANGED <<dir, bodySender>>
       \/ /\ canWrite("up")
          /\ roundTrip' = "await"
          /\ dir' = [dir EXCEPT !["up"] = IF body.left = 0 THEN closed(written(@)) ELSE written(@)]
          /\ bodySender' = IF body.left = 0 THEN "done" ELSE "copy"
          /\ UNCHANGED <<streamErr, reqDone>>
    /\ UNCHANGED <<connOpen, ctxDone, canceler, body, app, server, panicked>>

\* doRequest waits for the response's HEADERS frame.  Another frame, or one that cannot be decoded,
\* is a connection error.  Only a malformed header leaves the response unread: every other failure
\* is the end of that direction or of the connection.
AwaitResponse ==
    /\ roundTrip = "await"
    /\ \/ /\ atEOF("down") \/ readFails("down")
          /\ fail(TRUE)
          /\ dir' = [dir EXCEPT !["down"] = IF atEOF("down") THEN gotEOF(@) ELSE @]
          /\ UNCHANGED app
       \/ /\ hasFrame("down")
          /\ dir' = [dir EXCEPT !["down"] = gotFrame(@)]
          /\ \/ roundTrip' = "returned" /\ app' = "reading" /\ UNCHANGED <<streamErr, reqDone>>
             \/ \E malformed \in {FALSE, BadResponses} : fail(malformed) /\ UNCHANGED app
    /\ UNCHANGED <<connOpen, ctxDone, canceler, bodySender, body, server, panicked>>

\* roundTripOpt after an error: it waits for the goroutine above and cancels writing or closes
\* the connection.
FailRequest ==
    /\ roundTrip = "failing" /\ canceler = "done"
    /\ roundTrip' = "failed"
    /\ dir' = [dir EXCEPT !["up"] = IF streamErr THEN CancelWrite(@) ELSE @]
    /\ connOpen' = (connOpen /\ streamErr)
    /\ app' = "done"
    /\ UNCHANGED <<ctxDone, reqDone, canceler, streamErr, bodySender, body, server, panicked>>

\* sendRequestBody copies the body up to its Content-Length; a body that cannot be read cancels
\* writing (cancelingReader).
SendBody ==
    /\ bodySender = "copy"
    /\ \/ /\ body.left > 0 /\ body.length # 0 /\ canWrite("up")
          /\ dir' = [dir EXCEPT !["up"] = written(@)]
          /\ body' = [left |-> body.left - 1, length |-> IF body.length > 0 THEN body.length - 1 ELSE body.length]
          /\ UNCHANGED bodySender
       \/ /\ body.left > 0 /\ body.length # 0 /\ writeFails("up")
          /\ bodySender' = "close"
          /\ UNCHANGED <<dir, body>>
       \/ /\ body.left > 0
          /\ dir' = [dir EXCEPT !["up"] = CancelWrite(@)]     \* the body fails
          /\ bodySender' = "close"
          /\ UNCHANGED body
       \/ /\ body.left = 0 \/ body.length = 0
          /\ bodySender' = "extra"
          /\ UNCHANGED <<dir, body>>
    /\ UNCHANGED <<connOpen, ctxDone, reqDone, canceler, roundTrip, streamErr, app, server, panicked>>

\* A body longer than its Content-Length cancels writing.
bodyTooLong == body.length = 0 /\ body.left > 0

FinishBody ==
    /\ bodySender = "extra"
    /\ dir' = [dir EXCEPT !["up"] = IF bodyTooLong THEN CancelWrite(@) ELSE @]
    /\ bodySender' = "close"
    /\ UNCHANGED <<connOpen, ctxDone, reqDone, canceler, roundTrip, streamErr, body, app, server, panicked>>

CloseRequestStream ==
    /\ bodySender = "close"
    /\ dir' = [dir EXCEPT !["up"] = closed(@)]
    /\ bodySender' = "done"
    /\ UNCHANGED <<connOpen, ctxDone, reqDone, canceler, roundTrip, streamErr, body, app, server, panicked>>

\* hijackableBody.Read: an error, also the end of the body, finishes the request.
AppReads ==
    /\ app = "reading"
    /\ \/ /\ hasFrame("down")
          /\ dir' = [dir EXCEPT !["down"] = gotFrame(@)]
          /\ UNCHANGED <<app, reqDone>>
       \/ /\ atEOF("down") \/ readFails("down")
          /\ dir' = [dir EXCEPT !["down"] = IF atEOF("down") THEN gotEOF(@) ELSE @]
          /\ app' = "done" /\ reqDone' = TRUE
    /\ UNCHANGED <<connOpen, ctxDone, canceler, roundTrip, streamErr, bodySender, body, server, panicked>>

\* hijackableBody.Close.
AppCloses ==
    /\ app = "reading"
    /\ dir' = [dir EXCEPT !["down"] = CancelRead(@)]
    /\ app' = "done" /\ reqDone' = TRUE
    /\ UNCHANGED <<connOpen, ctxDone, canceler, roundTrip, streamErr, bodySender, body, server, panicked>>

------------------------------------------------------------------------------
(* The server                                                              *)

\* handleRequest reads the request header.  A request that is incomplete or malformed is a stream
\* error, and handleConn then cancels writing; another frame is a connection error.
AcceptRequest ==
    /\ server = "accept"
    /\ \/ /\ hasFrame("up")
          /\ dir' = [dir EXCEPT !["up"] = gotFrame(@)]
          /\ \/ server' = "handler" /\ UNCHANGED connOpen
             \/ server' = "done" /\ connOpen' = FALSE
       \/ /\ hasFrame("up") \/ atEOF("up") \/ readFails("up")
          /\ dir' = [dir EXCEPT !["up"] = IF hasFrame("up") THEN gotFrame(@) ELSE IF atEOF("up") THEN gotEOF(@) ELSE @,
                                !["down"] = CancelWrite(@)]
          /\ server' = "done" /\ UNCHANGED connOpen
    /\ UNCHANGED <<ctxDone, reqDone, canceler, roundTrip, streamErr, bodySender, body, app, panicked>>

\* The handler calls Read or Write and waits in it, returns or panics.
HandlerCalls ==
    /\ server = "handler"
    /\ server' \in {"reading"} \cup (IF dir["down"].sent < MaxResponse THEN {"writing"} ELSE {})
    /\ UNCHANGED <<dir, connOpen, ctxDone, reqDone, canceler, roundTrip, streamErr, bodySender, body, app, panicked>>

HandlerReads ==
    /\ server = "reading"
    /\ \/ /\ hasFrame("up")
          /\ dir' = [dir EXCEPT !["up"] = gotFrame(@)]
       \/ /\ atEOF("up") \/ readFails("up") \/ dir["up"].rcv = "eof"
          /\ dir' = [dir EXCEPT !["up"] = IF atEOF("up") THEN gotEOF(@) ELSE @]
    /\ server' = "handler"
    /\ UNCHANGED <<connOpen, ctxDone, reqDone, canceler, roundTrip, streamErr, bodySender, body, app, panicked>>

HandlerWrites ==
    /\ server = "writing"
    /\ \/ /\ canWrite("down")
          /\ dir' = [dir EXCEPT !["down"] = written(@)]
       \/ /\ writeFails("down")
          /\ UNCHANGED dir
    /\ server' = "handler"
    /\ UNCHANGED <<connOpen, ctxDone, reqDone, canceler, roundTrip, streamErr, bodySender, body, app, panicked>>

HandlerEnds ==
    /\ server = "handler"
    /\ panicked' \in BOOLEAN
    /\ server' = IF panicked' THEN "end" ELSE "flush"
    /\ UNCHANGED <<dir, connOpen, ctxDone, reqDone, canceler, roundTrip, streamErr, bodySender, body, app>>

\* handleRequest flushes the response: the last frame is written or cannot be.
Flush ==
    /\ server = "flush"
    /\ \/ /\ canWrite("down")
          /\ dir' = [dir EXCEPT !["down"] = written(@)]
       \/ /\ writeFails("down")
          /\ UNCHANGED dir
    /\ server' = "end"
    /\ UNCHANGED <<connOpen, ctxDone, reqDone, canceler, roundTrip, streamErr, bodySender, body, app, panicked>>

\* handleRequest stops reading the request, and handleConn closes or, after a panic, resets the
\* response.
requestLeft(d) == d
stopRequest(d) == CancelRead(d)

EndRequest ==
    /\ server = "end"
    /\ dir' = [dir EXCEPT !["up"] = stopRequest(@),
                          !["down"] = IF panicked THEN CancelWrite(@) ELSE closed(@)]
    /\ server' = "done"
    /\ UNCHANGED <<connOpen, ctxDone, reqDone, canceler, roundTrip, streamErr, bodySender, body, app, panicked>>

(* The goroutines: the caller of RoundTrip, the one that sends the body, *)
(* and the server's, whose handler is done at a time of its own.         *)
Caller == StartRequest \/ SendRequest \/ AwaitResponse \/ FailRequest
BodySender == SendBody \/ FinishBody \/ CloseRequestStream
ServerRequest == AcceptRequest \/ HandlerReads \/ HandlerWrites \/ Flush \/ EndRequest
Transport == DeliverReset \/ DeliverFin \/ DeliverStop

Next ==
    \/ Transport \/ LoseConnection \/ CancelContext \/ Cancel
    \/ Caller \/ BodySender \/ AppReads \/ AppCloses
    \/ HandlerCalls \/ ServerRequest \/ HandlerEnds

\* The goroutines run, the transport delivers what it retransmits, the application goes on reading
\* and a handler whose calls return ends some time.  Nobody is assumed to cancel, to close a body
\* early or to lose the connection.
Fairness ==
    /\ WF_h3sVars(Transport) /\ WF_h3sVars(Cancel) /\ WF_h3sVars(Caller)
    /\ WF_h3sVars(BodySender) /\ WF_h3sVars(AppReads)
    /\ WF_h3sVars(ServerRequest) /\ SF_h3sVars(HandlerEnds)

Spec == Init /\ [][Next]_h3sVars /\ Fairness

------------------------------------------------------------------------------
\* A stream the server accepted is completed on the server, which lets the client open another.
returned == /\ dir["up"].rcv \in {"eof", "reset"} \/ dir["up"].final
            /\ dir["down"].snd # "open"

\* Everything that runs for a request ends: the goroutines of the client and of the server, also
\* the one that sends a body nobody reads, the one that waits for the context ("It is shut down
\* when the application is done processing the body", http3/client.go) and the stream itself,
\* which counts against the stream limit until the server has completed it.
RequestHasEnded ==
    /\ roundTrip \in {"failed", "returned"} /\ app = "done"
    /\ canceler = "done" /\ bodySender \in {"none", "done"}
    /\ server = "done"
    /\ connOpen => returned
RequestEnds == <>[]RequestHasEnded
=============================================================================
