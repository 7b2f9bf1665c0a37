------------------------------ MODULE HTTP3Body ------------------------------
(***************************************************************************)
(* The body of one HTTP/3 response as bytes on a QUIC stream.  The server's*)
(* side is responseWriter (http3/response_writer.go) behind a bufio.Writer,*)
(* driven by a handler and then by handleRequest; the client's side is     *)
(* doRequest's reading of the HEADERS frame, stream.Read and               *)
(* lengthLimitedStream.Read (http3/http_stream.go) over parseNextFrame.    *)
(*                                                                         *)
(* A byte is a small number: frame types and lengths are one byte, a frame *)
(* type that is none of HEADERS, DATA and SETTINGS is unknown, and body    *)
(* bytes are numbered.  A QPACK block is its prefix of two zero bytes      *)
(* followed by a byte for the status and one for the Content-Length.  The  *)
(* stream itself is reliable (ReceiveStream).  Header fields other than    *)
(* Content-Length, compression and logging are left out.                   *)
(***************************************************************************)
EXTENDS Integers, Sequences, SequencesExt

CONSTANTS
    Statuses,              \* what a handler passes to WriteHeader
    ContentLengths,        \* what a handler sets Content-Length to
    WriteSizes,            \* lengths of the slices a handler writes
    ReadSizes,             \* lengths of the slices the response body is read into
    BufioSize,             \* the size of the bufio.Writer
    MaxHeaderBytes,        \* the longest HEADERS frame the client accepts
    MaxBody,               \* bound: bytes the handler writes
    MaxWrites              \* bound: calls of Write

VARIABLES
    isHead,                \* the request's method is HEAD
    handler,               \* "running", "returned" or "panicked"
    rw,                    \* the responseWriter: status, headerWritten, written, contentLen, numWritten
    clHeader,              \* the Content-Length header, or NoLength
    bufferedStr,           \* the content of the bufio.Writer
    wire,                  \* bytes written to the stream
    wireEnd,               \* "open", "fin" or "reset"
    writes,                \* calls of Write so far
    sentBody,              \* body bytes that Write accepted for the client
    reader,                \* what the client does: see the actions
    pos,                   \* bytes of wire the client has read
    bytesRemainingInFrame,
    limit,                 \* contentLength of the lengthLimitedStream, or NoLength
    gotBody                \* body bytes handed to the application

h3bVars == <<isHead, handler, rw, clHeader, bufferedStr, wire, wireEnd, writes, sentBody,
             reader, pos, bytesRemainingInFrame, limit, gotBody>>
writerVars == <<isHead, handler, rw, clHeader, bufferedStr, wire, wireEnd, writes, sentBody>>
readerVars == <<reader, pos, bytesRemainingInFrame, limit, gotBody>>

NoLength == -1
frameData == 0
frameHeaders == 1
frameSettings == 4
StatusOK == 20             \* 200: statuses are given in tens
BodyByte(k) == 100 + k     \* the k-th byte of the body

TypeOK ==
    /\ handler \in {"running", "returned", "panicked"}
    /\ wireEnd \in {"open", "fin", "reset"}
    /\ reader \in {"headers", "idle", "reading", "eof", "tooMuch", "frameError", "failed"}
    /\ pos \in 0 .. Len(wire)
    /\ bytesRemainingInFrame \in Nat

Init ==
    /\ isHead \in BOOLEAN
    /\ handler = "running"
    /\ rw = [status |-> 0, headerWritten |-> FALSE, written |-> FALSE, contentLen |-> 0, numWritten |-> 0]
    /\ clHeader = NoLength
    /\ bufferedStr = <<>> /\ wire = <<>> /\ wireEnd = "open"
    /\ writes = 0 /\ sentBody = <<>>
    /\ reader = "headers" /\ pos = 0 /\ bytesRemainingInFrame = 0
    /\ limit = NoLength /\ gotBody = <<>>

------------------------------------------------------------------------------
(* responseWriter                                                          *)

isInformational(status) == status < StatusOK
StatusNoContent == 21
bodyAllowedForStatus(status) == status # StatusNoContent /\ (status = 0 \/ ~isInformational(status))

\* headerWriter.writeHeader: the HEADERS frame with the QPACK block of the headers.
headersFrame(status, length) == <<frameHeaders, 4, 0, 0, status, length + 2>>
dataFrame(len) == <<frameData, len>>

\* responseWriter.WriteHeader: the writer afterwards and what is written to the stream.  Only an
\* informational response leaves at once; the header of the final one waits for the first flush.
WriteHeader(w, status) ==
    IF w.headerWritten THEN [w |-> w, out |-> <<>>]
    ELSE IF isInformational(status)
         THEN [w |-> [w EXCEPT !.status = status], out |-> headersFrame(status, clHeader)]
         ELSE [w |-> [w EXCEPT !.status = status, !.headerWritten = TRUE,
                               !.contentLen = IF clHeader = NoLength THEN 0 ELSE clHeader],
               out |-> <<>>]

\* headerWriter.Write: the first write sends the header first.
headerFirst(w, length) == IF w.written THEN <<>> ELSE headersFrame(w.status, length)

\* bufio.Writer.Write (external): what is written through and what stays in the buffer.
bufioWrite(buf, p) ==
    LET free == BufioSize - Len(buf)
        rest == SubSeq(p, free + 1, Len(p))
    IN  CASE Len(p) <= free -> [out |-> <<>>, buf |-> buf \o p]
          [] Len(p) > free /\ buf = <<>> -> [out |-> p, buf |-> <<>>]
          [] Len(p) > free /\ buf # <<>> /\ Len(rest) <= BufioSize ->
                [out |-> buf \o SubSeq(p, 1, free), buf |-> rest]
          [] OTHER -> [out |-> buf \o p, buf |-> <<>>]

\* A handler sets the Content-Length before it writes the header.
HandlerSetsContentLength ==
    /\ handler = "running" /\ ~rw.headerWritten /\ clHeader = NoLength
    /\ \E n \in ContentLengths : clHeader' = n
    /\ UNCHANGED <<isHead, handler, rw, bufferedStr, wire, wireEnd, writes, sentBody, readerVars>>

HandlerWritesHeader ==
    /\ handler = "running" /\ ~rw.headerWritten
    /\ \E status \in Statuses :
          LET r == WriteHeader(rw, status)
          IN  /\ isInformational(status) => rw.status = 0     \* bound: one informational response
              /\ rw' = r.w
              /\ wire' = wire \o r.out
    /\ UNCHANGED <<isHead, handler, clHeader, bufferedStr, wireEnd, writes, sentBody, readerVars>>

\* responseWriter.Write of n bytes: too many for the Content-Length are counted and refused.
exceedsContentLength(w) == w.contentLen # 0 /\ w.numWritten > w.contentLen

HandlerWrites ==
    /\ handler = "running" /\ writes < MaxWrites
    /\ \E n \in WriteSizes :
       LET w0 == WriteHeader(rw, StatusOK).w
           w1 == [w0 EXCEPT !.numWritten = @ + n]
           bytes == [k \in 1 .. n |-> BodyByte(Len(sentBody) + k)]
           r1 == bufioWrite(bufferedStr, dataFrame(n))
           r2 == bufioWrite(r1.buf, bytes)
           out == r1.out \o r2.out
       IN  /\ Len(sentBody) + n <= MaxBody
           /\ writes' = writes + 1
           /\ IF ~bodyAllowedForStatus(w0.status)
              THEN UNCHANGED <<rw, bufferedStr, wire, sentBody>>
              ELSE IF exceedsContentLength(w1) \/ isHead
              THEN rw' = w1 /\ UNCHANGED <<bufferedStr, wire, sentBody>>
              ELSE /\ rw' = [w1 EXCEPT !.written = @ \/ out # <<>>]
                   /\ bufferedStr' = r2.buf
                   /\ wire' = IF out = <<>> THEN wire ELSE wire \o headerFirst(w1, clHeader) \o out
                   /\ sentBody' = sentBody \o bytes
    /\ UNCHANGED <<isHead, handler, clHeader, wireEnd, readerVars>>

FlushBufferFirst(w, length) ==
    LET w1 == WriteHeader(w, StatusOK).w
    IN  [w |-> [w1 EXCEPT !.written = TRUE], out |-> bufferedStr \o headerFirst(w1, length)]

\* responseWriter.FlushError: the header if it was not sent, then what is buffered.
FlushError(w, length) ==
    LET w1 == WriteHeader(w, StatusOK).w
    IN  [w |-> [w1 EXCEPT !.written = TRUE], out |-> headerFirst(w1, length) \o bufferedStr]

HandlerFlushes ==
    /\ handler = "running" /\ (bufferedStr # <<>> \/ ~rw.written)
    /\ rw' = FlushError(rw, clHeader).w
    /\ wire' = wire \o FlushError(rw, clHeader).out
    /\ bufferedStr' = <<>>
    /\ UNCHANGED <<isHead, handler, clHeader, wireEnd, writes, sentBody, readerVars>>

\* handleRequest after the handler returned: it announces the length if no header was sent and
\* none was set, flushes, and the caller closes the stream.
HandlerReturns ==
    /\ handler = "running"
    /\ handler' = "returned"
    /\ clHeader' = IF ~rw.written /\ clHeader = NoLength THEN rw.numWritten ELSE clHeader
    /\ rw' = FlushError(rw, clHeader').w
    /\ wire' = wire \o FlushError(rw, clHeader').out
    /\ bufferedStr' = <<>>
    /\ wireEnd' = "fin"
    /\ UNCHANGED <<isHead, writes, sentBody, readerVars>>

\* After a panic nothing more is written and the stream is reset.
HandlerPanics ==
    /\ handler = "running"
    /\ handler' = "panicked"
    /\ wireEnd' = "reset"
    /\ UNCHANGED <<isHead, rw, clHeader, bufferedStr, wire, writes, sentBody, readerVars>>

------------------------------------------------------------------------------
(* The client                                                              *)

available == Len(wire) - pos
byte(k) == wire[pos + k]

\* parseNextFrame reads a type and a length, and a frame that is skipped or decoded must be
\* there; the stream may end before that.
isSkipped(type) == type \notin {frameData, frameHeaders, frameSettings}
complete(n) == available >= n \/ wireEnd = "fin"
endsBefore(n) == available < n

\* doRequest: unknown frames are skipped, then the first frame must be a HEADERS frame, not too
\* long, and its block is read and decoded.  A Content-Length limits what the body may hold.
ReadResponseHeaders ==
    /\ reader = "headers"
    /\ complete(2)
    /\ ~endsBefore(2) => complete(2 + byte(2))
    /\ LET ended == endsBefore(2) \/ endsBefore(2 + byte(2))
           refused == ~isSkipped(byte(1)) /\ (byte(1) # frameHeaders \/ byte(2) > MaxHeaderBytes)
       IN  IF ended \/ refused
           THEN reader' = "failed" /\ UNCHANGED <<pos, limit>>
           ELSE /\ pos' = pos + 2 + byte(2)
                /\ limit' = IF isSkipped(byte(1)) THEN limit ELSE byte(6) - 2
                /\ reader' = IF isSkipped(byte(1)) THEN "headers" ELSE "idle"
    /\ UNCHANGED <<bytesRemainingInFrame, gotBody, writerVars>>

\* A reset reaches the client at any time, also before the data.
ReadFails ==
    /\ wireEnd = "reset" /\ reader \in {"headers", "reading", "idle"}
    /\ reader' = "failed"
    /\ UNCHANGED <<pos, bytesRemainingInFrame, limit, gotBody, writerVars>>

\* lengthLimitedStream.checkContentLengthViolation with the stream's remaining bytes.
tooMuchData(read, remaining) ==
    /\ limit # NoLength
    /\ read > limit \/ (read = limit /\ remaining > 0)

\* A call of Read starts with that check.
StartRead ==
    /\ reader = "idle"
    /\ reader' = IF tooMuchData(Len(gotBody), bytesRemainingInFrame) THEN "tooMuch" ELSE "reading"
    /\ UNCHANGED <<pos, bytesRemainingInFrame, limit, gotBody, writerVars>>

\* stream.Read between frames: the next DATA frame is looked for.  A HEADERS frame is passed over
\* by continuing after its type and length, an unknown frame is skipped with its content, and a
\* SETTINGS frame closes the connection.
ParseFrame ==
    /\ reader = "reading" /\ bytesRemainingInFrame = 0
    /\ complete(2)
    /\ ~endsBefore(2) /\ isSkipped(byte(1)) => complete(2 + byte(2))
    /\ LET type == IF endsBefore(2) THEN NoLength ELSE byte(1)
           skipped == isSkipped(type) /\ type # NoLength
           ended == type = NoLength \/ (skipped /\ endsBefore(2 + byte(2)))
       IN  /\ pos' = IF ended \/ type = frameSettings THEN pos
                     ELSE pos + 2 + (IF skipped THEN byte(2) ELSE 0)
           /\ bytesRemainingInFrame' = IF type = frameData THEN byte(2) ELSE 0
           /\ reader' = IF ended THEN "eof"
                        ELSE IF type = frameSettings THEN "frameError"
                        ELSE IF type = frameData /\ byte(2) = 0 THEN "idle" ELSE "reading"
    /\ UNCHANGED <<limit, gotBody, writerVars>>

\* Mutant: the Content-Length does not limit a read.
toReadUnlimited(len) == IF bytesRemainingInFrame < len THEN bytesRemainingInFrame ELSE len

\* How many bytes one call asks the QUIC stream for: at most the slice, the rest of the frame and
\* the rest of the Content-Length.
toRead(len) ==
    LET capped == IF limit = NoLength \/ len < limit - Len(gotBody) THEN len ELSE limit - Len(gotBody)
    IN  IF bytesRemainingInFrame < capped THEN bytesRemainingInFrame ELSE capped

\* stream.Read within a DATA frame.  The QUIC stream returns what it has; the end of the stream
\* may be reported with the last bytes.
ReadData ==
    /\ reader = "reading" /\ bytesRemainingInFrame > 0
    /\ \E len \in ReadSizes :
       LET n == IF toRead(len) < available THEN toRead(len) ELSE available
           got == gotBody \o SubSeq(wire, pos + 1, pos + n)
           remaining == IF n > bytesRemainingInFrame THEN 0 ELSE bytesRemainingInFrame - n
           ended == wireEnd = "fin" /\ pos + n = Len(wire)
       IN  /\ n > 0 \/ ended \/ toRead(len) = 0
           /\ pos' = pos + n
           /\ bytesRemainingInFrame' = remaining
           /\ gotBody' = got
           /\ reader' \in IF tooMuchData(Len(got), remaining) THEN {"tooMuch"}
                          ELSE (IF ended THEN {"eof"} ELSE {}) \cup (IF n > 0 \/ ~ended THEN {"idle"} ELSE {})
    /\ UNCHANGED <<limit, writerVars>>

Next ==
    \/ HandlerSetsContentLength \/ HandlerWritesHeader \/ HandlerWrites \/ HandlerFlushes
    \/ HandlerReturns \/ HandlerPanics
    \/ ReadResponseHeaders \/ ReadFails \/ StartRead \/ ParseFrame \/ ReadData

Spec == Init /\ [][Next]_h3bVars

------------------------------------------------------------------------------
\* What the application reads is what the handler wrote, in order and nothing else, however the
\* writes, the flushes and the reads cut it up; when it reads the end of the body after a handler
\* that returned, it has read all of it; and a response is never refused as malformed
\* (http3/http_stream.go stream.Read, http3/response_writer.go).
BodyArrives ==
    /\ IsPrefix(gotBody, sentBody)
    /\ reader = "eof" => gotBody = sentBody
    /\ reader # "frameError"
    /\ reader = "failed" => handler = "panicked"

\* The Content-Length is kept: no more bytes than it says reach the application, the body is
\* refused only when more were sent, and its end is never reported as regular then
\* (http3/http_stream.go lengthLimitedStream).
ContentLengthIsKept ==
    limit # NoLength =>
       /\ Len(gotBody) <= limit
       /\ reader = "tooMuch" => Len(sentBody) > limit
       /\ reader = "eof" => Len(sentBody) <= limit
=============================================================================
