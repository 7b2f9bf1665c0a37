--------------------------- MODULE ReceiveStream ---------------------------
(***************************************************************************)
(* One receive stream: the run loop hands it STREAM and RESET_STREAM       *)
(* frames, one goroutine reads, others cancel, set deadlines or shut the   *)
(* connection down.  The mutex makes a call atomic up to the point where   *)
(* Read waits on readChan.                                                 *)
(*                                                                         *)
(* The peer may frame its FinalSize bytes as it likes, repeat and overlap  *)
(* them, and obeys flow control and its own final size.  connRead is what  *)
(* this stream has given back to the connection's flow controller.         *)
(***************************************************************************)
EXTENDS Integers, Sequences, FiniteSets, FrameSorter

CONSTANTS
    FinalSize,      \* bytes the peer sends on the stream
    ReadSizes,      \* sizes of the buffers passed to Read
    ResetAfterFin   \* may a RESET_STREAM follow the FIN?

ASSUME RecvAssumption ==
    /\ FinalSize \in Nat /\ MaxByteCount \in Nat /\ FinalSize < MaxByteCount
    /\ ReadSizes \subseteq Nat
    /\ ResetAfterFin \in BOOLEAN

VARIABLES
    sorter,               \* frameQueue
    finalOffset,          \* MaxByteCount until it is known
    cur, curPos, curLast, \* currentFrame (<<>> is nil), readPosInFrame, currentFrameIsLast
    finRead, cancelReadErr, resetRemotelyErr, shutdownErr,
    readSig,              \* readChan
    rdeadline,            \* "none", "future" or "past"
    reader,               \* the Read call: waiting in the select, size, bytesRead, timer
    readBytes,            \* history: what Read calls have returned, in order
    told,                 \* history: the application was told that the stream ended
    highestReceived, bytesRead, connRead, \* the flow controllers
    rcvCompleted          \* calls of onStreamCompleted

rcvVars == <<sorter, finalOffset, cur, curPos, curLast, finRead, cancelReadErr, resetRemotelyErr,
             shutdownErr, readSig, rdeadline, reader, readBytes, told, highestReceived, bytesRead,
             connRead, rcvCompleted>>

idle == [waiting |-> FALSE, size |-> 0, got |-> 0, timer |-> FALSE]

-----------------------------------------------------------------------------
(* Read.  A record collects what one stretch under the mutex changes.      *)

ReadState(call) ==
    [sorter |-> sorter, cur |-> cur, pos |-> curPos, last |-> curLast, fin |-> finRead,
     call |-> call, read |-> <<>>, ret |-> "no"]

dequeueNextFrame(st) ==
    LET p == Pop(st.sorter)
    IN  [st EXCEPT !.sorter = p.s, !.cur = p.data, !.pos = 0,
                   !.last = p.offset + Len(p.data) >= finalOffset]

\* The errors that stop the wait, in the order in which readImpl looks at them.
readErr ==
    CASE shutdownErr -> "shutdown" [] cancelReadErr -> "canceled"
      [] resetRemotelyErr -> "reset" [] rdeadline = "past" -> "deadline" [] OTHER -> "no"

(* One round of the outer loop of readImpl, from the check of the errors   *)
(* on: wait, or copy and perhaps finish.                                   *)
copyFrame(st) ==
    LET m == Min({st.call.size - st.call.got, Len(st.cur) - st.pos})
        t == [st EXCEPT !.pos = @ + m, !.call.got = @ + m,
                        !.read = @ \o SubSeq(st.cur, st.pos + 1, st.pos + m)]
    IN  IF readErr # "no" THEN [st EXCEPT !.ret = readErr]
        ELSE IF st.cur = <<>> /\ ~st.last
             THEN [st EXCEPT !.ret = "wait", !.call.waiting = TRUE, !.call.timer = rdeadline = "future"]
        ELSE IF t.pos >= Len(st.cur) /\ st.last THEN [t EXCEPT !.fin = TRUE, !.cur = <<>>, !.ret = "EOF"]
        ELSE IF t.call.got >= st.call.size THEN [t EXCEPT !.ret = "full"] ELSE t

\* The head of the outer loop.
nextReadFrame(st) ==
    LET d == IF st.cur = <<>> \/ st.pos >= Len(st.cur) THEN dequeueNextFrame(st) ELSE st
    IN  IF d.cur = <<>> /\ st.call.got > 0
        THEN [d EXCEPT !.ret = IF shutdownErr THEN "shutdown" ELSE "partial"] ELSE copyFrame(d)

\* Every round copies a byte or ends the stretch.
readLoop(st) ==
    LET round[n \in 0 .. st.call.size] ==
            IF n = 0 THEN st
            ELSE LET r == round[n - 1] IN IF r.ret # "no" THEN r ELSE nextReadFrame(r)
    IN  round[st.call.size]

readReturns(st) ==
    /\ sorter' = st.sorter /\ cur' = st.cur /\ curPos' = st.pos /\ curLast' = st.last
    /\ finRead' = st.fin
    /\ reader' = IF st.ret = "wait" THEN st.call ELSE idle
    /\ readBytes' = readBytes \o st.read
    /\ bytesRead' = bytesRead + Len(st.read)
    /\ connRead' = connRead + Len(st.read)
    /\ told' = (told \/ st.ret \in {"EOF", "reset", "canceled"})
    /\ rcvCompleted' = IF st.ret = "EOF" THEN rcvCompleted + 1 ELSE rcvCompleted
    /\ UNCHANGED <<finalOffset, cancelReadErr, resetRemotelyErr, shutdownErr, rdeadline, highestReceived>>

\* readImpl's first checks, in their order.
Read(n) ==
    /\ ~reader.waiting
    /\ IF finRead \/ cancelReadErr \/ resetRemotelyErr \/ shutdownErr
       THEN /\ told' = (told \/ finRead \/ cancelReadErr \/ resetRemotelyErr)
            /\ UNCHANGED <<sorter, finalOffset, cur, curPos, curLast, finRead, cancelReadErr,
                           resetRemotelyErr, shutdownErr, rdeadline, reader, readBytes,
                           highestReceived, bytesRead, connRead, rcvCompleted>>
       ELSE readReturns(readLoop(ReadState([idle EXCEPT !.size = n])))
    /\ UNCHANGED readSig

\* A signal or the timer ends the wait; dequeueNextFrame if there is no current frame.
timerFired == reader.timer /\ rdeadline = "past"

ReadWakes ==
    /\ reader.waiting
    /\ \/ readSig /\ readSig' = FALSE
       \/ timerFired /\ UNCHANGED readSig
    /\ \E st \in {ReadState([reader EXCEPT !.waiting = FALSE])} :
       \E first \in {copyFrame(IF st.cur = <<>> THEN dequeueNextFrame(st) ELSE st)} :
           readReturns(IF first.ret # "no" THEN first ELSE readLoop(first))

\* The deadline passes.
ReadDeadlinePasses ==
    /\ rdeadline = "future"
    /\ rdeadline' = "past"
    /\ UNCHANGED <<sorter, finalOffset, cur, curPos, curLast, finRead, cancelReadErr, resetRemotelyErr,
                   shutdownErr, readSig, reader, readBytes, told, highestReceived, bytesRead, connRead,
                   rcvCompleted>>

\* SetReadDeadline: no deadline, one in the future or one in the past.
SetReadDeadline(t) ==
    /\ rdeadline' = t
    /\ readSig' = TRUE
    /\ UNCHANGED <<sorter, finalOffset, cur, curPos, curLast, finRead, cancelReadErr, resetRemotelyErr,
                   shutdownErr, reader, readBytes, told, highestReceived, bytesRead, connRead,
                   rcvCompleted>>

-----------------------------------------------------------------------------
(* The run loop and other goroutines.                                      *)

\* Mutant: a stream that is given up gives nothing back.
AbandonNothing(highest) == 0

\* flowController.Abandon.
Abandon(highest) == highest - bytesRead

complete(completed, highest) ==
    /\ connRead' = IF completed THEN connRead + Abandon(highest) ELSE connRead
    /\ rcvCompleted' = IF completed THEN rcvCompleted + 1 ELSE rcvCompleted

\* Mutant: only frames that extend the received data wake the reader.
signalsReadOnProgress(off, len) == off + len > highestReceived

\* handleStreamFrameImpl signals whatever the sorter made of the frame.
signalsRead(off, len) == TRUE

handleStreamFrame(off, len, fin) ==
    /\ ~shutdownErr
    /\ \E highest \in {Max({highestReceived, off + len})}, p \in {push(sorter, off, len)} :
         /\ ~p.err
         /\ highestReceived' = highest
         /\ finalOffset' = IF fin THEN off + len ELSE finalOffset
         /\ complete(cancelReadErr /\ fin /\ finalOffset = MaxByteCount, highest)
         /\ sorter' = IF cancelReadErr THEN sorter ELSE p.s
         /\ readSig' = (readSig \/ (~cancelReadErr /\ signalsRead(off, len)))
    /\ UNCHANGED <<cur, curPos, curLast, finRead, cancelReadErr, resetRemotelyErr, shutdownErr,
                   rdeadline, reader, readBytes, told, bytesRead>>

\* Mutant: a RESET_STREAM always completes the stream.
resetCompletesAlways == TRUE

\* newlyRcvdFinalOffset.
resetCompletes == finalOffset = MaxByteCount

handleResetStreamFrame ==
    /\ ~shutdownErr
    /\ ~resetRemotelyErr
    /\ ResetAfterFin \/ finalOffset = MaxByteCount \/ cancelReadErr
    /\ highestReceived' = FinalSize
    /\ finalOffset' = FinalSize
    /\ complete(resetCompletes, FinalSize)
    /\ resetRemotelyErr' = TRUE
    /\ readSig' = TRUE
    /\ UNCHANGED <<sorter, cur, curPos, curLast, finRead, cancelReadErr, shutdownErr, rdeadline,
                   reader, readBytes, told, bytesRead>>

CancelRead ==
    /\ ~finRead /\ ~cancelReadErr /\ ~resetRemotelyErr
    /\ cancelReadErr' = TRUE
    /\ readSig' = TRUE
    /\ complete(finalOffset # MaxByteCount, highestReceived)
    /\ UNCHANGED <<sorter, finalOffset, cur, curPos, curLast, finRead, resetRemotelyErr, shutdownErr,
                   rdeadline, reader, readBytes, told, highestReceived, bytesRead>>

closeForShutdown ==
    /\ ~shutdownErr
    /\ shutdownErr' = TRUE
    /\ readSig' = TRUE
    /\ UNCHANGED <<sorter, finalOffset, cur, curPos, curLast, finRead, cancelReadErr, resetRemotelyErr,
                   rdeadline, reader, readBytes, told, highestReceived, bytesRead, connRead,
                   rcvCompleted>>

-----------------------------------------------------------------------------
RecvInit ==
    /\ sorter = newFrameSorter
    /\ finalOffset = MaxByteCount
    /\ cur = <<>> /\ curPos = 0 /\ curLast = FALSE
    /\ finRead = FALSE /\ cancelReadErr = FALSE /\ resetRemotelyErr = FALSE /\ shutdownErr = FALSE
    /\ readSig = FALSE /\ rdeadline = "none"
    /\ reader = idle /\ readBytes = <<>> /\ told = FALSE
    /\ highestReceived = 0 /\ bytesRead = 0 /\ connRead = 0
    /\ rcvCompleted = 0

RecvNext ==
    \/ \E n \in ReadSizes : Read(n)
    \/ ReadWakes
    \/ ReadDeadlinePasses
    \/ \E t \in {"none", "future", "past"} : SetReadDeadline(t)
    \/ \E off \in 0 .. FinalSize : \E len \in 0 .. (FinalSize - off) :
          \E fin \in {FALSE, off + len = FinalSize} : handleStreamFrame(off, len, fin)
    \/ handleResetStreamFrame
    \/ CancelRead
    \/ closeForShutdown

RecvSpec == RecvInit /\ [][RecvNext]_rcvVars

-----------------------------------------------------------------------------
\* frame_sorter.go: however frames overlap and repeat, Read returns the bytes of
\* the stream in order, none twice and none left out, and what is queued or in a
\* gap is exactly what has not been read.
ReadInOrder ==
    /\ readBytes = Bytes(0, Len(readBytes))
    /\ \A p \in DOMAIN sorter.queue :
          /\ sorter.queue[p] = Bytes(p, p + Len(sorter.queue[p]))
          /\ p >= sorter.readPos
          /\ \A q \in DOMAIN sorter.queue : q > p => q >= p + Len(sorter.queue[p])
    /\ {b \in sorter.readPos .. (FinalSize - 1) :
            \A g \in DOMAIN sorter.gaps : ~(sorter.gaps[g].Start <= b /\ b < sorter.gaps[g].End)}
       = UNION {{sorter.queue[p][i] : i \in DOMAIN sorter.queue[p]} : p \in DOMAIN sorter.queue}

\* receive_stream.go, readChan: a Read that waits without a signal has nothing to
\* return: no data at its position, not the end, no error, no deadline.
WaitingReadHasNothing ==
    (reader.waiting /\ ~readSig /\ ~timerFired) =>
        /\ sorter.readPos \notin DOMAIN sorter.queue
        /\ sorter.readPos < finalOffset
        /\ ~cancelReadErr /\ ~resetRemotelyErr /\ ~shutdownErr
        /\ rdeadline # "past"
        /\ rdeadline = "future" => reader.timer

\* The connection's flow control: a stream that completes, by being read to its
\* end, reset or canceled, is reported once and has given back every byte received
\* on it exactly once; and one whose end the application has seen does complete.
StreamEndsOnce ==
    /\ rcvCompleted <= 1
    /\ connRead = IF rcvCompleted = 1 THEN highestReceived ELSE bytesRead
    /\ (told /\ finalOffset # MaxByteCount) => rcvCompleted = 1
=============================================================================
