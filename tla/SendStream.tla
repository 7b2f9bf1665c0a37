----------------------------- MODULE SendStream -----------------------------
(***************************************************************************)
(* One send stream: one goroutine writes and closes, others cancel, set    *)
(* deadlines or shut the connection down, and the run loop pops frames,    *)
(* handles STOP_SENDING and MAX_STREAM_DATA and reports acknowledged and   *)
(* lost frames.  The mutex makes a call atomic up to the points where      *)
(* Write releases it: before it tells the framer, and while it waits.      *)
(*                                                                         *)
(* Data is counted in bytes; nil and empty slices agree.  The framer's set *)
(* of active streams, seen from this stream, is the flag active; the       *)
(* framer holds its own mutex while it pops a frame and files the stream.  *)
(***************************************************************************)
EXTENDS Integers, Sequences, FiniteSets, SequencesExt

CONSTANTS
    WriteSizes,          \* lengths of the slices passed to Write
    MaxWritten,          \* bound: bytes passed to Write
    MaxPacketBufferSize, \* what a STREAM frame can buffer
    MaxDataLen,          \* the most data that fits into a frame
    SendWindows,         \* the windows the peer may announce
    MaxLost              \* bound: frames lost

ASSUME SendAssumption ==
    /\ WriteSizes \subseteq Nat /\ SendWindows \subseteq Nat
    /\ MaxWritten \in Nat /\ MaxPacketBufferSize \in Nat /\ MaxDataLen \in Nat /\ MaxLost \in Nat

VARIABLES
    writeOffset, nextFrame, dataForWriting,
    finishedWriting, finSent, cancelWriteErr, sndShutdownErr,
    numOutstandingFrames, retransmissionQueue,
    sndCompleted,    \* calls of onStreamCompleted
    writeSig,        \* writeChan
    wdeadline,       \* "none", "future" or "past"
    writer,          \* the Write call
    closing,         \* Close has set finishedWriting and not told the framer yet
    sendWindow, lastBlockedAt,   \* the stream's flow controller
    active,          \* is the stream among the framer's active streams?
    inFlight,        \* frames neither acknowledged nor declared lost
    resetFinalSize,  \* the RESET_STREAM queued, NoReset before
    written,         \* history: bytes that calls of Write have reported as written
    lostFrames       \* counter for MaxLost

sndVars == <<writeOffset, nextFrame, dataForWriting, finishedWriting, finSent, cancelWriteErr,
             sndShutdownErr, numOutstandingFrames, retransmissionQueue, sndCompleted, writeSig,
             wdeadline, writer, closing, sendWindow, lastBlockedAt, active, inFlight,
             resetFinalSize, written, lostFrames>>

NoReset == -1
noWrite == [pc |-> "idle", len |-> 0, notified |-> FALSE, timer |-> FALSE]
Min2(a, b) == IF a < b THEN a ELSE b

-----------------------------------------------------------------------------
(* Write *)

canBufferStreamFrame == nextFrame + dataForWriting <= MaxPacketBufferSize

\* The call returns n bytes.
WriteReturns(n) == writer' = noWrite /\ written' = written + n

(* The loop of Write under the mutex, with data = dataForWriting: copy     *)
(* into nextFrame, give up, or release the mutex and wait.                 *)
writeLoop(call, data) ==
    LET copies == data > 0 /\ nextFrame + data <= MaxPacketBufferSize
        expired == wdeadline = "past"
        stops == data = 0 \/ cancelWriteErr \/ sndShutdownErr
    IN  \/ /\ copies
           /\ nextFrame' = nextFrame + data
           /\ dataForWriting' = 0
           /\ IF call.notified THEN WriteReturns(call.len)
              ELSE writer' = [call EXCEPT !.pc = "notifyCopied"] /\ UNCHANGED written
        \/ /\ ~copies
           /\ UNCHANGED nextFrame
           /\ dataForWriting' = IF expired THEN 0 ELSE data
           /\ IF expired \/ stops THEN WriteReturns(call.len - data)
              ELSE /\ writer' = [call EXCEPT !.pc = IF call.notified THEN "wait" ELSE "notify",
                                             !.timer = wdeadline = "future"]
                   /\ UNCHANGED written

\* Write up to the first release of the mutex.
Write(n) ==
    /\ writer.pc = "idle"
    /\ written + n <= MaxWritten
    /\ ~finishedWriting /\ ~cancelWriteErr /\ ~sndShutdownErr /\ wdeadline # "past"
    /\ writeLoop([noWrite EXCEPT !.len = n], n)
    /\ UNCHANGED <<writeOffset, finishedWriting, finSent, cancelWriteErr, sndShutdownErr,
                   numOutstandingFrames, retransmissionQueue, sndCompleted, writeSig, wdeadline,
                   closing, sendWindow, lastBlockedAt, active, inFlight, resetFinalSize, lostFrames>>

\* onHasStreamData, called without the mutex.
WriteNotifies ==
    /\ writer.pc \in {"notify", "notifyCopied"}
    /\ active' = TRUE
    /\ IF writer.pc = "notify"
       THEN writer' = [writer EXCEPT !.pc = "wait", !.notified = TRUE] /\ UNCHANGED written
       ELSE WriteReturns(writer.len)
    /\ UNCHANGED <<writeOffset, nextFrame, dataForWriting, finishedWriting, finSent, cancelWriteErr,
                   sndShutdownErr, numOutstandingFrames, retransmissionQueue, sndCompleted, writeSig,
                   wdeadline, closing, sendWindow, lastBlockedAt, inFlight, resetFinalSize, lostFrames>>

writeTimerFired == writer.timer /\ wdeadline = "past"

\* A signal or the timer ends the wait.
WriteWakes ==
    /\ writer.pc = "wait"
    /\ \/ writeSig /\ writeSig' = FALSE
       \/ writeTimerFired /\ UNCHANGED writeSig
    /\ writeLoop(writer, dataForWriting)
    /\ UNCHANGED <<writeOffset, finishedWriting, finSent, cancelWriteErr, sndShutdownErr,
                   numOutstandingFrames, retransmissionQueue, sndCompleted, wdeadline, closing,
                   sendWindow, lastBlockedAt, active, inFlight, resetFinalSize, lostFrames>>

\* Close, which must not be called while a Write runs or after CancelWrite.
Close ==
    /\ writer.pc = "idle"
    /\ ~finishedWriting /\ ~cancelWriteErr /\ ~sndShutdownErr
    /\ finishedWriting' = TRUE
    /\ closing' = TRUE
    /\ UNCHANGED <<writeOffset, nextFrame, dataForWriting, finSent, cancelWriteErr, sndShutdownErr,
                   numOutstandingFrames, retransmissionQueue, sndCompleted, writeSig, wdeadline,
                   writer, sendWindow, lastBlockedAt, active, inFlight, resetFinalSize, written, lostFrames>>

CloseNotifies ==
    /\ closing
    /\ closing' = FALSE
    /\ active' = TRUE
    /\ UNCHANGED <<writeOffset, nextFrame, dataForWriting, finishedWriting, finSent, cancelWriteErr,
                   sndShutdownErr, numOutstandingFrames, retransmissionQueue, sndCompleted, writeSig,
                   wdeadline, writer, sendWindow, lastBlockedAt, inFlight, resetFinalSize, written,
                   lostFrames>>

SetWriteDeadline(t) ==
    /\ wdeadline' = t
    /\ writeSig' = TRUE
    /\ UNCHANGED <<writeOffset, nextFrame, dataForWriting, finishedWriting, finSent, cancelWriteErr,
                   sndShutdownErr, numOutstandingFrames, retransmissionQueue, sndCompleted, writer,
                   closing, sendWindow, lastBlockedAt, active, inFlight, resetFinalSize, written,
                   lostFrames>>

WriteDeadlinePasses ==
    /\ wdeadline = "future"
    /\ wdeadline' = "past"
    /\ UNCHANGED <<writeOffset, nextFrame, dataForWriting, finishedWriting, finSent, cancelWriteErr,
                   sndShutdownErr, numOutstandingFrames, retransmissionQueue, sndCompleted, writeSig,
                   writer, closing, sendWindow, lastBlockedAt, active, inFlight, resetFinalSize,
                   written, lostFrames>>

-----------------------------------------------------------------------------
(* popStreamFrame, with room for at most max bytes of data                 *)

SendWindowSize == sendWindow - writeOffset
IsNewlyBlocked == SendWindowSize = 0 /\ sendWindow # lastBlockedAt

\* A frame leaves; the framer keeps the stream active if there is more.
sends(f, more) ==
    /\ inFlight' = Append(inFlight, f)
    /\ numOutstandingFrames' = numOutstandingFrames + 1
    /\ active' = more

\* MaybeSplitOffFrame: a frame with the first max bytes of f, and what is left of f.
MaybeSplitOffFrame(f, max) ==
    [new |-> [f EXCEPT !.len = max, !.fin = FALSE],
     rest |-> [f EXCEPT !.off = @ + max, !.len = @ - max]]

\* maybeGetRetransmission: the first frame of the queue, split if it is too long.
popRetransmission(max) ==
    LET f == Head(retransmissionQueue)
    IN  /\ retransmissionQueue # <<>>
        /\ IF f.len > max
           THEN /\ sends(MaybeSplitOffFrame(f, max).new, TRUE)
                /\ retransmissionQueue' = [retransmissionQueue EXCEPT ![1] = MaybeSplitOffFrame(f, max).rest]
           ELSE /\ sends(f, TRUE)
                /\ retransmissionQueue' = Tail(retransmissionQueue)
        /\ UNCHANGED <<writeOffset, nextFrame, dataForWriting, finSent, writeSig, lastBlockedAt>>

\* The FIN alone, or nothing.
popFin ==
    /\ retransmissionQueue = <<>> /\ dataForWriting = 0 /\ nextFrame = 0
    /\ IF finishedWriting /\ ~finSent
       THEN finSent' = TRUE /\ sends([off |-> writeOffset, len |-> 0, fin |-> TRUE], FALSE)
       ELSE active' = FALSE /\ UNCHANGED <<finSent, inFlight, numOutstandingFrames>>
    /\ UNCHANGED <<writeOffset, nextFrame, dataForWriting, writeSig, lastBlockedAt, retransmissionQueue>>

\* No window.  STREAM_DATA_BLOCKED is queued once for every window.
popBlocked ==
    /\ retransmissionQueue = <<>> /\ dataForWriting + nextFrame > 0 /\ SendWindowSize = 0
    /\ lastBlockedAt' = sendWindow
    /\ active' = ~IsNewlyBlocked
    /\ UNCHANGED <<writeOffset, nextFrame, dataForWriting, finSent, writeSig, retransmissionQueue,
                   inFlight, numOutstandingFrames>>

\* Mutant: the writer is woken when nothing is left, not when the rest fits into the buffer.
signalsWriteWhenEmpty(rest) == rest = 0

\* getDataForWriting: does the rest of the data fit into nextFrame?
signalsWrite(rest) == rest <= MaxPacketBufferSize

\* New data: nextFrame if there is one, else from the slice passed to Write.
popNew(max) ==
    LET buffered == nextFrame > 0
        n == Min2(IF buffered THEN nextFrame ELSE dataForWriting, Min2(max, SendWindowSize))
        frame == IF buffered THEN nextFrame - n ELSE 0
        data == IF buffered THEN dataForWriting ELSE dataForWriting - n
        fin == finishedWriting /\ data = 0 /\ frame = 0 /\ ~finSent
    IN  /\ retransmissionQueue = <<>> /\ dataForWriting + nextFrame > 0 /\ SendWindowSize > 0
        /\ nextFrame' = frame
        /\ dataForWriting' = data
        /\ writeOffset' = writeOffset + n
        /\ finSent' = (finSent \/ fin)
        /\ writeSig' = (writeSig \/ IF buffered THEN frame = 0 ELSE signalsWrite(data))
        /\ sends([off |-> writeOffset, len |-> n, fin |-> fin],
                 frame > 0 \/ data > 0 \/ (~buffered /\ finishedWriting))
        /\ UNCHANGED <<lastBlockedAt, retransmissionQueue>>

\* The framer pops a frame of an active stream.
popStreamFrame(max) ==
    /\ active
    /\ IF cancelWriteErr \/ sndShutdownErr
       THEN /\ active' = FALSE
            /\ UNCHANGED <<writeOffset, nextFrame, dataForWriting, finSent, writeSig, lastBlockedAt,
                           retransmissionQueue, inFlight, numOutstandingFrames>>
       ELSE popRetransmission(max) \/ popFin \/ popBlocked \/ popNew(max)
    /\ UNCHANGED <<finishedWriting, cancelWriteErr, sndShutdownErr, sndCompleted, wdeadline, writer,
                   closing, sendWindow, resetFinalSize, written, lostFrames>>

-----------------------------------------------------------------------------
(* Frames that arrive or are reported, and the calls that end the stream   *)

\* isNewlyCompleted, evaluated in the state that results.
isNewlyCompleted ==
    /\ sndCompleted = 0
    /\ finSent \/ cancelWriteErr'
    /\ numOutstandingFrames' = 0
    /\ retransmissionQueue' = <<>>

completes == sndCompleted' = IF isNewlyCompleted THEN sndCompleted + 1 ELSE sndCompleted

OnAcked(i) ==
    /\ inFlight' = RemoveAt(inFlight, i)
    /\ numOutstandingFrames' = IF cancelWriteErr THEN numOutstandingFrames ELSE numOutstandingFrames - 1
    /\ UNCHANGED <<retransmissionQueue, cancelWriteErr>>
    /\ IF cancelWriteErr THEN UNCHANGED sndCompleted ELSE completes
    /\ UNCHANGED <<writeOffset, nextFrame, dataForWriting, finishedWriting, finSent, sndShutdownErr,
                   writeSig, wdeadline, writer, closing, sendWindow, lastBlockedAt, active,
                   resetFinalSize, written, lostFrames>>

\* OnLost, with the call of onHasStreamData that ends it.
OnLost(i) ==
    /\ lostFrames < MaxLost
    /\ lostFrames' = lostFrames + 1
    /\ inFlight' = RemoveAt(inFlight, i)
    /\ IF cancelWriteErr THEN UNCHANGED <<numOutstandingFrames, retransmissionQueue, active>>
       ELSE /\ numOutstandingFrames' = numOutstandingFrames - 1
            /\ retransmissionQueue' = Append(retransmissionQueue, inFlight[i])
            /\ active' = TRUE
    /\ UNCHANGED <<writeOffset, nextFrame, dataForWriting, finishedWriting, finSent, cancelWriteErr,
                   sndShutdownErr, sndCompleted, writeSig, wdeadline, writer, closing, sendWindow,
                   lastBlockedAt, resetFinalSize, written>>

\* Mutant: canceling keeps the frames that wait for a retransmission.
cancelKeepsQueue ==
    /\ ~cancelWriteErr
    /\ cancelWriteErr' = TRUE
    /\ numOutstandingFrames' = 0
    /\ UNCHANGED retransmissionQueue
    /\ completes
    /\ writeSig' = TRUE
    /\ resetFinalSize' = writeOffset
    /\ UNCHANGED <<writeOffset, nextFrame, dataForWriting, finishedWriting, finSent, sndShutdownErr,
                   wdeadline, writer, closing, sendWindow, lastBlockedAt, active, inFlight, written,
                   lostFrames>>

\* CancelWrite, and handleStopSendingFrame.  CancelWrite does nothing else for a
\* stream that was shut down or is complete: its RESET_STREAM is queued all the same.
cancelWriteImpl ==
    /\ ~cancelWriteErr
    /\ cancelWriteErr' = TRUE
    /\ numOutstandingFrames' = 0
    /\ retransmissionQueue' = <<>>
    /\ completes
    /\ writeSig' = TRUE
    /\ resetFinalSize' = writeOffset
    /\ UNCHANGED <<writeOffset, nextFrame, dataForWriting, finishedWriting, finSent, sndShutdownErr,
                   wdeadline, writer, closing, sendWindow, lastBlockedAt, active, inFlight, written,
                   lostFrames>>

\* Mutant: data that Write left in nextFrame does not count.
hasStreamDataUnbuffered == dataForWriting > 0

hasStreamData == dataForWriting + nextFrame > 0

\* MAX_STREAM_DATA; the limit may be stale.
updateSendWindow(limit) ==
    /\ limit > sendWindow
    /\ sendWindow' = limit
    /\ active' = (active \/ hasStreamData)
    /\ UNCHANGED <<writeOffset, nextFrame, dataForWriting, finishedWriting, finSent, cancelWriteErr,
                   sndShutdownErr, numOutstandingFrames, retransmissionQueue, sndCompleted, writeSig,
                   wdeadline, writer, closing, lastBlockedAt, inFlight, resetFinalSize, written,
                   lostFrames>>

sndCloseForShutdown ==
    /\ ~sndShutdownErr
    /\ sndShutdownErr' = TRUE
    /\ writeSig' = TRUE
    /\ UNCHANGED <<writeOffset, nextFrame, dataForWriting, finishedWriting, finSent, cancelWriteErr,
                   numOutstandingFrames, retransmissionQueue, sndCompleted, wdeadline, writer, closing,
                   sendWindow, lastBlockedAt, active, inFlight, resetFinalSize, written, lostFrames>>

-----------------------------------------------------------------------------
SendInit ==
    /\ writeOffset = 0 /\ nextFrame = 0 /\ dataForWriting = 0
    /\ finishedWriting = FALSE /\ finSent = FALSE /\ cancelWriteErr = FALSE /\ sndShutdownErr = FALSE
    /\ numOutstandingFrames = 0 /\ retransmissionQueue = <<>> /\ sndCompleted = 0
    /\ writeSig = FALSE /\ wdeadline = "none" /\ writer = noWrite /\ closing = FALSE
    /\ sendWindow \in SendWindows /\ lastBlockedAt = 0
    /\ active = FALSE /\ inFlight = <<>> /\ resetFinalSize = NoReset
    /\ written = 0 /\ lostFrames = 0

SendNext ==
    \/ \E n \in WriteSizes : Write(n)
    \/ WriteNotifies \/ WriteWakes
    \/ Close \/ CloseNotifies
    \/ \E t \in {"none", "future", "past"} : SetWriteDeadline(t)
    \/ WriteDeadlinePasses
    \/ \E max \in 1 .. MaxDataLen : popStreamFrame(max)
    \/ \E i \in DOMAIN inFlight : OnAcked(i) \/ OnLost(i)
    \/ cancelWriteImpl
    \/ \E limit \in SendWindows : updateSendWindow(limit)
    \/ sndCloseForShutdown

SendSpec == SendInit /\ [][SendNext]_sndVars

-----------------------------------------------------------------------------
\* writeChan: a Write that waits without a signal has no error or deadline to return
\* for, and has data that a buffered frame keeps waiting or that fits into none.
WaitingWriteIsBlocked ==
    (writer.pc = "wait" /\ ~writeSig /\ ~writeTimerFired) =>
        /\ dataForWriting > 0
        /\ nextFrame > 0 \/ ~canBufferStreamFrame
        /\ ~cancelWriteErr /\ ~sndShutdownErr
        /\ wdeadline # "past" /\ (wdeadline = "future" => writer.timer)

\* onHasStreamData and updateSendWindow: a stream with something to send that its
\* window allows (a lost frame, data, the FIN) is among the framer's active streams,
\* unless the call that is about to activate it is on its way.
SendableIsActive ==
    (/\ ~cancelWriteErr /\ ~sndShutdownErr
     /\ \/ retransmissionQueue # <<>>
        \/ dataForWriting + nextFrame > 0 /\ SendWindowSize > 0
        \/ finishedWriting /\ ~finSent /\ dataForWriting + nextFrame = 0)
    => active \/ closing \/ writer.pc \in {"notify", "notifyCopied"}

\* The end of the stream: a RESET_STREAM names as final size what has left in
\* STREAM frames, whatever CancelWrite raced with; what Write reported as written has
\* left or is buffered, once; and the stream is reported as completed once, when it
\* is canceled or every frame up to the FIN has been acknowledged.
EndOfStream ==
    /\ resetFinalSize # NoReset => resetFinalSize = writeOffset
    /\ \A i \in DOMAIN inFlight : inFlight[i].off + inFlight[i].len <= writeOffset
    /\ writer.pc = "idle" => written = writeOffset + nextFrame
    /\ sndCompleted <= 1
    /\ sndCompleted = 1 <=> \/ cancelWriteErr
                            \/ finSent /\ inFlight = <<>> /\ retransmissionQueue = <<>>
=============================================================================
