------------------------------ MODULE RunLoop ------------------------------
(***************************************************************************)
(* The run loop of a connection whose handshake is confirmed, with the     *)
(* send queue and its writer goroutine, the goroutines that write data,    *)
(* deliver packets and close the connection, and the channels between      *)
(* them.  Frames and packets are counted, not looked into: whether         *)
(* handling a packet succeeds, how SendMode answers and whether a write to *)
(* the socket fails are free choices.  Packets are sent without GSO.       *)
(***************************************************************************)
EXTENDS Integers, FiniteSets

CONSTANTS
    sendQueueCapacity,
    MaxConnUnprocessedPackets,  \* capacity of channel receivedPackets
    MaxData,      \* bound: packets' worth of data the application writes
    MaxRcvd,      \* bound: packets that arrive
    MaxProbes     \* bound: probes that wait to be sent

\* Errors a connection is closed with: by the application, by the peer, by an
\* idle timeout, by the failing socket, by an error in the run loop.
Errors == {"application", "remote", "idle", "socket", "internal"}
None == "none"

VARIABLES
    pc,                 \* the run loop
    toHandle,           \* packets left of the batch that is being handled
    wasProcessed,       \* did any packet of the batch count?
    sendQueueAvailable, \* does the select listen to the available channel?
    pacingDeadline,     \* is it set?
    lossAlarm,          \* is the loss detection timer set?
    cwndFull,           \* does SendMode answer SendAck?
    probes,             \* numProbesToSend
    mode,               \* the packet being sent: data, an ACK, an MTU probe or a PTO probe
    unreported,         \* history: the last packet of the last round of sending was
                        \* reported to the sent packet handler without frames
    pending,            \* packets' worth of frames the packer would find
    sendingScheduled,   \* channel with one slot
    receivedPackets,    \* channel, as a number of packets
    closeChan,          \* channel with one slot: an error, or None
    closeOnce,          \* the error of the first close, or None
    closeErr,           \* what the run loop got from closeChan
    queue,              \* send queue, as a number of packets
    available,          \* channel with one slot
    closeCalled,        \* Close was called
    shouldClose,        \* the writer has seen it
    writer,             \* the writer goroutine
    connIDs,            \* what the connection IDs lead to: the connection, nothing,
                        \* or a closed connection, with or without a CONNECTION_CLOSE
    written, arrived    \* counters

loopVars == <<pc, toHandle, wasProcessed, sendQueueAvailable, closeErr>>
sendVars == <<pacingDeadline, lossAlarm, cwndFull, probes, mode>>
handlerVars == <<sendVars, unreported>>
chanVars == <<sendingScheduled, receivedPackets, closeChan, closeOnce>>
queueVars == <<queue, available, closeCalled, shouldClose, writer>>
runVars == <<loopVars, handlerVars, chanVars, queueVars, pending, written, arrived, connIDs>>

-----------------------------------------------------------------------------
(* closeLocal, closeRemote and destroyImpl: only the first one counts.     *)

\* Mutant: a later close replaces the error of an earlier one.
closeLast(e) ==
    /\ closeOnce' = IF closeOnce = None THEN e ELSE closeOnce
    /\ closeChan' = IF pc = "stopped" THEN closeChan ELSE e

close(e) ==
    /\ closeOnce' = IF closeOnce = None THEN e ELSE closeOnce
    /\ closeChan' = IF closeOnce = None THEN e ELSE closeChan

\* CloseWithError, by the application.
CloseWithError ==
    /\ close("application")
    /\ UNCHANGED <<loopVars, handlerVars, sendingScheduled, receivedPackets, queueVars,
                   pending, written, arrived, connIDs>>

\* The application queues data and calls scheduleSending.
HasData ==
    /\ written < MaxData
    /\ written' = written + 1
    /\ pending' = pending + 1
    /\ sendingScheduled' = TRUE
    /\ UNCHANGED <<loopVars, handlerVars, receivedPackets, closeChan, closeOnce, queueVars, arrived, connIDs>>

\* handlePacket, by the goroutine that reads the socket; a full channel drops.
handlePacket ==
    /\ arrived < MaxRcvd
    /\ arrived' = arrived + 1
    /\ receivedPackets' = IF receivedPackets < MaxConnUnprocessedPackets
                          THEN receivedPackets + 1 ELSE receivedPackets
    /\ UNCHANGED <<loopVars, handlerVars, sendingScheduled, closeChan, closeOnce, queueVars,
                   pending, written, connIDs>>

-----------------------------------------------------------------------------
(* The run loop.                                                           *)

\* The loop is left, and with it go its local variables.
LeaveLoop(e) ==
    /\ pc' = "stopped"
    /\ closeErr' = e
    /\ toHandle' = 0 /\ wasProcessed' = FALSE /\ sendQueueAvailable' = FALSE /\ unreported' = FALSE

Stop ==
    /\ closeChan # None
    /\ closeChan' = None
    /\ LeaveLoop(closeChan)

\* Too many queued control frames close the connection; the non-blocking look
\* at closeChan at the top; maybeResetTimer.
Top ==
    /\ pc = "top"
    /\ \/ Stop /\ UNCHANGED closeOnce
       \/ /\ closeOnce = None
          /\ closeOnce' = "internal"
          /\ LeaveLoop("internal")
          /\ UNCHANGED closeChan
       \/ /\ closeChan = None
          /\ pc' = "select"
          /\ UNCHANGED <<closeErr, closeChan, closeOnce, toHandle, wasProcessed, sendQueueAvailable, unreported>>
    /\ UNCHANGED <<sendVars, sendingScheduled,
                   receivedPackets, queueVars, pending, written, arrived, connIDs>>

\* The blocking select of the run loop.  The timer is always set, for the
\* keep-alive or the idle timeout if for nothing else, so it may fire any time.
Select ==
    LET waiting == <<toHandle, sendQueueAvailable, unreported, closeErr, closeChan>> IN
    /\ pc = "select"
    /\ \/ Stop /\ UNCHANGED <<sendingScheduled, available, receivedPackets>>
       \/ /\ pc' = "timers"
          /\ UNCHANGED <<sendingScheduled, available, receivedPackets, wasProcessed, waiting>>
       \/ /\ sendingScheduled
          /\ sendingScheduled' = FALSE
          /\ pc' = "timers"
          /\ UNCHANGED <<available, receivedPackets, wasProcessed, waiting>>
       \/ /\ sendQueueAvailable /\ available
          /\ available' = FALSE
          /\ pc' = "timers"
          /\ UNCHANGED <<sendingScheduled, receivedPackets, wasProcessed, waiting>>
       \/ /\ receivedPackets > 0
          /\ receivedPackets' = receivedPackets - 1
          /\ wasProcessed' = FALSE
          /\ pc' = "first"
          /\ UNCHANGED <<sendingScheduled, available, waiting>>
    /\ UNCHANGED <<sendVars, closeOnce, queue, closeCalled, shouldClose,
                   writer, pending, written, arrived, connIDs>>

\* Frames are queued: a retransmission, an answer to what was received, a PING.
QueuesFrames ==
    \/ UNCHANGED <<pending, written>>
    \/ written < MaxData /\ written' = written + 1 /\ pending' = pending + 1

\* ReceivedAck for a packet that was outstanding: no more probes, and the alarm is set
\* if packets are left.  Without any, the congestion window is not full.
ReceivedNewAck ==
    /\ probes' = 0
    /\ lossAlarm' \in {lossAlarm, FALSE}
    /\ cwndFull' \in {full \in BOOLEAN : full => lossAlarm'}

(* handlePacketImpl of one packet: ignored, processed (with an ACK that is *)
(* news or without), an error, or a CONNECTION_CLOSE.                      *)
HandlePacket ==
    /\ \/ /\ pc = "first"
          /\ pc' = "firstDone"
          /\ UNCHANGED <<toHandle, receivedPackets>>
       \/ /\ pc = "rest"
          /\ pc' = "restDone"
          /\ toHandle' = toHandle - 1 /\ receivedPackets' = receivedPackets - 1
    /\ \/ UNCHANGED <<wasProcessed, cwndFull, lossAlarm, probes, closeChan, closeOnce, pending, written>>
       \/ /\ wasProcessed' = TRUE
          /\ ReceivedNewAck \/ UNCHANGED <<cwndFull, lossAlarm, probes>>
          /\ QueuesFrames
          /\ UNCHANGED <<closeChan, closeOnce>>
       \/ /\ \E e \in {"internal", "remote"} : close(e)
          /\ UNCHANGED <<wasProcessed, cwndFull, lossAlarm, probes, pending, written>>
    /\ UNCHANGED <<sendQueueAvailable, closeErr, pacingDeadline, mode, unreported, sendingScheduled,
                   queueVars, arrived, connIDs>>

batchLen == receivedPackets

\* Mutant: a batch of packets is never followed by sending.
afterBatchTop == "top"

afterBatch == IF wasProcessed THEN "timers" ELSE "top"

\* closeChan is looked at after every packet.  After the first one, as many are
\* handled as the channel then holds; then timers, or back to the top.
HandledPacket ==
    /\ pc \in {"firstDone", "restDone"}
    /\ \/ Stop
       \/ /\ closeChan = None
          /\ toHandle' = IF pc = "firstDone" THEN batchLen ELSE toHandle
          /\ pc' = IF toHandle' > 0 THEN "rest" ELSE afterBatch
          /\ wasProcessed' = (wasProcessed /\ pc' = "rest") \* a new batch starts with FALSE
          /\ UNCHANGED <<closeErr, closeChan, sendQueueAvailable, unreported>>
    /\ UNCHANGED <<sendVars, sendingScheduled,
                   receivedPackets, closeOnce, queueVars, pending, written, arrived, connIDs>>

\* The alarm has passed: packets are declared lost, or, if it was for a PTO, two probes
\* are to be sent and the alarm is set again.
OnLossDetectionTimeout ==
    /\ lossAlarm
    /\ \/ /\ lossAlarm' \in BOOLEAN
          /\ cwndFull' \in {full \in BOOLEAN : full => lossAlarm'}
          /\ UNCHANGED probes
       \/ /\ probes + 2 <= MaxProbes
          /\ probes' = probes + 2
          /\ UNCHANGED <<lossAlarm, cwndFull>>

\* OnLossDetectionTimeout if it is time; a keep-alive PING or the idle timeout; and the
\* first look at the send queue.
Timers ==
    /\ pc = "timers"
    /\ OnLossDetectionTimeout \/ UNCHANGED <<lossAlarm, cwndFull, probes>>
    /\ QueuesFrames
    /\ \/ /\ pc' = IF queue = sendQueueCapacity THEN "top" ELSE "trigger"
          /\ sendQueueAvailable' = (sendQueueAvailable \/ queue = sendQueueCapacity)
          /\ UNCHANGED <<closeChan, closeOnce>>
       \/ /\ close("idle")
          /\ pc' = "top"
          /\ UNCHANGED sendQueueAvailable
    /\ UNCHANGED <<toHandle, wasProcessed, closeErr, pacingDeadline, mode, unreported,
                   sendingScheduled, receivedPackets, queueVars, arrived, connIDs>>

\* triggerSending: SendMode answers with a probe, with SendAck, with a pacing
\* limit (which allows an ACK), or with SendAny (data, or an MTU probe).
TriggerSending ==
    /\ pc = "trigger"
    /\ pc' = "pack"
    /\ unreported' = FALSE
    /\ \/ probes > 0 /\ mode' = "probe" /\ pacingDeadline' = FALSE
       \/ probes = 0 /\ cwndFull /\ mode' = "ack" /\ pacingDeadline' = FALSE
       \/ probes = 0 /\ ~cwndFull /\ mode' = "ack" /\ pacingDeadline' = TRUE
       \/ probes = 0 /\ ~cwndFull /\ mode' \in {"data", "mtu"} /\ pacingDeadline' = FALSE
    /\ UNCHANGED <<toHandle, wasProcessed, sendQueueAvailable, closeErr, lossAlarm, cwndFull, probes,
                   chanVars, queueVars, pending, written, arrived, connIDs>>

\* Mutant: runStopped is not closed when Run returns an error.
runStoppedUnlessFailed == writer = "stopped"

runStopped == writer \in {"stopped", "failing", "failed"}

\* sendQueue.Send: into the channel, or nowhere if the writer has stopped.
Send ==
    \/ queue < sendQueueCapacity /\ queue' = queue + 1 /\ pc' = "drain"
    \/ runStopped /\ UNCHANGED queue /\ pc' = "drained"

\* Mutant: the loss detection timer is only set for a packet that fills the window.
SentPacketLate(hasFrames, full) ==
    /\ cwndFull' \in IF hasFrames THEN {full, TRUE} ELSE {full}
    /\ lossAlarm' = (lossAlarm \/ cwndFull')
    /\ probes' = IF hasFrames /\ probes > 0 THEN probes - 1 ELSE probes

\* SentPacket: only a packet with frames is outstanding.  It sets the alarm, may fill the
\* window, which was full or not before, and counts as a probe.
SentPacket(hasFrames, full) ==
    /\ cwndFull' \in IF hasFrames THEN {full, TRUE} ELSE {full}
    /\ lossAlarm' = (lossAlarm \/ hasFrames)
    /\ probes' = IF hasFrames /\ probes > 0 THEN probes - 1 ELSE probes

(* A packet is packed, reported and sent.  The packer reports the frames   *)
(* of a packet without its FEC data: a packet with nothing else, or with   *)
(* only an ACK, has none.  An ACK may come with a PING.  For a probe,      *)
(* QueueProbePacket declares packets lost first, and there is a PING if    *)
(* nothing else.  After an MTU probe sending is triggered again at once.   *)
AppendPacket(hasFrames) ==
    /\ Send
    /\ \/ mode = "ack" /\ SentPacket(hasFrames, cwndFull) /\ UNCHANGED <<pending, pacingDeadline, unreported>>
       \/ /\ mode = "mtu" /\ hasFrames
          /\ SentPacket(TRUE, cwndFull)
          /\ pacingDeadline' = TRUE
          /\ UNCHANGED <<pending, unreported>>
       \/ /\ mode = "data" /\ pending > 0
          /\ SentPacket(hasFrames, cwndFull)
          /\ pending' = pending - 1
          /\ unreported' = ~hasFrames
          /\ UNCHANGED pacingDeadline
       \/ /\ mode = "probe"
          /\ \E full \in {cwndFull, FALSE} : SentPacket(hasFrames, full)
          /\ \/ pending > 0 /\ pending' = pending - 1
             \/ hasFrames /\ UNCHANGED pending
          /\ UNCHANGED <<pacingDeadline, unreported>>

\* The packet that SendMode allows, if there is one; packing may fail.
PackAndSend ==
    /\ pc = "pack"
    /\ \/ /\ \E hasFrames \in BOOLEAN : AppendPacket(hasFrames)
          /\ UNCHANGED <<closeChan, closeOnce>>
       \/ /\ mode = "ack" \/ (mode = "data" /\ pending = 0)
          /\ pc' = "sent"
          /\ unreported' = FALSE
          /\ UNCHANGED <<queue, pending, probes, lossAlarm, cwndFull, pacingDeadline, closeChan, closeOnce>>
       \/ /\ close("internal")
          /\ pc' = "sent"
          /\ UNCHANGED <<queue, pending, probes, lossAlarm, cwndFull, pacingDeadline, unreported>>
    /\ UNCHANGED <<toHandle, wasProcessed, sendQueueAvailable, closeErr, mode, sendingScheduled,
                   receivedPackets, available, closeCalled, shouldClose, writer, written, arrived, connIDs>>

\* sendQueue.Send after the entry went into the channel: clear the available
\* channel if the queue is at capacity.  The writer may run in between.
SendDrain ==
    /\ pc = "drain"
    /\ pc' = "drained"
    /\ available' \in IF queue = sendQueueCapacity THEN {FALSE} ELSE {available}
    /\ UNCHANGED <<toHandle, wasProcessed, sendQueueAvailable, closeErr, handlerVars, chanVars, queue,
                   closeCalled, shouldClose, writer, pending, written, arrived, connIDs>>

\* Mutant: another packet is sent without a look at the queue.
WouldBlockNever == FALSE

WouldBlock == queue = sendQueueCapacity

(* After a packet: an ACK or an MTU probe leaves alone.  Otherwise stop if *)
(* the queue is full (a probe then schedules sending again), if SendMode   *)
(* no longer answers SendAny, or if packets wait to be received.  After a  *)
(* probe, triggerSending starts over.                                      *)
SendReturn ==
    /\ pc = "drained"
    /\ \/ /\ mode \in {"ack", "mtu"}
          /\ pc' = "sent"
          /\ UNCHANGED <<sendingScheduled, pacingDeadline>>
       \/ /\ mode \in {"data", "probe"} /\ WouldBlock
          /\ pc' = "sent"
          /\ sendingScheduled' = (sendingScheduled \/ mode = "probe")
          /\ UNCHANGED pacingDeadline
       \/ /\ mode = "probe" /\ ~WouldBlock
          /\ pc' = "trigger"
          /\ UNCHANGED <<sendingScheduled, pacingDeadline>>
       \/ /\ mode = "data" /\ ~WouldBlock
          /\ pacingDeadline' \in IF cwndFull THEN {FALSE}
                                 ELSE IF receivedPackets > 0 THEN {TRUE} ELSE BOOLEAN
          /\ pc' = IF cwndFull \/ pacingDeadline' THEN "sent" ELSE "pack"
          /\ UNCHANGED sendingScheduled
    /\ UNCHANGED <<toHandle, wasProcessed, sendQueueAvailable, closeErr, lossAlarm, cwndFull, probes,
                   mode, unreported, receivedPackets, closeChan, closeOnce, queueVars, pending, written, arrived, connIDs>>

\* The look at the send queue after triggerSending.
Sent ==
    /\ pc = "sent"
    /\ sendQueueAvailable' = (queue = sendQueueCapacity)
    /\ pc' = "top"
    /\ mode' = "data" \* no packet is being sent
    /\ UNCHANGED <<toHandle, wasProcessed, closeErr, pacingDeadline, lossAlarm, cwndFull, probes, unreported,
                   chanVars, queueVars, pending, written, arrived, connIDs>>

\* After the loop: sendQueue.Close, which waits for the writer to stop.
CloseSendQueue ==
    /\ pc = "stopped"
    /\ \/ ~closeCalled /\ closeCalled' = TRUE /\ UNCHANGED pc
       \/ closeCalled /\ runStopped /\ pc' = "flushed" /\ UNCHANGED closeCalled
    /\ UNCHANGED <<toHandle, wasProcessed, sendQueueAvailable, closeErr, handlerVars, chanVars, queue,
                   available, shouldClose, writer, pending, written, arrived, connIDs>>

\* handleCloseError: a remote close answers nothing, an immediate one forgets the
\* connection, a local one writes a CONNECTION_CLOSE and keeps it for retransmission.
handleCloseError ==
    /\ pc = "flushed"
    /\ pc' = "done"
    /\ connIDs' = CASE closeErr = "remote" -> "closed"
                    [] closeErr \in {"idle", "socket"} -> "removed"
                    [] OTHER -> "closedWithPacket"
    /\ UNCHANGED <<toHandle, wasProcessed, sendQueueAvailable, closeErr, handlerVars, chanVars, queueVars,
                   pending, written, arrived>>

-----------------------------------------------------------------------------
(* The writer goroutine: sendQueue.Run.                                    *)

\* Mutant: the writer stops as soon as it sees Close.
WriterReturnsAtOnce == shouldClose

WriterReturns == shouldClose /\ queue = 0

WriterStep ==
    \/ /\ writer = "select"
       /\ \/ /\ WriterReturns
             /\ writer' = "stopped"
             /\ UNCHANGED <<queue, shouldClose>>
          \/ /\ ~WriterReturns
             /\ closeCalled /\ ~shouldClose
             /\ shouldClose' = TRUE
             /\ UNCHANGED <<queue, writer>>
          \/ /\ ~WriterReturns
             /\ queue > 0
             /\ queue' = queue - 1
             /\ writer' = "writing"
             /\ UNCHANGED shouldClose
       /\ UNCHANGED <<available, closeChan, closeOnce>>
    \/ /\ writer = "writing"
       /\ available' = TRUE
       /\ writer' = "select"
       /\ UNCHANGED <<queue, shouldClose, closeChan, closeOnce>>

\* conn.Write fails: Run returns the error, and the connection is destroyed.
WriteFails ==
    \/ /\ writer = "writing"
       /\ writer' = "failing"
       /\ UNCHANGED <<queue, available, shouldClose, closeChan, closeOnce>>
    \/ /\ writer = "failing"
       /\ writer' = "failed"
       /\ close("socket")
       /\ UNCHANGED <<queue, available, shouldClose>>

Writer ==
    /\ WriterStep \/ WriteFails
    /\ UNCHANGED <<loopVars, handlerVars, sendingScheduled, receivedPackets, closeCalled,
                   pending, written, arrived, connIDs>>

-----------------------------------------------------------------------------
LoopInit ==
    /\ pc = "top" /\ toHandle = 0 /\ wasProcessed = FALSE
    /\ sendQueueAvailable = FALSE /\ closeErr = None
    /\ pacingDeadline = FALSE /\ lossAlarm = FALSE /\ cwndFull = FALSE
    /\ probes = 0 /\ mode = "data" /\ unreported = FALSE
    /\ pending = 0 /\ sendingScheduled = FALSE /\ receivedPackets = 0
    /\ closeChan = None /\ closeOnce = None
    /\ queue = 0 /\ available = FALSE /\ closeCalled = FALSE /\ shouldClose = FALSE
    /\ writer = "select"
    /\ written = 0 /\ arrived = 0 /\ connIDs = "connection"

LoopStep ==
    \/ Top \/ Select \/ HandlePacket \/ HandledPacket \/ Timers \/ TriggerSending
    \/ PackAndSend \/ SendDrain \/ SendReturn \/ Sent \/ CloseSendQueue \/ handleCloseError

LoopNext == LoopStep \/ Writer \/ CloseWithError \/ HasData \/ handlePacket

LoopSpec == LoopInit /\ [][LoopNext]_runVars

(* The run loop and the writer are scheduled, and the timer fires: all of  *)
(* them are goroutines of their own that never hold a lock while waiting.  *)
LoopFairSpec == LoopSpec /\ WF_runVars(LoopStep) /\ WF_runVars(Writer)

-----------------------------------------------------------------------------
\* The type of every variable.
LoopTypeOK ==
    /\ pc \in {"top", "select", "first", "firstDone", "rest", "restDone", "timers", "trigger", "pack", "drain", "drained", "sent",
               "stopped", "flushed", "done"}
    /\ toHandle \in 0 .. receivedPackets
    /\ receivedPackets \in 0 .. MaxConnUnprocessedPackets
    /\ queue \in 0 .. sendQueueCapacity
    /\ closeChan \in Errors \cup {None} /\ closeOnce \in Errors \cup {None}
    /\ closeErr \in Errors \cup {None}
    /\ wasProcessed \in BOOLEAN /\ sendQueueAvailable \in BOOLEAN /\ pacingDeadline \in BOOLEAN
    /\ lossAlarm \in BOOLEAN /\ cwndFull \in BOOLEAN /\ sendingScheduled \in BOOLEAN
    /\ unreported \in BOOLEAN /\ available \in BOOLEAN /\ closeCalled \in BOOLEAN /\ shouldClose \in BOOLEAN
    /\ writer \in {"select", "writing", "stopped", "failing", "failed"}
    /\ mode \in {"data", "ack", "mtu", "probe"}
    /\ connIDs \in {"connection", "removed", "closed", "closedWithPacket"}
    /\ probes \in Nat /\ pending \in Nat /\ written \in Nat /\ arrived \in Nat

\* Send, "guaranteed to not block": a packet is only packed while the send queue
\* has room for it or its writer has stopped; otherwise Send panics.
SendHasRoom == pc = "pack" => queue < sendQueueCapacity \/ runStopped

\* Room in the send queue is noticed: while the run loop sleeps with data to send
\* and a window to send it in, it sends at once for another reason, or it listens
\* to a writer that has yet to signal.
sendsSoon ==
    \/ pacingDeadline \/ sendingScheduled \/ receivedPackets > 0
    \/ closeChan # None \/ writer = "failing"
    \/ sendQueueAvailable /\ (available \/ queue > 0 \/ writer = "writing")

RoomIsNoticed == pc = "select" /\ pending > 0 /\ ~cwndFull => sendsSoon

\* The run loop never sleeps on frames it has to send without something that wakes it:
\* if nothing makes it send at once, a packet is outstanding and the loss detection timer
\* is set, also while the congestion window is full.  The one exception is a round of
\* sending that stopped at a full send queue after a packet that was reported without
\* frames, and whose room was not noticed (RoomIsNoticed).
SleepIsWoken == pc = "select" /\ pending > 0 => sendsSoon \/ lossAlarm \/ unreported

\* The first close decides the error: what the run loop ends with is what the
\* first of closeLocal, closeRemote and destroyImpl was called with.
FirstCloseWins == pc \in {"stopped", "flushed", "done"} => closeErr = closeOnce

\* sendQueue.Run, "make sure that all queued packets are actually sent out", and
\* run, "close the send queue before sending the CONNECTION_CLOSE": when the
\* connection is done nothing it had packed is left, unless the socket failed.
QueueIsFlushed == connIDs # "connection" /\ writer # "failed" /\ writer # "failing" => queue = 0

\* The run loop never sleeps on frames it has to send without being woken, but for the
\* exception that SleepIsWoken names, and never packs a packet that the send queue has no
\* room for.
NoWorkIsStuck == SleepIsWoken /\ SendHasRoom

\* A connection ends with the error of the first close, and with an empty send queue
\* unless the socket failed.
CloseIsClean == FirstCloseWins /\ QueueIsFlushed

\* A close is followed by the end of the run loop, whatever it waits for.
CloseCompletes == (closeOnce # None) ~> (pc = "done")
=============================================================================
