--------------------------- MODULE RunLoopProofs ---------------------------
(***************************************************************************)
(* Proofs about the run loop of a connection, its send queue and its       *)
(* closing, for queues of every capacity and any number of packets.        *)
(***************************************************************************)
EXTENDS RunLoop, TLAPS

Ended == {"stopped", "flushed", "done"}
Handling == {"first", "firstDone", "rest", "restDone"}

\* A batch is only counted down while packets of it are left, and a PTO probe is
\* only packed while one is to be sent.
CountInv ==
    /\ pc \notin {"rest", "restDone"} \cup Ended => toHandle = 0
    /\ pc = "rest" => toHandle > 0
    /\ pc = "pack" /\ mode = "probe" => probes > 0

\* From the look at the send queue to the packet that is put into it, only the
\* writer touches the queue.
RoomInv == pc \in {"trigger", "pack"} => queue < sendQueueCapacity

\* Once the first close has happened its error is on its way to the run loop
\* until the run loop has taken it.
CloseInv ==
    /\ closeOnce = None => closeChan = None /\ closeErr = None
    /\ closeChan # None => closeChan = closeOnce
    /\ pc \in Ended => closeOnce # None /\ closeErr = closeOnce
    /\ closeOnce # None /\ pc \notin Ended => closeChan # None
    /\ writer = "failed" => closeOnce # None

\* The writer ends with an empty queue, and only once the run loop is over or a
\* write has failed; the connection IDs are given up after that.
FlushInv ==
    /\ closeCalled => pc \in Ended
    /\ shouldClose => closeCalled
    /\ writer = "stopped" => shouldClose /\ queue = 0
    /\ pc \in {"flushed", "done"} => runStopped
    /\ connIDs # "connection" => pc = "done"

\* What makes the run loop send frames that are queued: not the packets that wait to
\* be received, since they may all be ignored.
Wakes ==
    \/ pacingDeadline \/ sendingScheduled \/ lossAlarm \/ unreported
    \/ closeChan # None \/ writer = "failing"
Listens == sendQueueAvailable /\ (available \/ queue > 0 \/ writer = "writing")

\* While the congestion window is full a packet is outstanding, and the alarm is set.
AlarmInv == cwndFull => lossAlarm

\* Frames are never left behind on the way to the select.
WakeInv ==
    /\ pc \in {"top", "select"} /\ pending > 0 => Wakes \/ Listens
    /\ pc \in Handling /\ ~wasProcessed /\ pending > 0 => Wakes \/ Listens
    /\ pc = "sent" /\ pending > 0 => Wakes
    /\ pc \in {"pack", "drain", "drained"} /\ mode = "ack" => pacingDeadline \/ cwndFull
    /\ pc \in {"drain", "drained"} /\ mode \in {"data", "mtu"} => lossAlarm \/ unreported

IInv == LoopTypeOK /\ CountInv /\ RoomInv /\ CloseInv /\ FlushInv /\ AlarmInv /\ WakeInv

\* The capacities of the channels; sendQueueCapacity is 8 in the code, and
\* MaxConnUnprocessedPackets is 256.
Capacities ==
    /\ sendQueueCapacity \in Nat \ {0}
    /\ MaxConnUnprocessedPackets \in Nat

-----------------------------------------------------------------------------
\* The conjuncts of LoopTypeOK, by the kind of what they are about.
Counters ==
    /\ toHandle \in 0 .. receivedPackets
    /\ receivedPackets \in 0 .. MaxConnUnprocessedPackets
    /\ queue \in 0 .. sendQueueCapacity
    /\ probes \in Nat /\ pending \in Nat /\ written \in Nat /\ arrived \in Nat
Flags ==
    /\ wasProcessed \in BOOLEAN /\ sendQueueAvailable \in BOOLEAN /\ pacingDeadline \in BOOLEAN
    /\ lossAlarm \in BOOLEAN /\ cwndFull \in BOOLEAN /\ sendingScheduled \in BOOLEAN
    /\ unreported \in BOOLEAN /\ available \in BOOLEAN /\ closeCalled \in BOOLEAN /\ shouldClose \in BOOLEAN
CloseErrors ==
    /\ closeChan \in Errors \cup {None} /\ closeOnce \in Errors \cup {None}
    /\ closeErr \in Errors \cup {None}
Places ==
    /\ pc \in {"top", "select", "first", "firstDone", "rest", "restDone", "timers", "trigger",
               "pack", "drain", "drained", "sent", "stopped", "flushed", "done"}
    /\ writer \in {"select", "writing", "stopped", "failing", "failed"}
    /\ mode \in {"data", "ack", "mtu", "probe"}
    /\ connIDs \in {"connection", "removed", "closed", "closedWithPacket"}

\* Every step of the loop, the writer and the other goroutines keeps the types.
LEMMA TypeStep ==
    ASSUME Capacities, LoopTypeOK, CountInv, [LoopNext]_runVars
    PROVE  LoopTypeOK'
<1> Counters /\ Flags /\ CloseErrors /\ Places
    BY DEF LoopTypeOK, Counters, Flags, CloseErrors, Places
<1> USE DEF loopVars, sendVars, handlerVars, chanVars, queueVars
<1>0. Counters' /\ Flags' /\ CloseErrors' /\ Places' => LoopTypeOK'
    BY DEF LoopTypeOK, Counters, Flags, CloseErrors, Places
<1>1. CASE Top
  <2>1. Counters'
      BY <1>1 DEF Top, Stop, LeaveLoop, Capacities, Counters, CountInv, Ended
  <2>2. Flags'
      BY <1>1, ZenonT(60) DEF Top, Stop, LeaveLoop, Flags
  <2>3. CloseErrors'
      BY <1>1 DEF Top, Stop, LeaveLoop, CloseErrors, Errors, None
  <2>4. Places'
      BY <1>1 DEF Top, Stop, LeaveLoop, Places
  <2> QED
      BY <1>0, <2>1, <2>2, <2>3, <2>4
<1>2. CASE Select
  <2>1. Counters'
      BY <1>2 DEF Select, Stop, LeaveLoop, Capacities, Counters, CountInv, Ended
  <2>2. Flags'
      BY <1>2, ZenonT(60) DEF Select, Stop, LeaveLoop, Flags
  <2>3. CloseErrors'
      BY <1>2 DEF Select, Stop, LeaveLoop, CloseErrors, Errors, None
  <2>4. Places'
      BY <1>2 DEF Select, Stop, LeaveLoop, Places
  <2> QED
      BY <1>0, <2>1, <2>2, <2>3, <2>4
<1>3. CASE HandlePacket
  <2>1. Counters'
    <3>1. /\ toHandle' \in 0 .. receivedPackets'
          /\ receivedPackets' \in 0 .. MaxConnUnprocessedPackets
      <4>1. CASE pc = "first"
          BY <1>3, <4>1 DEF HandlePacket, Counters
      <4>2. CASE pc = "rest"
        <5>1. toHandle > 0
            BY <4>2 DEF CountInv
        <5>2. toHandle' = toHandle - 1 /\ receivedPackets' = receivedPackets - 1
            BY <1>3, <4>2 DEF HandlePacket
        <5> QED
            BY <5>1, <5>2 DEF Counters, Capacities
      <4> QED
          BY <1>3, <4>1, <4>2 DEF HandlePacket
    <3>2. probes' \in Nat
      <4>1. probes' = probes \/ probes' = 0
          BY <1>3, Zenon DEF HandlePacket, ReceivedNewAck
      <4> QED
          BY <4>1 DEF Counters
    <3>3. UNCHANGED <<queue, arrived>> /\ QueuesFrames
        BY <1>3 DEF HandlePacket, QueuesFrames
    <3> QED
        BY <3>1, <3>2, <3>3 DEF Counters, QueuesFrames
  <2>2. Flags'
      BY <1>3, ZenonT(60) DEF HandlePacket, ReceivedNewAck, QueuesFrames, close, Flags
  <2>3. CloseErrors'
      BY <1>3 DEF HandlePacket, ReceivedNewAck, QueuesFrames, close, CloseErrors, Errors, None
  <2>4. Places'
      BY <1>3 DEF HandlePacket, ReceivedNewAck, QueuesFrames, close, Places
  <2> QED
      BY <1>0, <2>1, <2>2, <2>3, <2>4
<1>4. CASE HandledPacket
  <2>1. Counters'
      BY <1>4 DEF HandledPacket, Stop, LeaveLoop, batchLen, afterBatch, Capacities, Counters, CountInv, Ended
  <2>2. Flags'
      BY <1>4 DEF HandledPacket, Stop, LeaveLoop, batchLen, afterBatch, Flags
  <2>3. CloseErrors'
      BY <1>4 DEF HandledPacket, Stop, LeaveLoop, batchLen, afterBatch, CloseErrors, Errors, None
  <2>4. Places'
      BY <1>4 DEF HandledPacket, Stop, LeaveLoop, batchLen, afterBatch, Places
  <2> QED
      BY <1>0, <2>1, <2>2, <2>3, <2>4
<1>5. CASE Timers
  <2>1. Counters'
      BY <1>5 DEF Timers, OnLossDetectionTimeout, QueuesFrames, close, Capacities, Counters, CountInv, Ended
  <2>2. Flags'
      BY <1>5, ZenonT(60) DEF Timers, OnLossDetectionTimeout, QueuesFrames, close, Flags
  <2>3. CloseErrors'
      BY <1>5 DEF Timers, OnLossDetectionTimeout, QueuesFrames, close, CloseErrors, Errors, None
  <2>4. Places'
      BY <1>5 DEF Timers, OnLossDetectionTimeout, QueuesFrames, close, Places
  <2> QED
      BY <1>0, <2>1, <2>2, <2>3, <2>4
<1>6. CASE TriggerSending
  <2>1. Counters'
      BY <1>6 DEF TriggerSending, Capacities, Counters, CountInv, Ended
  <2>2. Flags'
      BY <1>6 DEF TriggerSending, Flags
  <2>3. CloseErrors'
      BY <1>6 DEF TriggerSending, CloseErrors, Errors, None
  <2>4. Places'
      BY <1>6 DEF TriggerSending, Places
  <2> QED
      BY <1>0, <2>1, <2>2, <2>3, <2>4
<1>7. CASE PackAndSend
  <2>1. Counters'
    <3>1. queue' \in 0 .. sendQueueCapacity
      <4>1. queue' = queue \/ (queue < sendQueueCapacity /\ queue' = queue + 1)
          BY <1>7, Zenon DEF PackAndSend, AppendPacket, Send
      <4> QED
          BY <4>1 DEF Counters, Capacities
    <3>2. probes' \in Nat
      <4>1. probes' = probes \/ (probes > 0 /\ probes' = probes - 1)
          BY <1>7, Zenon DEF PackAndSend, AppendPacket, SentPacket
      <4> QED
          BY <4>1 DEF Counters
    <3>3. pending' \in Nat
      <4>1. pending' = pending \/ (pending > 0 /\ pending' = pending - 1)
          BY <1>7, Zenon DEF PackAndSend, AppendPacket
      <4> QED
          BY <4>1 DEF Counters
    <3>4. UNCHANGED <<toHandle, receivedPackets, written, arrived>>
        BY <1>7 DEF PackAndSend
    <3> QED
        BY <3>1, <3>2, <3>3, <3>4 DEF Counters
  <2>2. Flags'
    <3>1. /\ UNCHANGED <<wasProcessed, sendQueueAvailable, sendingScheduled, available, closeCalled, shouldClose>>
          /\ pacingDeadline' \in {pacingDeadline, TRUE}
        BY <1>7, Zenon DEF PackAndSend, AppendPacket
    <3>2. \/ unreported' \in {unreported, FALSE}
          \/ \E hasFrames \in BOOLEAN : unreported' = ~hasFrames
        BY <1>7, Zenon DEF PackAndSend, AppendPacket
    <3>3. \/ UNCHANGED <<lossAlarm, cwndFull>>
          \/ \E hasFrames \in BOOLEAN, full \in {cwndFull, FALSE} : SentPacket(hasFrames, full)
        BY <1>7, Zenon DEF PackAndSend, AppendPacket
    <3>4. lossAlarm' \in BOOLEAN /\ cwndFull' \in BOOLEAN
      <4>1. ASSUME NEW hasFrames \in BOOLEAN, NEW full \in {cwndFull, FALSE}, SentPacket(hasFrames, full)
            PROVE  lossAlarm' \in BOOLEAN /\ cwndFull' \in BOOLEAN
          BY <4>1 DEF SentPacket, Flags
      <4> QED
          BY <3>3, <4>1 DEF Flags
    <3> QED
        BY <3>1, <3>2, <3>4 DEF Flags
  <2>3. CloseErrors'
      BY <1>7, ZenonT(60) DEF PackAndSend, AppendPacket, SentPacket, Send, close, CloseErrors, Errors, None
  <2>4. Places'
      BY <1>7, ZenonT(60) DEF PackAndSend, AppendPacket, SentPacket, Send, close, Places
  <2> QED
      BY <1>0, <2>1, <2>2, <2>3, <2>4
<1>8. CASE SendDrain
  <2>1. Counters'
      BY <1>8 DEF SendDrain, Capacities, Counters, CountInv, Ended
  <2>2. Flags'
      BY <1>8, ZenonT(60) DEF SendDrain, Flags
  <2>3. CloseErrors'
      BY <1>8 DEF SendDrain, CloseErrors, Errors, None
  <2>4. Places'
      BY <1>8 DEF SendDrain, Places
  <2> QED
      BY <1>0, <2>1, <2>2, <2>3, <2>4
<1>9. CASE SendReturn
  <2>1. Counters'
      BY <1>9 DEF SendReturn, WouldBlock, Capacities, Counters, CountInv, Ended
  <2>2. Flags'
      BY <1>9, ZenonT(60) DEF SendReturn, WouldBlock, Flags
  <2>3. CloseErrors'
      BY <1>9 DEF SendReturn, WouldBlock, CloseErrors, Errors, None
  <2>4. Places'
      BY <1>9 DEF SendReturn, WouldBlock, Places
  <2> QED
      BY <1>0, <2>1, <2>2, <2>3, <2>4
<1>10. CASE Sent
  <2>1. Counters'
      BY <1>10 DEF Sent, Capacities, Counters, CountInv, Ended
  <2>2. Flags'
      BY <1>10 DEF Sent, Flags
  <2>3. CloseErrors'
      BY <1>10 DEF Sent, CloseErrors, Errors, None
  <2>4. Places'
      BY <1>10 DEF Sent, Places
  <2> QED
      BY <1>0, <2>1, <2>2, <2>3, <2>4
<1>11. CASE CloseSendQueue
  <2>1. Counters'
      BY <1>11 DEF CloseSendQueue, Capacities, Counters, CountInv, Ended
  <2>2. Flags'
      BY <1>11 DEF CloseSendQueue, Flags
  <2>3. CloseErrors'
      BY <1>11 DEF CloseSendQueue, CloseErrors, Errors, None
  <2>4. Places'
      BY <1>11 DEF CloseSendQueue, Places
  <2> QED
      BY <1>0, <2>1, <2>2, <2>3, <2>4
<1>12. CASE handleCloseError
  <2>1. Counters'
      BY <1>12 DEF handleCloseError, Capacities, Counters, CountInv, Ended
  <2>2. Flags'
      BY <1>12 DEF handleCloseError, Flags
  <2>3. CloseErrors'
      BY <1>12 DEF handleCloseError, CloseErrors, Errors, None
  <2>4. Places'
      BY <1>12 DEF handleCloseError, Places
  <2> QED
      BY <1>0, <2>1, <2>2, <2>3, <2>4
<1>13. CASE Writer
  <2>1. Counters'
      BY <1>13 DEF Writer, WriterStep, WriterReturns, WriteFails, close, Capacities, Counters, CountInv, Ended
  <2>2. Flags'
      BY <1>13, ZenonT(60) DEF Writer, WriterStep, WriterReturns, WriteFails, close, Flags
  <2>3. CloseErrors'
      BY <1>13 DEF Writer, WriterStep, WriterReturns, WriteFails, close, CloseErrors, Errors, None
  <2>4. Places'
      BY <1>13 DEF Writer, WriterStep, WriterReturns, WriteFails, close, Places
  <2> QED
      BY <1>0, <2>1, <2>2, <2>3, <2>4
<1>14. CASE CloseWithError
  <2>1. Counters'
      BY <1>14 DEF CloseWithError, close, Capacities, Counters, CountInv, Ended
  <2>2. Flags'
      BY <1>14 DEF CloseWithError, close, Flags
  <2>3. CloseErrors'
      BY <1>14 DEF CloseWithError, close, CloseErrors, Errors, None
  <2>4. Places'
      BY <1>14 DEF CloseWithError, close, Places
  <2> QED
      BY <1>0, <2>1, <2>2, <2>3, <2>4
<1>15. CASE HasData
  <2>1. Counters'
      BY <1>15 DEF HasData, Capacities, Counters, CountInv, Ended
  <2>2. Flags'
      BY <1>15 DEF HasData, Flags
  <2>3. CloseErrors'
      BY <1>15 DEF HasData, CloseErrors, Errors, None
  <2>4. Places'
      BY <1>15 DEF HasData, Places
  <2> QED
      BY <1>0, <2>1, <2>2, <2>3, <2>4
<1>16. CASE handlePacket
  <2>1. Counters'
      BY <1>16 DEF handlePacket, Capacities, Counters, CountInv, Ended
  <2>2. Flags'
      BY <1>16 DEF handlePacket, Flags
  <2>3. CloseErrors'
      BY <1>16 DEF handlePacket, CloseErrors, Errors, None
  <2>4. Places'
      BY <1>16 DEF handlePacket, Places
  <2> QED
      BY <1>0, <2>1, <2>2, <2>3, <2>4
<1>17. CASE UNCHANGED runVars
  <2>1. Counters'
      BY <1>17 DEF runVars, Capacities, Counters, CountInv, Ended
  <2>2. Flags'
      BY <1>17 DEF runVars, Flags
  <2>3. CloseErrors'
      BY <1>17 DEF runVars, CloseErrors, Errors, None
  <2>4. Places'
      BY <1>17 DEF runVars, Places
  <2> QED
      BY <1>0, <2>1, <2>2, <2>3, <2>4
<1> QED
    BY <1>1, <1>2, <1>3, <1>4, <1>5, <1>6, <1>7, <1>8, <1>9, <1>10, <1>11, <1>12, <1>13, <1>14, <1>15, <1>16, <1>17 DEF LoopNext, LoopStep

\* Every step keeps the counts of a batch and of the probes.
LEMMA CountStep ==
    ASSUME Capacities, LoopTypeOK, CountInv, [LoopNext]_runVars
    PROVE  CountInv'
<1> USE DEF Capacities, LoopTypeOK, CountInv, Ended, loopVars, sendVars, handlerVars, chanVars, queueVars
<1>1. CASE Top
    BY <1>1 DEF Top, Stop, LeaveLoop
<1>2. CASE Select
    BY <1>2 DEF Select, Stop, LeaveLoop
<1>3. CASE HandlePacket
    BY <1>3 DEF HandlePacket, ReceivedNewAck, QueuesFrames, close
<1>4. CASE HandledPacket
    BY <1>4 DEF HandledPacket, Stop, LeaveLoop, batchLen, afterBatch
<1>5. CASE Timers
    BY <1>5 DEF Timers, OnLossDetectionTimeout, QueuesFrames, close
<1>6. CASE TriggerSending
    BY <1>6 DEF TriggerSending
<1>7. CASE PackAndSend
    BY <1>7 DEF PackAndSend, AppendPacket, SentPacket, Send, close
<1>8. CASE SendDrain
    BY <1>8 DEF SendDrain
<1>9. CASE SendReturn
  <2>1. /\ pc = "drained" /\ pc' \in {"sent", "trigger", "pack"}
        /\ pc' = "pack" => mode' = "data"
        /\ UNCHANGED toHandle
      BY <1>9, Zenon DEF SendReturn
  <2> QED
      BY <2>1
<1>10. CASE Sent
    BY <1>10 DEF Sent
<1>11. CASE CloseSendQueue
    BY <1>11 DEF CloseSendQueue
<1>12. CASE handleCloseError
    BY <1>12 DEF handleCloseError
<1>13. CASE Writer
    BY <1>13 DEF Writer, WriterStep, WriterReturns, WriteFails, close
<1>14. CASE CloseWithError
    BY <1>14 DEF CloseWithError, close
<1>15. CASE HasData
    BY <1>15 DEF HasData
<1>16. CASE handlePacket
    BY <1>16 DEF handlePacket
<1>17. CASE UNCHANGED runVars
    BY <1>17 DEF runVars
<1> QED
    BY <1>1, <1>2, <1>3, <1>4, <1>5, <1>6, <1>7, <1>8, <1>9, <1>10, <1>11, <1>12, <1>13, <1>14, <1>15, <1>16, <1>17 DEF LoopNext, LoopStep

\* Every step keeps the room that the look at the queue has found.
LEMMA RoomStep ==
    ASSUME Capacities, LoopTypeOK, RoomInv, [LoopNext]_runVars
    PROVE  RoomInv'
<1> USE DEF Capacities, LoopTypeOK, RoomInv, loopVars, sendVars, handlerVars, chanVars, queueVars
<1>1. CASE Top
    BY <1>1 DEF Top, Stop, LeaveLoop
<1>2. CASE Select
    BY <1>2 DEF Select, Stop, LeaveLoop
<1>3. CASE HandlePacket
    BY <1>3 DEF HandlePacket, ReceivedNewAck, QueuesFrames, close
<1>4. CASE HandledPacket
    BY <1>4 DEF HandledPacket, Stop, LeaveLoop, batchLen, afterBatch
<1>5. CASE Timers
    BY <1>5 DEF Timers, OnLossDetectionTimeout, QueuesFrames, close
<1>6. CASE TriggerSending
    BY <1>6 DEF TriggerSending
<1>7. CASE PackAndSend
    BY <1>7 DEF PackAndSend, AppendPacket, SentPacket, Send, close
<1>8. CASE SendDrain
    BY <1>8 DEF SendDrain
<1>9. CASE SendReturn
  <2>1. /\ pc' \in {"trigger", "pack"} => queue # sendQueueCapacity
        /\ UNCHANGED queue
      BY <1>9, Zenon DEF SendReturn, WouldBlock, queueVars
  <2> QED
      BY <2>1
<1>10. CASE Sent
    BY <1>10 DEF Sent
<1>11. CASE CloseSendQueue
    BY <1>11 DEF CloseSendQueue
<1>12. CASE handleCloseError
    BY <1>12 DEF handleCloseError
<1>13. CASE Writer
    BY <1>13 DEF Writer, WriterStep, WriterReturns, WriteFails, close
<1>14. CASE CloseWithError
    BY <1>14 DEF CloseWithError, close
<1>15. CASE HasData
    BY <1>15 DEF HasData
<1>16. CASE handlePacket
    BY <1>16 DEF handlePacket
<1>17. CASE UNCHANGED runVars
    BY <1>17 DEF runVars
<1> QED
    BY <1>1, <1>2, <1>3, <1>4, <1>5, <1>6, <1>7, <1>8, <1>9, <1>10, <1>11, <1>12, <1>13, <1>14, <1>15, <1>16, <1>17 DEF LoopNext, LoopStep

\* Every step keeps the error of the first close.
LEMMA CloseStep ==
    ASSUME Capacities, LoopTypeOK, CloseInv, [LoopNext]_runVars
    PROVE  CloseInv'
<1> USE DEF LoopTypeOK, CloseInv, Ended, Errors, None, loopVars, sendVars, handlerVars, chanVars, queueVars
<1>1. CASE Top
    BY <1>1 DEF Top, Stop, LeaveLoop
<1>2. CASE Select
    BY <1>2 DEF Select, Stop, LeaveLoop
<1>3. CASE HandlePacket
    BY <1>3 DEF HandlePacket, ReceivedNewAck, QueuesFrames, close
<1>4. CASE HandledPacket
    BY <1>4 DEF HandledPacket, Stop, LeaveLoop, batchLen, afterBatch
<1>5. CASE Timers
    BY <1>5 DEF Timers, OnLossDetectionTimeout, QueuesFrames, close
<1>6. CASE TriggerSending
    BY <1>6 DEF TriggerSending
<1>7. CASE PackAndSend
    BY <1>7 DEF PackAndSend, AppendPacket, SentPacket, Send, close
<1>8. CASE SendDrain
    BY <1>8 DEF SendDrain
<1>9. CASE SendReturn
    BY <1>9 DEF SendReturn, WouldBlock
<1>10. CASE Sent
    BY <1>10 DEF Sent
<1>11. CASE CloseSendQueue
    BY <1>11 DEF CloseSendQueue
<1>12. CASE handleCloseError
    BY <1>12 DEF handleCloseError
<1>13. CASE Writer
    BY <1>13 DEF Writer, WriterStep, WriterReturns, WriteFails, close
<1>14. CASE CloseWithError
    BY <1>14 DEF CloseWithError, close
<1>15. CASE HasData
    BY <1>15 DEF HasData
<1>16. CASE handlePacket
    BY <1>16 DEF handlePacket
<1>17. CASE UNCHANGED runVars
    BY <1>17 DEF runVars
<1> QED
    BY <1>1, <1>2, <1>3, <1>4, <1>5, <1>6, <1>7, <1>8, <1>9, <1>10, <1>11, <1>12, <1>13, <1>14, <1>15, <1>16, <1>17 DEF LoopNext, LoopStep

\* Every step keeps the order in which queue, writer and connection IDs are given up.
LEMMA FlushStep ==
    ASSUME Capacities, LoopTypeOK, FlushInv, [LoopNext]_runVars
    PROVE  FlushInv'
<1> USE DEF LoopTypeOK, FlushInv, Ended, runStopped, Capacities, loopVars, sendVars, handlerVars, chanVars, queueVars
<1>1. CASE Top
    BY <1>1 DEF Top, Stop, LeaveLoop
<1>2. CASE Select
    BY <1>2 DEF Select, Stop, LeaveLoop
<1>3. CASE HandlePacket
    BY <1>3 DEF HandlePacket, ReceivedNewAck, QueuesFrames, close
<1>4. CASE HandledPacket
    BY <1>4 DEF HandledPacket, Stop, LeaveLoop, batchLen, afterBatch
<1>5. CASE Timers
    BY <1>5 DEF Timers, OnLossDetectionTimeout, QueuesFrames, close
<1>6. CASE TriggerSending
    BY <1>6 DEF TriggerSending
<1>7. CASE PackAndSend
    BY <1>7 DEF PackAndSend, AppendPacket, SentPacket, Send, close
<1>8. CASE SendDrain
    BY <1>8 DEF SendDrain
<1>9. CASE SendReturn
  <2>1. /\ pc = "drained" /\ pc' \in {"sent", "trigger", "pack"}
        /\ UNCHANGED <<queue, closeCalled, shouldClose, writer, connIDs>>
      BY <1>9, Zenon DEF SendReturn, queueVars
  <2> QED
      BY <2>1
<1>10. CASE Sent
    BY <1>10 DEF Sent
<1>11. CASE CloseSendQueue
    BY <1>11 DEF CloseSendQueue
<1>12. CASE handleCloseError
    BY <1>12 DEF handleCloseError
<1>13. CASE Writer
    BY <1>13 DEF Writer, WriterStep, WriterReturns, WriteFails, close
<1>14. CASE CloseWithError
    BY <1>14 DEF CloseWithError, close
<1>15. CASE HasData
    BY <1>15 DEF HasData
<1>16. CASE handlePacket
    BY <1>16 DEF handlePacket
<1>17. CASE UNCHANGED runVars
    BY <1>17 DEF runVars
<1> QED
    BY <1>1, <1>2, <1>3, <1>4, <1>5, <1>6, <1>7, <1>8, <1>9, <1>10, <1>11, <1>12, <1>13, <1>14, <1>15, <1>16, <1>17 DEF LoopNext, LoopStep

\* Every step keeps the alarm set while the window is full.
LEMMA AlarmStep ==
    ASSUME LoopTypeOK, AlarmInv, [LoopNext]_runVars
    PROVE  AlarmInv'
<1> lossAlarm \in BOOLEAN /\ cwndFull \in BOOLEAN
    BY DEF LoopTypeOK
<1> USE DEF AlarmInv, sendVars, handlerVars
<1>0. CASE UNCHANGED <<lossAlarm, cwndFull>>
    BY <1>0
<1>1. CASE HandlePacket \/ Timers
  <2>1. (UNCHANGED <<lossAlarm, cwndFull>>) \/ cwndFull' \in {full \in BOOLEAN : full => lossAlarm'}
      BY <1>1, Zenon DEF HandlePacket, ReceivedNewAck, Timers, OnLossDetectionTimeout
  <2> QED
      BY <2>1
<1>2. CASE PackAndSend
  <2>1. \/ UNCHANGED <<lossAlarm, cwndFull>>
        \/ \E hasFrames \in BOOLEAN, full \in {cwndFull, FALSE} : SentPacket(hasFrames, full)
      BY <1>2, Zenon DEF PackAndSend, AppendPacket
  <2>2. ASSUME NEW hasFrames \in BOOLEAN, NEW full \in {cwndFull, FALSE}, SentPacket(hasFrames, full)
        PROVE  AlarmInv'
    <3>1. lossAlarm' = (lossAlarm \/ hasFrames)
        BY <2>2 DEF SentPacket
    <3>2. CASE hasFrames = TRUE
        BY <3>1, <3>2
    <3>3. CASE hasFrames = FALSE
      <4>1. cwndFull' = full
          BY <2>2, <3>3, Zenon DEF SentPacket
      <4>2. lossAlarm' = lossAlarm
          BY <3>1, <3>3
      <4> QED
          BY <4>1, <4>2
    <3> QED
        BY <3>2, <3>3
  <2> QED
      BY <1>0, <2>1, <2>2
<1>4. CASE Top \/ Select \/ HandledPacket
    BY <1>0, <1>4, Zenon DEF Top, Select, HandledPacket
<1>5. CASE TriggerSending \/ SendDrain \/ SendReturn \/ Sent
    BY <1>0, <1>5, Zenon DEF TriggerSending, SendDrain, SendReturn, Sent
<1>6. CASE CloseSendQueue \/ handleCloseError \/ Writer
    BY <1>0, <1>6, Zenon DEF CloseSendQueue, handleCloseError, Writer
<1>7. CASE CloseWithError \/ HasData \/ handlePacket \/ UNCHANGED runVars
    BY <1>0, <1>7, Zenon DEF CloseWithError, HasData, handlePacket, runVars
<1> QED
    BY <1>1, <1>2, <1>4, <1>5, <1>6, <1>7 DEF LoopNext, LoopStep

\* Every step keeps what will make the run loop send.
LEMMA WakeStep ==
    ASSUME Capacities, LoopTypeOK, CloseInv, FlushInv, AlarmInv, AlarmInv', WakeInv, [LoopNext]_runVars
    PROVE  WakeInv'
<1> USE DEF Capacities, LoopTypeOK, CloseInv, FlushInv, AlarmInv, WakeInv, Ended, Handling, Wakes, Listens, None, loopVars, sendVars, handlerVars, chanVars, queueVars
<1>1. CASE Top
    BY <1>1 DEF Top, Stop, LeaveLoop
<1>2. CASE Select
    BY <1>2 DEF Select, Stop, LeaveLoop
<1>3. CASE HandlePacket
  <2>1. /\ pc \in Handling /\ pc' \in Handling
        /\ UNCHANGED <<pacingDeadline, unreported, sendingScheduled, sendQueueAvailable, available, queue, writer>>
      BY <1>3, Zenon DEF HandlePacket, queueVars, Handling
  <2>2. \/ wasProcessed'
        \/ UNCHANGED <<wasProcessed, pending, lossAlarm>> /\ (closeChan # None => closeChan' # None)
      BY <1>3, Zenon DEF HandlePacket, close
  <2> QED
      BY <2>1, <2>2
<1>4. CASE HandledPacket
    BY <1>4 DEF HandledPacket, Stop, LeaveLoop, batchLen, afterBatch
<1>5. CASE Timers
  <2>1. CASE pc' = "top" /\ queue = sendQueueCapacity /\ UNCHANGED queue /\ sendQueueAvailable'
      BY <2>1
  <2>2. CASE pc' = "trigger"
      BY <2>2
  <2>3. CASE pc' = "top" /\ closeChan' # None
      BY <2>3
  <2> QED
      BY <1>5, <2>1, <2>2, <2>3 DEF Timers, close, queueVars
<1>6. CASE TriggerSending
    BY <1>6 DEF TriggerSending
<1>7. CASE PackAndSend
  <2>1. pc = "pack" /\ UNCHANGED mode
      BY <1>7 DEF PackAndSend
  <2>2. CASE mode = "ack" /\ pc' \in {"drain", "drained", "sent"} /\ (cwndFull => cwndFull') /\ UNCHANGED pacingDeadline
      BY <2>1, <2>2
  <2>3. CASE pc' \in {"drain", "drained"} /\ mode # "ack" /\ (lossAlarm' \/ unreported' \/ mode = "probe")
      BY <2>1, <2>3
  <2>4. CASE pc' = "sent" /\ mode = "data" /\ pending' = 0
      BY <2>1, <2>4
  <2>5. CASE pc' = "sent" /\ closeChan' # None
      BY <2>1, <2>5
  <2>6. ASSUME NEW hasFrames \in BOOLEAN, AppendPacket(hasFrames)
        PROVE  WakeInv'
    <3>1. pc' \in {"drain", "drained"}
        BY <2>6, Zenon DEF AppendPacket, Send
    <3>2. CASE mode = "ack"
      <4>1. SentPacket(hasFrames, cwndFull) /\ UNCHANGED pacingDeadline
          BY <2>6, <3>2 DEF AppendPacket
      <4>2. cwndFull => cwndFull'
          BY <4>1 DEF SentPacket
      <4> QED
          BY <2>2, <3>1, <3>2, <4>1, <4>2
    <3>3. CASE mode = "mtu"
      <4>1. lossAlarm'
          BY <2>6, <3>3 DEF AppendPacket, SentPacket
      <4> QED
          BY <2>3, <3>1, <3>3, <4>1
    <3>4. CASE mode = "data"
      <4>1. lossAlarm' \/ unreported'
          BY <2>6, <3>4 DEF AppendPacket, SentPacket
      <4> QED
          BY <2>3, <3>1, <3>4, <4>1
    <3> QED
        BY <2>3, <2>6, <3>1, <3>2, <3>3, <3>4 DEF AppendPacket
  <2> QED
      BY <1>7, <2>2, <2>4, <2>5, <2>6, Zenon DEF PackAndSend, close
<1>8. CASE SendDrain
    BY <1>8 DEF SendDrain
<1>9. CASE SendReturn
    BY <1>9 DEF SendReturn, WouldBlock
<1>10. CASE Sent
    BY <1>10 DEF Sent
<1>11. CASE CloseSendQueue
    BY <1>11 DEF CloseSendQueue
<1>12. CASE handleCloseError
    BY <1>12 DEF handleCloseError
<1>13. CASE Writer
    BY <1>13 DEF Writer, WriterStep, WriterReturns, WriteFails, close
<1>14. CASE CloseWithError
    BY <1>14 DEF CloseWithError, close
<1>15. CASE HasData
    BY <1>15 DEF HasData
<1>16. CASE handlePacket
    BY <1>16 DEF handlePacket
<1>17. CASE UNCHANGED runVars
    BY <1>17 DEF runVars
<1> QED
    BY <1>1, <1>2, <1>3, <1>4, <1>5, <1>6, <1>7, <1>8, <1>9, <1>10, <1>11, <1>12, <1>13, <1>14, <1>15, <1>16, <1>17 DEF LoopNext, LoopStep

-----------------------------------------------------------------------------
\* A new connection has nothing to send, nothing to close and an empty queue.
LEMMA InitInv == ASSUME Capacities, LoopInit PROVE IInv
<1> USE DEF LoopInit
<1>1. Counters /\ Flags /\ CloseErrors /\ Places
  <2>1. Counters
      BY DEF Capacities, Counters
  <2>2. Flags
      BY DEF Flags
  <2>3. CloseErrors /\ Places
      BY DEF CloseErrors, Places, None
  <2> QED
      BY <2>1, <2>2, <2>3
<1>2. LoopTypeOK
    BY <1>1 DEF LoopTypeOK, Counters, Flags, CloseErrors, Places
<1>3. CountInv /\ RoomInv
    BY DEF CountInv, RoomInv, Ended
<1>4. CloseInv /\ FlushInv
    BY DEF CloseInv, FlushInv, Ended
<1>5. AlarmInv /\ WakeInv
    BY DEF AlarmInv, WakeInv, Handling
<1> QED
    BY <1>2, <1>3, <1>4, <1>5 DEF IInv

\* The invariant is inductive: no step of any goroutine breaks it.
THEOREM Invariance == ASSUME Capacities PROVE LoopSpec => []IInv
<1>1. LoopInit => IInv
    BY InitInv
<1>2. IInv /\ [LoopNext]_runVars => IInv'
    BY TypeStep, CountStep, RoomStep, CloseStep, FlushStep, AlarmStep, WakeStep DEF IInv
<1> QED
    BY <1>1, <1>2, PTL DEF LoopSpec

\* connection.go run, send_queue.go: every variable keeps its type; in particular a batch is never
\* longer than what the channel holds, and the send queue never holds more than its capacity.
THEOREM TypeCorrect == ASSUME Capacities PROVE LoopSpec => []LoopTypeOK
<1>1. IInv => LoopTypeOK
    BY DEF IInv
<1> QED
    BY <1>1, Invariance, PTL

\* connection.go run and triggerSending, send_queue.go Send, sent_packet_handler.go SentPacket:
\* whatever the capacities, the run loop never sleeps on frames that are queued without something
\* that will wake it, but after a round of sending that ended with a packet reported without
\* frames, and it never packs a packet that the send queue has no room for.
THEOREM LoopKeepsSending == ASSUME Capacities PROVE LoopSpec => []NoWorkIsStuck
<1>1. IInv => SleepIsWoken
    BY DEF IInv, WakeInv, SleepIsWoken, sendsSoon, Wakes, Listens
<1>2. IInv => SendHasRoom
    BY DEF IInv, RoomInv, SendHasRoom
<1>3. IInv => NoWorkIsStuck
    BY <1>1, <1>2 DEF NoWorkIsStuck
<1> QED
    BY <1>3, Invariance, PTL

\* connection.go closeLocal, closeRemote, destroyImpl and run, send_queue.go Run: a connection ends
\* with the error of the first close, however many goroutines close it, and nothing that it has
\* packed is left in the send queue when its connection IDs are given up, unless the socket failed.
THEOREM CloseIsOrderly == ASSUME Capacities PROVE LoopSpec => []CloseIsClean
<1>1. IInv => FirstCloseWins
    BY DEF IInv, CloseInv, FirstCloseWins, Ended
<1>2. IInv => QueueIsFlushed
    BY DEF IInv, FlushInv, QueueIsFlushed, LoopTypeOK, runStopped
<1>3. IInv => CloseIsClean
    BY <1>1, <1>2 DEF CloseIsClean
<1> QED
    BY <1>3, Invariance, PTL
=============================================================================
