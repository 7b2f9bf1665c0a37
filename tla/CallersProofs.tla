--------------------------- MODULE CallersProofs ---------------------------
(***************************************************************************)
(* Proofs about calls of the application that wait for the run loop of the *)
(* connection, and are woken over channels with one slot.                  *)
(*                                                                         *)
(* DATAGRAM queues: no wakeup is lost, for queues of every length and any  *)
(* number of goroutines that add; only one goroutine may receive.          *)
(*                                                                         *)
(* Send streams: no wakeup of Write is lost, the framer is told of every   *)
(* stream that can send, and the stream ends once and with the bytes that  *)
(* were written, for slices, frames and windows of every size.             *)
(*                                                                         *)
(* The ring buffer under these queues is a queue, for every size.          *)
(***************************************************************************)
EXTENDS DatagramQueue, SendStream, RingBuffer, SequenceTheorems, TLAPS

\* The queues have a length (32 and 128 in the code).
Limits ==
    /\ maxDatagramSendQueueLen \in Nat \ {0} /\ maxDatagramRcvQueueLen \in Nat
    /\ MaxAdds \in Nat

\* At most one goroutine calls ReceiveDatagram.
OneReceiver == \A r, s \in Receivers : r = s

\* A goroutine in Add has a datagram to send.
AddsInv == \A a \in Adders : adder[a] # "idle" => adds[a] > 0

Waiting(a) == adder[a] \in {"blocked", "selecting"}

\* The slot of channel sent is empty while somebody blocks on it.  Whoever has
\* found the queue full, and is not sure to be woken by the slot, finds a frame
\* left to be popped, or an adder that will push one.
SentInv ==
    /\ (\E a \in Adders : adder[a] = "blocked") => ~sentSlot
    /\ (\E a \in Adders : Waiting(a)) /\ ~sentSlot /\ ~closed =>
          sendLen > 0 \/ \E a \in Adders : adder[a] = "locking"

\* A receiver that has found the queue empty is woken by what has arrived since,
\* unless another receiver was woken instead.
RcvdInv ==
    OneReceiver => \A r \in Receivers :
      /\ receiver[r] = "selecting" => rcvLen = 0 \/ rcvdSlot
      /\ receiver[r] = "blocked" => rcvLen = 0 /\ ~rcvdSlot

IInv == DatagramTypeOK /\ AddsInv /\ SentInv /\ RcvdInv

-----------------------------------------------------------------------------
\* The steps of an adder.
LEMMA AdderKeepsInv ==
    ASSUME Limits, IInv, NEW a \in Adders, AdderStep(a)
    PROVE  IInv'
<1> USE DEF Limits
<1>1. /\ UNCHANGED <<rcvLen, rcvdSlot, receiver, arrived, dropped, taken, closed>>
      /\ RcvdInv'
    BY DEF AdderStep, Add, AddSelect, AddRetry, dgRcvVars, IInv, RcvdInv
<1>2. ASSUME AddRound(a), UNCHANGED refused, adds[a] > 0
      PROVE  DatagramTypeOK' /\ AddsInv' /\ SentInv'
  <2>1. CASE hasRoom
    <3>1. /\ sendLen' = sendLen + 1 /\ adder' = [adder EXCEPT ![a] = "idle"]
          /\ adds' = [adds EXCEPT ![a] = @ - 1] /\ UNCHANGED sentSlot
        BY <1>2, <2>1 DEF AddRound
    <3> QED
        BY <1>1, <1>2, <2>1, <3>1 DEF IInv, DatagramTypeOK, AddsInv, SentInv, Waiting, hasRoom
  <2>2. CASE ~hasRoom
    <3>1. /\ sentSlot' = FALSE /\ adder' = [adder EXCEPT ![a] = "selecting"]
          /\ UNCHANGED <<sendLen, adds>>
        BY <1>2, <2>2 DEF AddRound
    <3>2. sendLen > 0
        BY <2>2 DEF hasRoom, IInv, DatagramTypeOK
    <3>3. DatagramTypeOK' /\ AddsInv'
        BY <1>1, <1>2, <3>1 DEF IInv, DatagramTypeOK, AddsInv
    <3> QED
        BY <3>1, <3>2, <3>3 DEF SentInv
  <2> QED
      BY <2>1, <2>2
<1>3. CASE Add(a)
    BY <1>1, <1>2, <1>3 DEF Add, IInv
<1>4. CASE AddRetry(a)
    BY <1>1, <1>2, <1>4 DEF AddRetry, IInv, AddsInv
<1>5. CASE AddSelect(a)
  <2> USE DEF IInv, DatagramTypeOK, AddsInv, SentInv, Waiting
  <2>1. adder[a] = "selecting" /\ UNCHANGED sendLen
      BY <1>5 DEF AddSelect
  <2>2. CASE /\ closed /\ adder' = [adder EXCEPT ![a] = "idle"] /\ refused' = refused \cup {a}
             /\ adds' = [adds EXCEPT ![a] = 0] /\ UNCHANGED sentSlot
      BY <1>1, <2>1, <2>2
  <2>3. CASE /\ sentSlot /\ sentSlot' = FALSE /\ adder' = [adder EXCEPT ![a] = "locking"]
             /\ UNCHANGED <<adds, refused>>
    <3>1. DatagramTypeOK' /\ AddsInv'
        BY <1>1, <2>1, <2>3
    <3>2. SentInv'
        BY <2>3
    <3> QED
        BY <1>1, <3>1, <3>2
  <2>4. CASE /\ ~closed /\ ~sentSlot /\ adder' = [adder EXCEPT ![a] = "blocked"]
             /\ UNCHANGED <<sentSlot, adds, refused>>
    <3>1. DatagramTypeOK' /\ AddsInv'
        BY <1>1, <2>1, <2>4
    <3>2. SentInv'
        BY <2>1, <2>4
    <3> QED
        BY <1>1, <3>1, <3>2
  <2> QED
      BY <1>5, <2>2, <2>3, <2>4 DEF AddSelect
<1> QED
    BY <1>3, <1>4, <1>5 DEF AdderStep

\* Pop: the run loop takes a frame and wakes an adder.
LEMMA PopKeepsInv == ASSUME Limits, IInv, Pop PROVE IInv'
<1> USE DEF Limits
<1>1. /\ UNCHANGED <<rcvLen, rcvdSlot, receiver, arrived, dropped, taken, closed>>
      /\ RcvdInv'
    BY DEF Pop, dgRcvVars, IInv, RcvdInv
<1>2. CASE \E a \in Adders : adder[a] = "blocked"
  <2>1. PICK a \in Adders : adder[a] = "blocked" /\ adder' = [adder EXCEPT ![a] = "locking"]
      BY <1>2 DEF Pop, notifySent
  <2>2. UNCHANGED <<sentSlot, adds, refused>> /\ sendLen > 0 /\ sendLen' = sendLen - 1
      BY <1>2 DEF Pop, notifySent
  <2> QED
      BY <1>1, <2>1, <2>2 DEF IInv, DatagramTypeOK, AddsInv, SentInv, Waiting
<1>3. CASE ~\E a \in Adders : adder[a] = "blocked"
  <2>1. UNCHANGED <<adder, adds, refused>> /\ sentSlot' = TRUE /\ sendLen > 0 /\ sendLen' = sendLen - 1
      BY <1>3 DEF Pop, notifySent
  <2> QED
      BY <1>1, <1>3, <2>1 DEF IInv, DatagramTypeOK, AddsInv, SentInv
<1> QED
    BY <1>2, <1>3

\* HandleDatagramFrame: the run loop queues a datagram and wakes the receiver.
LEMMA HandleKeepsInv == ASSUME Limits, IInv, HandleDatagramFrame PROVE IInv'
<1> USE DEF Limits
<1>1. /\ UNCHANGED <<sendLen, sentSlot, adder, adds, refused, taken, closed>>
      /\ AddsInv' /\ SentInv'
    BY DEF HandleDatagramFrame, dgSndVars, IInv, AddsInv, SentInv, Waiting
<1>2. CASE rcvLen >= maxDatagramRcvQueueLen
    BY <1>1, <1>2 DEF HandleDatagramFrame, IInv, DatagramTypeOK, RcvdInv
<1>3. CASE rcvLen < maxDatagramRcvQueueLen /\ \E r \in Receivers : receiver[r] = "blocked"
  <2>1. PICK r \in Receivers : receiver[r] = "blocked" /\ receiver' = [receiver EXCEPT ![r] = "checking"]
      BY <1>3 DEF HandleDatagramFrame, notifyRcvd, IInv, DatagramTypeOK
  <2>2. UNCHANGED <<rcvdSlot, dropped>> /\ rcvLen' = rcvLen + 1 /\ arrived' = arrived + 1
      BY <1>3 DEF HandleDatagramFrame, notifyRcvd, IInv, DatagramTypeOK
  <2>3. OneReceiver => \A s \in Receivers : receiver'[s] = "checking"
      BY <2>1 DEF OneReceiver, IInv, DatagramTypeOK
  <2> QED
      BY <1>1, <1>3, <2>1, <2>2, <2>3 DEF IInv, DatagramTypeOK, RcvdInv
<1>4. CASE rcvLen < maxDatagramRcvQueueLen /\ ~\E r \in Receivers : receiver[r] = "blocked"
  <2>1. /\ UNCHANGED <<receiver, dropped>> /\ rcvLen' = rcvLen + 1 /\ rcvdSlot' = TRUE
        /\ arrived' = arrived + 1
      BY <1>4 DEF HandleDatagramFrame, notifyRcvd, IInv, DatagramTypeOK
  <2> QED
      BY <1>1, <1>4, <2>1 DEF IInv, DatagramTypeOK, RcvdInv
<1> QED
    BY <1>2, <1>3, <1>4 DEF IInv, DatagramTypeOK

\* The steps of the receiver.
LEMMA ReceiverKeepsInv ==
    ASSUME Limits, IInv, NEW r \in Receivers, ReceiverStep(r) \/ Cancel(r)
    PROVE  IInv'
<1> USE DEF Limits
<1>1. /\ UNCHANGED <<sendLen, sentSlot, adder, adds, refused, arrived, dropped, closed>>
      /\ AddsInv' /\ SentInv'
    BY DEF ReceiverStep, Receive, ReceiveCheck, ReceiveSelect, Cancel, dgSndVars, IInv, AddsInv, SentInv, Waiting
<1>2. OneReceiver => \A s \in Receivers : s = r
    BY DEF OneReceiver
<1>3. CASE Receive(r) \/ Cancel(r)
    BY <1>1, <1>2, <1>3 DEF Receive, Cancel, IInv, DatagramTypeOK, RcvdInv
<1>4. CASE ReceiveCheck(r)
    BY <1>1, <1>2, <1>4 DEF ReceiveCheck, IInv, DatagramTypeOK, RcvdInv
<1>5. CASE ReceiveSelect(r)
  <2>1. DatagramTypeOK'
      BY <1>1, <1>5 DEF ReceiveSelect, IInv, DatagramTypeOK
  <2>2. RcvdInv'
      BY <1>2, <1>5 DEF ReceiveSelect, IInv, DatagramTypeOK, RcvdInv
  <2> QED
      BY <1>1, <2>1, <2>2 DEF IInv
<1> QED
    BY <1>3, <1>4, <1>5 DEF ReceiverStep

\* CloseWithError: nobody stays blocked.
LEMMA CloseKeepsInv == ASSUME Limits, IInv, CloseWithError PROVE IInv'
<1> USE DEF CloseWithError, wakeAdders, IInv
<1>1. DatagramTypeOK'
    BY DEF Limits, DatagramTypeOK
<1>2. AddsInv' /\ SentInv'
    BY DEF AddsInv, SentInv, DatagramTypeOK
<1>3. RcvdInv'
    BY DEF RcvdInv, DatagramTypeOK
<1> QED
    BY <1>1, <1>2, <1>3

-----------------------------------------------------------------------------
\* The invariant is inductive.
THEOREM Invariance == ASSUME Limits PROVE DatagramSpec => []IInv
<1>1. DatagramInit => IInv
  <2>1. DatagramInit => DatagramTypeOK
    <3> SUFFICES ASSUME DatagramInit PROVE DatagramTypeOK
        OBVIOUS
    <3>1. sentSlot \in BOOLEAN /\ rcvdSlot \in BOOLEAN /\ closed \in BOOLEAN
        BY DEF DatagramInit
    <3>2. /\ adder \in [Adders -> {"idle", "selecting", "blocked", "locking"}]
          /\ receiver \in [Receivers -> {"idle", "checking", "selecting", "blocked", "done"}]
        BY DEF DatagramInit
    <3>3. /\ adds \in [Adders -> 0 .. MaxAdds] /\ refused \subseteq Adders
          /\ sendLen \in 0 .. maxDatagramSendQueueLen /\ rcvLen \in 0 .. maxDatagramRcvQueueLen
          /\ arrived \in Nat /\ dropped \in Nat /\ taken \in Nat
        BY DEF DatagramInit, Limits
    <3> QED
        BY <3>1, <3>2, <3>3 DEF DatagramTypeOK
  <2>2. DatagramInit => \A a \in Adders : adder[a] = "idle"
      BY DEF DatagramInit
  <2>3. DatagramInit => \A r \in Receivers : receiver[r] = "idle"
      BY DEF DatagramInit
  <2>4. DatagramInit => AddsInv /\ SentInv /\ RcvdInv
      BY <2>2, <2>3 DEF AddsInv, SentInv, RcvdInv, Waiting
  <2> QED
      BY <2>1, <2>4 DEF IInv
<1>2. IInv /\ [DatagramNext]_dgVars => IInv'
  <2> SUFFICES ASSUME IInv, [DatagramNext]_dgVars PROVE IInv'
      OBVIOUS
  <2>1. CASE UNCHANGED dgVars
      BY <2>1 DEF dgVars, dgSndVars, dgRcvVars, IInv, DatagramTypeOK, AddsInv, SentInv, RcvdInv, Waiting
  <2> QED
      BY <2>1, AdderKeepsInv, PopKeepsInv, HandleKeepsInv, ReceiverKeepsInv, CloseKeepsInv DEF DatagramNext
<1> QED
    BY <1>1, <1>2, PTL DEF DatagramSpec

\* datagram_queue.go: the queues never exceed maxDatagramSendQueueLen and maxDatagramRcvQueueLen.
THEOREM TypeCorrect == ASSUME Limits PROVE DatagramSpec => []DatagramTypeOK
<1>1. IInv => DatagramTypeOK
    BY DEF IInv
<1> QED
    BY <1>1, Invariance, PTL

\* datagram_queue.go Add and Pop: whatever the length of the queue and however many goroutines add,
\* no wakeup of a blocked Add is lost, also with many goroutines that receive.
THEOREM AddersAreWoken == ASSUME Limits PROVE DatagramSpec => []BlockedAdderIsWoken
<1>1. IInv => BlockedAdderIsWoken
    BY DEF IInv, SentInv, Waiting, BlockedAdderIsWoken
<1> QED
    BY <1>1, Invariance, PTL

\* datagram_queue.go HandleDatagramFrame and Receive: nor is a wakeup of Receive lost, as long as one
\* goroutine at a time calls it.
THEOREM NoWakeupLost == ASSUME Limits, OneReceiver PROVE DatagramSpec => []BlockedCallsAreWoken
<1>1. IInv => BlockedReceiverIsWoken
    BY DEF IInv, RcvdInv, BlockedReceiverIsWoken
<1> QED
    BY <1>1, Invariance, AddersAreWoken, PTL DEF BlockedCallsAreWoken

-----------------------------------------------------------------------------
(* Send streams *)

\* A STREAM frame with data below offset n.
FramesBelow(n) == {f \in [off: Nat, len: Nat, fin: BOOLEAN] : f.off + f.len <= n}

\* The types of the variables; all frames are of bytes that were sent.
SendType ==
    /\ writeOffset \in Nat /\ nextFrame \in Nat /\ dataForWriting \in Nat
    /\ finishedWriting \in BOOLEAN /\ finSent \in BOOLEAN
    /\ cancelWriteErr \in BOOLEAN /\ sndShutdownErr \in BOOLEAN
    /\ retransmissionQueue \in Seq(FramesBelow(writeOffset))
    /\ inFlight \in Seq(FramesBelow(writeOffset))
    /\ numOutstandingFrames \in Nat /\ sndCompleted \in {0, 1}
    /\ writeSig \in BOOLEAN /\ wdeadline \in {"none", "future", "past"}
    /\ writer \in [pc: {"idle", "notify", "notifyCopied", "wait"}, len: Nat, notified: BOOLEAN, timer: BOOLEAN]
    /\ closing \in BOOLEAN /\ active \in BOOLEAN
    /\ sendWindow \in Nat /\ written \in Nat

\* A Write that waits, or is about to, and that nothing wakes has nothing to do.
BlockedInv ==
    (writer.pc \in {"notify", "wait"} /\ ~writeSig /\ ~writeTimerFired) =>
        /\ dataForWriting > 0
        /\ nextFrame > 0 \/ nextFrame + dataForWriting > MaxPacketBufferSize
        /\ ~cancelWriteErr /\ ~sndShutdownErr
        /\ wdeadline # "past" /\ (wdeadline = "future" => writer.timer)

\* Where the bytes of a Write are: sent, buffered or still with the call.
BytesInv ==
    /\ writer.pc = "idle" => written = writeOffset + nextFrame
    /\ writer.pc # "idle" => written + writer.len = writeOffset + nextFrame + dataForWriting
    /\ writer.pc # "idle" => ~finishedWriting /\ dataForWriting <= writer.len
    /\ writer.pc = "notifyCopied" => dataForWriting = 0
    /\ writer.pc = "idle" /\ ~cancelWriteErr /\ ~sndShutdownErr => dataForWriting = 0
    /\ finSent => finishedWriting /\ dataForWriting + nextFrame = 0

\* The frames that were sent, and what the stream knows of them.
FramesInv ==
    /\ ~cancelWriteErr => numOutstandingFrames = Len(inFlight)
    /\ resetFinalSize # NoReset => cancelWriteErr /\ resetFinalSize = writeOffset
    /\ sndCompleted = 1 <=> \/ cancelWriteErr
                            \/ finSent /\ inFlight = <<>> /\ retransmissionQueue = <<>>

\* There is something to send that the window allows.
Sendable ==
    \/ retransmissionQueue # <<>>
    \/ dataForWriting + nextFrame > 0 /\ SendWindowSize > 0
    \/ finishedWriting /\ ~finSent /\ dataForWriting + nextFrame = 0

\* The inductive invariant of a send stream.
SendInv == SendType /\ BlockedInv /\ BytesInv /\ FramesInv /\ SendableIsActive

-----------------------------------------------------------------------------
\* Sums of two numbers of bytes.
LEMMA SumShrinks == \A a, b, c, d \in Nat : a + b <= c + d /\ a + b > 0 => c + d > 0
OBVIOUS

\* Data that is buffered whole.
LEMMA SumMoves == \A a, b, d \in Nat : a + b = d => 0 + d = a + b
OBVIOUS

\* Frames stay below an offset that grows.
LEMMA FramesGrow ==
    ASSUME NEW m \in Nat, NEW n \in Nat, m <= n, NEW s \in Seq(FramesBelow(m))
    PROVE  s \in Seq(FramesBelow(n))
<1>1. FramesBelow(m) \subseteq FramesBelow(n)
    BY DEF FramesBelow
<1> QED
    BY <1>1, SeqMonotonic

\* Removing one element of a sequence.
LEMMA RemoveOne ==
    ASSUME NEW S, NEW s \in Seq(S), NEW i \in DOMAIN s
    PROVE  RemoveAt(s, i) \in Seq(S) /\ Len(RemoveAt(s, i)) = Len(s) - 1 /\ s # <<>> /\ s[i] \in S
<1>1. Len(s) \in Nat /\ DOMAIN s = 1 .. Len(s) /\ \A j \in 1 .. Len(s) : s[j] \in S
    BY LenProperties, ElementOfSeq
<1>2. i \in 1 .. Len(s)
    BY <1>1
<1> DEFINE a == SubSeq(s, 1, i - 1)
           b == SubSeq(s, i + 1, Len(s))
<1>3. a \in Seq(S) /\ Len(a) = i - 1
  <2>1. \A j \in 1 .. (i - 1) : s[j] \in S
      BY <1>1, <1>2
  <2>2. Len(a) = IF 1 <= i - 1 THEN (i - 1) - 1 + 1 ELSE 0
      BY <1>2, <2>1, SubSeqProperties
  <2>3. a \in Seq(S)
      BY <1>2, <2>1, SubSeqProperties
  <2> QED
      BY <1>2, <2>2, <2>3
<1>4. b \in Seq(S) /\ Len(b) = Len(s) - i
  <2>1. \A j \in (i + 1) .. Len(s) : s[j] \in S
      BY <1>1, <1>2
  <2>2. Len(b) = IF i + 1 <= Len(s) THEN Len(s) - (i + 1) + 1 ELSE 0
      BY <1>1, <1>2, <2>1, SubSeqProperties
  <2>3. b \in Seq(S)
      BY <1>1, <1>2, <2>1, SubSeqProperties
  <2> QED
      BY <1>1, <1>2, <2>2, <2>3
<1>5. RemoveAt(s, i) = a \o b
    BY DEF RemoveAt
<1> HIDE DEF a, b
<1>6. a \o b \in Seq(S) /\ Len(a \o b) = Len(a) + Len(b)
    BY <1>3, <1>4, ConcatProperties
<1>7. s # <<>>
    BY <1>1, <1>2
<1> QED
    BY <1>1, <1>2, <1>3, <1>4, <1>5, <1>6, <1>7

\* A step that changes none of the frames that were sent.
LEMMA FramesStay ==
    ASSUME SendInv,
           UNCHANGED <<writeOffset, finSent, cancelWriteErr, numOutstandingFrames, retransmissionQueue,
                       sndCompleted, inFlight, resetFinalSize>>
    PROVE  FramesInv'
BY DEF SendInv, FramesInv

\* A step that changes nothing that a Write looks at.
LEMMA WriterStays ==
    ASSUME SendInv,
           UNCHANGED <<writeOffset, nextFrame, dataForWriting, finishedWriting, finSent, cancelWriteErr,
                       sndShutdownErr, writeSig, wdeadline, writer, written>>
    PROVE  BlockedInv' /\ BytesInv'
BY DEF SendInv, BlockedInv, BytesInv, writeTimerFired

-----------------------------------------------------------------------------
(* Write *)

\* One round of the loop, for a call that has not copied its data: what it leaves.
LEMMA WriteLoopFacts ==
    ASSUME SendInv, NEW data \in Nat,
           NEW call \in [pc: {"idle", "notify", "notifyCopied", "wait"}, len: Nat, notified: BOOLEAN, timer: BOOLEAN],
           data <= call.len, writeLoop(call, data),
           written + call.len = writeOffset + nextFrame + data
    PROVE  /\ nextFrame' \in Nat /\ dataForWriting' \in Nat /\ written' \in Nat
           /\ writer' \in [pc: {"idle", "notify", "notifyCopied", "wait"}, len: Nat, notified: BOOLEAN, timer: BOOLEAN]
           /\ writer'.pc = "idle" => /\ written' = writeOffset + nextFrame'
                                     /\ dataForWriting' = 0 \/ cancelWriteErr \/ sndShutdownErr
           /\ writer'.pc # "idle" => written' + writer'.len = writeOffset + nextFrame' + dataForWriting'
           /\ writer'.pc = "notifyCopied" => dataForWriting' = 0
           /\ writer'.pc \in {"notify", "wait"} =>
                /\ dataForWriting' > 0 /\ nextFrame' + dataForWriting' > MaxPacketBufferSize
                /\ ~cancelWriteErr /\ ~sndShutdownErr /\ wdeadline # "past"
                /\ wdeadline = "future" => writer'.timer
           /\ dataForWriting' + nextFrame' <= data + nextFrame
           /\ writer'.pc # "idle" => dataForWriting' <= writer'.len
           /\ writer'.pc = "notify" \/ writer'.pc = "notifyCopied" \/ call.notified \/ dataForWriting' + nextFrame' = nextFrame
              \/ cancelWriteErr \/ sndShutdownErr
<1> DEFINE copies == data > 0 /\ nextFrame + data <= MaxPacketBufferSize
           expired == wdeadline = "past"
           stops == data = 0 \/ cancelWriteErr \/ sndShutdownErr
<1>0. /\ nextFrame \in Nat /\ writeOffset \in Nat /\ written \in Nat /\ MaxPacketBufferSize \in Nat
      /\ cancelWriteErr \in BOOLEAN /\ sndShutdownErr \in BOOLEAN /\ wdeadline \in {"none", "future", "past"}
    BY SendAssumption DEF SendInv, SendType
<1>1. CASE copies
  <2>1. nextFrame' = nextFrame + data /\ dataForWriting' = 0
      BY <1>1 DEF writeLoop
  <2>2. CASE call.notified
    <3>1. writer' = noWrite /\ written' = written + call.len
        BY <1>1, <2>2 DEF writeLoop, WriteReturns
    <3> QED
        BY <1>0, <2>1, <2>2, <3>1 DEF noWrite
  <2>3. CASE ~call.notified
    <3>1. writer' = [call EXCEPT !.pc = "notifyCopied"] /\ written' = written
        BY <1>1, <2>3 DEF writeLoop
    <3> QED
        BY <1>0, <2>1, <3>1
  <2> QED
      BY <2>2, <2>3
<1>2. CASE ~copies /\ (expired \/ stops)
  <2>1. nextFrame' = nextFrame /\ dataForWriting' = (IF expired THEN 0 ELSE data)
        /\ writer' = noWrite /\ written' = written + (call.len - data)
      BY <1>2 DEF writeLoop, WriteReturns
  <2>2. written' = writeOffset + nextFrame'
      BY <1>0, <2>1
  <2>3. dataForWriting' \in Nat /\ (dataForWriting' = 0 \/ cancelWriteErr \/ sndShutdownErr) /\ dataForWriting' <= data
      BY <1>2, <2>1
  <2> QED
      BY <1>0, <2>1, <2>2, <2>3 DEF noWrite
<1>3. CASE ~copies /\ ~expired /\ ~stops
  <2> DEFINE tm == wdeadline = "future"
             pc == IF call.notified THEN "wait" ELSE "notify"
  <2>0. tm \in BOOLEAN /\ pc \in {"notify", "wait"}
      OBVIOUS
  <2>1. nextFrame' = nextFrame /\ dataForWriting' = data /\ written' = written
        /\ writer' = [call EXCEPT !.pc = pc, !.timer = tm]
      BY <1>3 DEF writeLoop
  <2> HIDE DEF tm, pc
  <2>2. /\ writer'.pc = pc /\ writer'.len = call.len /\ writer'.timer = tm
        /\ writer' \in [pc: {"idle", "notify", "notifyCopied", "wait"}, len: Nat, notified: BOOLEAN, timer: BOOLEAN]
    <3>1. writer' = [pc |-> pc, len |-> call.len, notified |-> call.notified, timer |-> tm]
        BY <2>1, Zenon
    <3>2. call.len \in Nat /\ call.notified \in BOOLEAN
        OBVIOUS
    <3> QED
        BY <2>0, <3>1, <3>2, Zenon
  <2>3. data > 0 /\ nextFrame + data > MaxPacketBufferSize
      BY <1>0, <1>3
  <2>4. wdeadline = "future" => writer'.timer
      BY <2>2, Zenon DEF tm
  <2>5. (writer'.pc = "notify" \/ call.notified) /\ writer'.pc \in {"notify", "wait"}
    <3>1. pc = "notify" \/ call.notified
        BY DEF pc
    <3> QED
        BY <2>0, <2>2, <3>1, Zenon
  <2>6. ~cancelWriteErr /\ ~sndShutdownErr /\ wdeadline # "past"
      BY <1>3, Zenon
  <2>7. /\ nextFrame' \in Nat /\ dataForWriting' \in Nat /\ written' \in Nat
        /\ written' + writer'.len = writeOffset + nextFrame' + dataForWriting'
        /\ dataForWriting' > 0 /\ nextFrame' + dataForWriting' > MaxPacketBufferSize
        /\ dataForWriting' + nextFrame' <= data + nextFrame
        /\ dataForWriting' <= writer'.len
      BY <1>0, <2>1, <2>2, <2>3
  <2>8. writer'.pc # "idle" /\ writer'.pc # "notifyCopied"
      BY <2>5
  <2> HIDE DEF copies, expired, stops
  <2> QED
      BY <2>2, <2>4, <2>5, <2>6, <2>7, <2>8, Zenon
<1> QED
    BY <1>1, <1>2, <1>3

\* A step of Write keeps the rest of the invariant, given what its loop leaves.
LEMMA WriteKeepsRest ==
    ASSUME SendInv,
           UNCHANGED <<writeOffset, finishedWriting, finSent, cancelWriteErr, sndShutdownErr,
                       numOutstandingFrames, retransmissionQueue, sndCompleted, wdeadline,
                       closing, sendWindow, lastBlockedAt, active, inFlight, resetFinalSize, lostFrames>>,
           writeSig' \in BOOLEAN, ~finishedWriting,
           nextFrame' \in Nat, dataForWriting' \in Nat, written' \in Nat,
           writer' \in [pc: {"idle", "notify", "notifyCopied", "wait"}, len: Nat, notified: BOOLEAN, timer: BOOLEAN]
    PROVE  SendType' /\ FramesInv' /\ ~finSent
<1>1. SendType'
    BY DEF SendInv, SendType
<1>2. FramesInv'
    BY FramesStay
<1>3. ~finSent
    BY DEF SendInv, BytesInv
<1> QED
    BY <1>1, <1>2, <1>3

\* Write, up to where it first releases the mutex.
LEMMA WriteInv == ASSUME SendInv, NEW n \in WriteSizes, Write(n) PROVE SendInv'
<1> DEFINE call == [noWrite EXCEPT !.len = n]
<1>0. n \in Nat
    BY SendAssumption
<1>1. /\ writer.pc = "idle" /\ ~finishedWriting /\ ~cancelWriteErr /\ ~sndShutdownErr
      /\ writeLoop(call, n)
      /\ UNCHANGED <<writeOffset, finishedWriting, finSent, cancelWriteErr, sndShutdownErr,
                     numOutstandingFrames, retransmissionQueue, sndCompleted, writeSig, wdeadline,
                     closing, sendWindow, lastBlockedAt, active, inFlight, resetFinalSize, lostFrames>>
    BY DEF Write
<1>2. /\ call \in [pc: {"idle", "notify", "notifyCopied", "wait"}, len: Nat, notified: BOOLEAN, timer: BOOLEAN]
      /\ call.len = n /\ call.notified = FALSE
    BY <1>0 DEF noWrite
<1>3. dataForWriting = 0 /\ written = writeOffset + nextFrame /\ written \in Nat /\ nextFrame \in Nat /\ writeOffset \in Nat
    BY <1>1 DEF SendInv, SendType, BytesInv
<1> HIDE DEF call
<1>4. written + call.len = writeOffset + nextFrame + n /\ n <= call.len
    BY <1>0, <1>2, <1>3
<1>5. /\ nextFrame' \in Nat /\ dataForWriting' \in Nat /\ written' \in Nat
      /\ writer' \in [pc: {"idle", "notify", "notifyCopied", "wait"}, len: Nat, notified: BOOLEAN, timer: BOOLEAN]
      /\ writer'.pc = "idle" => /\ written' = writeOffset + nextFrame'
                                /\ dataForWriting' = 0 \/ cancelWriteErr \/ sndShutdownErr
      /\ writer'.pc # "idle" => written' + writer'.len = writeOffset + nextFrame' + dataForWriting'
      /\ writer'.pc = "notifyCopied" => dataForWriting' = 0
      /\ writer'.pc \in {"notify", "wait"} =>
           /\ dataForWriting' > 0 /\ nextFrame' + dataForWriting' > MaxPacketBufferSize
           /\ ~cancelWriteErr /\ ~sndShutdownErr /\ wdeadline # "past"
           /\ wdeadline = "future" => writer'.timer
      /\ writer'.pc # "idle" => dataForWriting' <= writer'.len
      /\ writer'.pc = "notify" \/ writer'.pc = "notifyCopied" \/ dataForWriting' + nextFrame' = nextFrame
    BY <1>0, <1>1, <1>2, <1>4, WriteLoopFacts
<1>6. writeSig' \in BOOLEAN
    BY <1>1 DEF SendInv, SendType
<1>7. SendType' /\ FramesInv' /\ ~finSent
    BY <1>1, <1>5, <1>6, WriteKeepsRest
<1>8. BlockedInv'
    BY <1>1, <1>5 DEF BlockedInv
<1>9. BytesInv'
    BY <1>1, <1>5, <1>7 DEF BytesInv
<1>10. SendableIsActive'
  <2>0. dataForWriting' + nextFrame' = nextFrame => dataForWriting + nextFrame = dataForWriting' + nextFrame'
    <3>1. nextFrame' \in Nat /\ dataForWriting' \in Nat
        BY <1>5, Zenon
    <3>2. dataForWriting = 0 /\ nextFrame \in Nat
        BY <1>3
    <3>3. dataForWriting' + nextFrame' = nextFrame => 0 + nextFrame = dataForWriting' + nextFrame'
        BY <3>1, <3>2, SumMoves, Zenon
    <3> QED
        BY <3>2, <3>3, Zenon
  <2> SUFFICES ASSUME Sendable', writer'.pc \notin {"notify", "notifyCopied"}
               PROVE  active' \/ closing'
      BY Zenon DEF SendableIsActive, Sendable
  <2>1. dataForWriting' + nextFrame' = nextFrame
      BY <1>5
  <2>2. Sendable
    <3>2. SendWindowSize' = SendWindowSize
        BY <1>1 DEF SendWindowSize
    <3> QED
        BY <1>1, <2>0, <2>1, <3>2, Zenon DEF Sendable
  <2>3. active \/ closing
      BY <1>1, <2>2, Zenon DEF SendInv, SendableIsActive, Sendable
  <2> QED
      BY <1>1, <2>3, Zenon
<1> QED
    BY <1>7, <1>8, <1>9, <1>10 DEF SendInv

\* Write after it was woken.
LEMMA WriteWakesInv == ASSUME SendInv, WriteWakes PROVE SendInv'
<1>1. /\ writer.pc = "wait" /\ writeLoop(writer, dataForWriting)
      /\ UNCHANGED <<writeOffset, finishedWriting, finSent, cancelWriteErr, sndShutdownErr,
                     numOutstandingFrames, retransmissionQueue, sndCompleted, wdeadline,
                     closing, sendWindow, lastBlockedAt, active, inFlight, resetFinalSize, lostFrames>>
    BY DEF WriteWakes
<1>2. writeSig' \in BOOLEAN
    BY DEF WriteWakes, SendInv, SendType
<1>3. /\ dataForWriting \in Nat /\ nextFrame \in Nat
      /\ writer \in [pc: {"idle", "notify", "notifyCopied", "wait"}, len: Nat, notified: BOOLEAN, timer: BOOLEAN]
      /\ dataForWriting <= writer.len /\ ~finishedWriting
      /\ written + writer.len = writeOffset + nextFrame + dataForWriting
    BY <1>1 DEF SendInv, SendType, BytesInv
<1>5. /\ nextFrame' \in Nat /\ dataForWriting' \in Nat /\ written' \in Nat
      /\ writer' \in [pc: {"idle", "notify", "notifyCopied", "wait"}, len: Nat, notified: BOOLEAN, timer: BOOLEAN]
      /\ writer'.pc = "idle" => /\ written' = writeOffset + nextFrame'
                                /\ dataForWriting' = 0 \/ cancelWriteErr \/ sndShutdownErr
      /\ writer'.pc # "idle" => written' + writer'.len = writeOffset + nextFrame' + dataForWriting'
      /\ writer'.pc = "notifyCopied" => dataForWriting' = 0
      /\ writer'.pc \in {"notify", "wait"} =>
           /\ dataForWriting' > 0 /\ nextFrame' + dataForWriting' > MaxPacketBufferSize
           /\ ~cancelWriteErr /\ ~sndShutdownErr /\ wdeadline # "past"
           /\ wdeadline = "future" => writer'.timer
      /\ dataForWriting' + nextFrame' <= dataForWriting + nextFrame
      /\ writer'.pc # "idle" => dataForWriting' <= writer'.len
    BY <1>1, <1>3, WriteLoopFacts
<1>7. SendType' /\ FramesInv' /\ ~finSent
    BY <1>1, <1>2, <1>3, <1>5, WriteKeepsRest
<1>8. BlockedInv'
    BY <1>1, <1>5 DEF BlockedInv
<1>9. BytesInv'
    BY <1>1, <1>3, <1>5, <1>7 DEF BytesInv
<1>10. SendableIsActive'
  <2>0. dataForWriting' + nextFrame' > 0 => dataForWriting + nextFrame > 0
    <3>1. nextFrame' \in Nat /\ dataForWriting' \in Nat /\ dataForWriting' + nextFrame' <= dataForWriting + nextFrame
        BY <1>5, Zenon
    <3>2. dataForWriting \in Nat /\ nextFrame \in Nat
        BY <1>3
    <3> QED
        BY <3>1, <3>2, SumShrinks, Zenon
  <2> SUFFICES ASSUME Sendable', ~cancelWriteErr, ~sndShutdownErr
               PROVE  active' \/ closing'
      BY <1>1, Zenon DEF SendableIsActive, Sendable
  <2>2. Sendable
    <3>2. SendWindowSize' = SendWindowSize
        BY <1>1 DEF SendWindowSize
    <3> QED
        BY <1>1, <1>3, <2>0, <3>2, Zenon DEF Sendable
  <2>3. active \/ closing
      BY <1>1, <2>2, Zenon DEF SendInv, SendableIsActive, Sendable
  <2> QED
      BY <1>1, <2>3, Zenon
<1> QED
    BY <1>7, <1>8, <1>9, <1>10 DEF SendInv

\* Write after it has told the framer.
LEMMA WriteNotifiesInv == ASSUME SendInv, WriteNotifies PROVE SendInv'
<1>1. /\ active' = TRUE
      /\ UNCHANGED <<writeOffset, nextFrame, dataForWriting, finishedWriting, finSent, cancelWriteErr,
                     sndShutdownErr, numOutstandingFrames, retransmissionQueue, sndCompleted, writeSig,
                     wdeadline, closing, sendWindow, lastBlockedAt, inFlight, resetFinalSize, lostFrames>>
    BY DEF WriteNotifies
<1>2. FramesInv' /\ SendableIsActive'
    BY <1>1, FramesStay DEF SendableIsActive
<1>3. CASE writer.pc = "notify"
  <2>1. /\ writer' = [writer EXCEPT !.pc = "wait", !.notified = TRUE] /\ written' = written
      BY <1>3 DEF WriteNotifies
  <2>2. /\ writer' \in [pc: {"idle", "notify", "notifyCopied", "wait"}, len: Nat, notified: BOOLEAN, timer: BOOLEAN]
        /\ writer'.pc = "wait" /\ writer'.len = writer.len /\ writer'.timer = writer.timer
    <3>0. writer \in [pc: {"idle", "notify", "notifyCopied", "wait"}, len: Nat, notified: BOOLEAN, timer: BOOLEAN]
        BY DEF SendInv, SendType
    <3>1. writer' = [pc |-> "wait", len |-> writer.len, notified |-> TRUE, timer |-> writer.timer]
        BY <2>1, <3>0, Zenon
    <3>2. writer.len \in Nat /\ writer.timer \in BOOLEAN
        BY <3>0
    <3> QED
        BY <3>1, <3>2, Zenon
  <2>3. SendType'
      BY <1>1, <2>1, <2>2 DEF SendInv, SendType
  <2>4. BytesInv'
      BY <1>1, <1>3, <2>1, <2>2 DEF SendInv, BytesInv
  <2>5. BlockedInv'
      BY <1>1, <1>3, <2>2, Zenon DEF SendInv, BlockedInv, writeTimerFired
  <2> QED
      BY <1>2, <2>3, <2>4, <2>5 DEF SendInv
<1>4. CASE writer.pc = "notifyCopied"
  <2>1. writer' = noWrite /\ written' = written + writer.len
      BY <1>4 DEF WriteNotifies, WriteReturns
  <2>2. SendType'
      BY <1>1, <2>1 DEF SendInv, SendType, noWrite
  <2>3. BytesInv' /\ BlockedInv'
      BY <1>1, <1>4, <2>1 DEF SendInv, SendType, BytesInv, BlockedInv, noWrite
  <2> QED
      BY <1>2, <2>2, <2>3 DEF SendInv
<1> QED
    BY <1>3, <1>4 DEF WriteNotifies

\* Close, deadlines, MAX_STREAM_DATA and the shutdown.
LEMMA CloseInv == ASSUME SendInv, Close PROVE SendInv'
<1>1. SendType' /\ FramesInv'
    BY FramesStay DEF Close, SendInv, SendType
<1>2. BlockedInv' /\ BytesInv'
    BY DEF Close, SendInv, BlockedInv, BytesInv, writeTimerFired
<1>3. SendableIsActive'
    BY DEF Close, SendableIsActive
<1> QED
    BY <1>1, <1>2, <1>3 DEF SendInv

\* Close after it has told the framer.
LEMMA CloseNotifiesInv == ASSUME SendInv, CloseNotifies PROVE SendInv'
<1>0. SendType'
    BY ZenonT(60) DEF CloseNotifies, SendInv, SendType
<1>1. FramesInv'
    BY FramesStay DEF CloseNotifies
<1>2. BlockedInv' /\ BytesInv'
    BY WriterStays DEF CloseNotifies
<1>3. SendableIsActive'
    BY DEF CloseNotifies, SendableIsActive
<1> QED
    BY <1>0, <1>1, <1>2, <1>3 DEF SendInv

\* SetWriteDeadline.
LEMMA SetWriteDeadlineInv ==
    ASSUME SendInv, NEW t \in {"none", "future", "past"}, SetWriteDeadline(t) PROVE SendInv'
<1>1. SendType' /\ FramesInv'
    BY FramesStay DEF SetWriteDeadline, SendInv, SendType
<1>2. BlockedInv' /\ BytesInv'
    BY DEF SetWriteDeadline, SendInv, BlockedInv, BytesInv
<1>3. SendableIsActive'
    BY DEF SetWriteDeadline, SendInv, SendableIsActive, SendWindowSize
<1> QED
    BY <1>1, <1>2, <1>3 DEF SendInv

\* The deadline of the Write call passes.
LEMMA WriteDeadlinePassesInv == ASSUME SendInv, WriteDeadlinePasses PROVE SendInv'
<1>1. SendType' /\ FramesInv'
    BY FramesStay DEF WriteDeadlinePasses, SendInv, SendType
<1>2. BytesInv'
    BY DEF WriteDeadlinePasses, SendInv, BytesInv
<1>3. BlockedInv'
    BY DEF WriteDeadlinePasses, SendInv, SendType, BlockedInv, writeTimerFired
<1>4. SendableIsActive'
    BY DEF WriteDeadlinePasses, SendInv, SendableIsActive, SendWindowSize
<1> QED
    BY <1>1, <1>2, <1>3, <1>4 DEF SendInv

\* A MAX_STREAM_DATA frame.
LEMMA UpdateSendWindowInv == ASSUME SendInv, NEW limit \in SendWindows, updateSendWindow(limit) PROVE SendInv'
<1>0. limit \in Nat
    BY SendAssumption
<1>1. SendType' /\ FramesInv'
    BY <1>0, FramesStay DEF updateSendWindow, SendInv, SendType
<1>2. BytesInv' /\ BlockedInv'
    BY WriterStays DEF updateSendWindow
<1>3. SendableIsActive'
  <2>1. active' = (active \/ hasStreamData) /\ UNCHANGED <<retransmissionQueue, dataForWriting, nextFrame, finishedWriting, finSent, closing, writer, cancelWriteErr, sndShutdownErr>>
      BY DEF updateSendWindow
  <2> QED
      BY <2>1, Zenon DEF SendInv, SendableIsActive, hasStreamData
<1> QED
    BY <1>1, <1>2, <1>3 DEF SendInv

\* The connection is closed.
LEMMA SndCloseForShutdownInv == ASSUME SendInv, sndCloseForShutdown PROVE SendInv'
<1>1. SendType' /\ FramesInv'
    BY FramesStay DEF sndCloseForShutdown, SendInv, SendType
<1>2. BlockedInv' /\ BytesInv'
    BY DEF sndCloseForShutdown, SendInv, BlockedInv, BytesInv
<1>3. SendableIsActive'
    BY DEF sndCloseForShutdown, SendableIsActive
<1> QED
    BY <1>1, <1>2, <1>3 DEF SendInv

-----------------------------------------------------------------------------
(* popStreamFrame *)

\* A frame that leaves is counted, and the stream is not complete.
LEMMA SendsFacts ==
    ASSUME SendInv, ~cancelWriteErr, NEW n \in Nat, writeOffset <= n, NEW f \in FramesBelow(n),
           inFlight' = Append(inFlight, f), numOutstandingFrames' = numOutstandingFrames + 1
    PROVE  /\ inFlight' \in Seq(FramesBelow(n)) /\ inFlight' # <<>>
           /\ numOutstandingFrames' \in Nat /\ numOutstandingFrames' = Len(inFlight')
<1>1. inFlight \in Seq(FramesBelow(n))
    BY FramesGrow DEF SendInv, SendType
<1>3. Append(inFlight, f) \in Seq(FramesBelow(n)) /\ Append(inFlight, f) # <<>> /\ Len(Append(inFlight, f)) = Len(inFlight) + 1
    BY <1>1, AppendProperties
<1>4. numOutstandingFrames = Len(inFlight) /\ numOutstandingFrames \in Nat
    BY DEF SendInv, SendType, FramesInv
<1> QED
    BY <1>3, <1>4

\* The two parts of a frame that is split (MaybeSplitOffFrame).
LEMMA SplitFrame ==
    ASSUME NEW n \in Nat, NEW f \in FramesBelow(n), NEW max \in Nat, f.len > max,
           NEW g, g = [f EXCEPT !.len = max, !.fin = FALSE],
           NEW h, h = [f EXCEPT !.off = @ + max, !.len = @ - max]
    PROVE  g \in FramesBelow(n) /\ h \in FramesBelow(n)
<1>1. f \in [off: Nat, len: Nat, fin: BOOLEAN] /\ f.off + f.len <= n
    BY DEF FramesBelow
<1>2. f.off \in Nat /\ f.len \in Nat /\ f.fin \in BOOLEAN
    BY <1>1
<1>3. f.off + max \in Nat /\ f.len - max \in Nat /\ f.off + max <= n /\ (f.off + max) + (f.len - max) <= n
    BY <1>1, <1>2
<1>4. g = [off |-> f.off, len |-> max, fin |-> FALSE]
    BY <1>1, Zenon
<1>5. h = [off |-> f.off + max, len |-> f.len - max, fin |-> f.fin]
    BY <1>1, Zenon
<1>6. [off |-> f.off, len |-> max, fin |-> FALSE] \in FramesBelow(n)
    BY <1>2, <1>3, Zenon DEF FramesBelow
<1>7. [off |-> f.off + max, len |-> f.len - max, fin |-> f.fin] \in FramesBelow(n)
    BY <1>2, <1>3, Zenon DEF FramesBelow
<1> QED
    BY <1>4, <1>5, <1>6, <1>7, Zenon

\* What every popped frame leaves alone.
popRest == <<finishedWriting, cancelWriteErr, sndShutdownErr, sndCompleted, wdeadline, writer,
             closing, sendWindow, resetFinalSize, written, lostFrames>>

\* A frame of the retransmission queue leaves.
LEMMA PopRetransmissionInv ==
    ASSUME SendInv, ~cancelWriteErr, NEW max \in 1 .. MaxDataLen, popRetransmission(max), UNCHANGED popRest
    PROVE  SendInv'
<1> DEFINE f == Head(retransmissionQueue)
           F == FramesBelow(writeOffset)
<1>0. max \in Nat /\ writeOffset \in Nat /\ retransmissionQueue \in Seq(F) /\ retransmissionQueue # <<>>
    BY SendAssumption DEF popRetransmission, SendInv, SendType
<1>1. UNCHANGED <<writeOffset, nextFrame, dataForWriting, finSent, writeSig, finishedWriting, cancelWriteErr, sndShutdownErr, sndCompleted,
                  wdeadline, writer, closing, sendWindow, resetFinalSize, written>>
    BY DEF popRetransmission, popRest
<1>2. f \in F /\ Tail(retransmissionQueue) \in Seq(F)
    BY <1>0, HeadTailProperties
<1>3. f \in [off: Nat, len: Nat, fin: BOOLEAN] /\ f.off + f.len <= writeOffset
    BY <1>2 DEF FramesBelow
<1>4. /\ inFlight' \in Seq(F) /\ inFlight' # <<>> /\ numOutstandingFrames' \in Nat /\ numOutstandingFrames' = Len(inFlight')
      /\ active' = TRUE /\ retransmissionQueue' \in Seq(F)
  <2>1. CASE f.len > max
    <3> DEFINE g == [f EXCEPT !.len = max, !.fin = FALSE]
               h == [f EXCEPT !.off = @ + max, !.len = @ - max]
    <3>1. /\ inFlight' = Append(inFlight, g) /\ numOutstandingFrames' = numOutstandingFrames + 1 /\ active' = TRUE
          /\ retransmissionQueue' = [retransmissionQueue EXCEPT ![1] = h]
        BY <2>1 DEF MaybeSplitOffFrame, popRetransmission, sends
    <3>2. g \in F /\ h \in F
        BY <1>0, <1>2, <2>1, SplitFrame, Zenon
    <3> HIDE DEF g, h, F, f
    <3>3. 1 \in 1 .. Len(retransmissionQueue)
        BY <1>0, EmptySeq
    <3>4. retransmissionQueue' \in Seq(F)
        BY <1>0, <3>1, <3>2, <3>3, ExceptSeq
    <3>5. /\ inFlight' \in Seq(F) /\ inFlight' # <<>> /\ numOutstandingFrames' \in Nat /\ numOutstandingFrames' = Len(inFlight')
      <4>1. writeOffset <= writeOffset
          BY <1>0
      <4> QED
          BY <1>0, <3>1, <3>2, <4>1, SendsFacts, Zenon DEF F
    <3> QED
        BY <3>1, <3>4, <3>5
  <2>2. CASE ~(f.len > max)
    <3>1. /\ inFlight' = Append(inFlight, f) /\ numOutstandingFrames' = numOutstandingFrames + 1 /\ active' = TRUE
          /\ retransmissionQueue' = Tail(retransmissionQueue)
        BY <2>2 DEF popRetransmission, sends
    <3> HIDE DEF f
    <3>2. /\ inFlight' \in Seq(F) /\ inFlight' # <<>> /\ numOutstandingFrames' \in Nat /\ numOutstandingFrames' = Len(inFlight')
      <4>1. writeOffset <= writeOffset
          BY <1>0
      <4> QED
          BY <1>0, <1>2, <3>1, <4>1, SendsFacts, Zenon
    <3> QED
        BY <1>2, <3>1, <3>2
  <2> QED
      BY <2>1, <2>2
<1> HIDE DEF f
<1>5. SendType'
    BY <1>1, <1>4 DEF SendInv, SendType
<1>6. BlockedInv' /\ BytesInv'
    BY <1>1, WriterStays
<1>7. FramesInv'
  <2>1. sndCompleted # 1
      BY <1>0 DEF SendInv, FramesInv
  <2> QED
      BY <1>1, <1>4, <2>1 DEF SendInv, FramesInv
<1>8. SendableIsActive'
    BY <1>4, Zenon DEF SendableIsActive
<1> QED
    BY <1>5, <1>6, <1>7, <1>8 DEF SendInv

\* A frame with nothing but the FIN leaves.
LEMMA PopFinInv ==
    ASSUME SendInv, ~cancelWriteErr, ~sndShutdownErr, popFin, UNCHANGED popRest
    PROVE  SendInv'
<1>0. writeOffset \in Nat
    BY DEF SendInv, SendType
<1>1. /\ retransmissionQueue = <<>> /\ dataForWriting = 0 /\ nextFrame = 0
      /\ UNCHANGED <<writeOffset, nextFrame, dataForWriting, writeSig, lastBlockedAt, retransmissionQueue>>
      /\ UNCHANGED <<finishedWriting, cancelWriteErr, sndShutdownErr, sndCompleted,
                     wdeadline, writer, closing, sendWindow, resetFinalSize, written>>
    BY DEF popFin, popRest
<1>2. CASE finishedWriting /\ ~finSent
  <2> DEFINE f == [off |-> writeOffset, len |-> 0, fin |-> TRUE]
  <2>1. /\ finSent' = TRUE /\ active' = FALSE
        /\ inFlight' = Append(inFlight, f) /\ numOutstandingFrames' = numOutstandingFrames + 1
      BY <1>2 DEF popFin, sends
  <2>2. f \in FramesBelow(writeOffset)
      BY <1>0 DEF FramesBelow
  <2> HIDE DEF f
  <2>3. /\ inFlight' \in Seq(FramesBelow(writeOffset)) /\ inFlight' # <<>>
        /\ numOutstandingFrames' \in Nat /\ numOutstandingFrames' = Len(inFlight')
    <3>1. writeOffset <= writeOffset
        BY <1>0
    <3> QED
        BY <1>0, <2>1, <2>2, <3>1, SendsFacts, Zenon
  <2>5. SendType'
      BY <1>1, <2>1, <2>3, ZenonT(60) DEF SendInv, SendType
  <2>6. BlockedInv' /\ BytesInv'
      BY <1>1, <1>2, <2>1 DEF SendInv, BlockedInv, BytesInv, writeTimerFired
  <2>7. sndCompleted # 1
      BY <1>2 DEF SendInv, FramesInv
  <2>8. FramesInv'
      BY <1>1, <2>1, <2>3, <2>7 DEF SendInv, FramesInv
  <2>9. SendableIsActive'
      BY <1>1, <2>1 DEF SendableIsActive
  <2> QED
      BY <2>5, <2>6, <2>8, <2>9 DEF SendInv
<1>3. CASE ~(finishedWriting /\ ~finSent)
  <2>1. active' = FALSE /\ UNCHANGED <<finSent, inFlight, numOutstandingFrames>>
      BY <1>3 DEF popFin
  <2>2. SendType'
      BY <1>1, <2>1, ZenonT(60) DEF SendInv, SendType
  <2>3. BlockedInv' /\ BytesInv' /\ FramesInv'
      BY <1>1, <2>1, WriterStays, FramesStay
  <2>4. SendableIsActive'
      BY <1>1, <1>3, <2>1 DEF SendableIsActive
  <2> QED
      BY <2>2, <2>3, <2>4 DEF SendInv
<1> QED
    BY <1>2, <1>3

\* There is data, and no window for it.
LEMMA PopBlockedInv ==
    ASSUME SendInv, ~cancelWriteErr, ~sndShutdownErr, popBlocked, UNCHANGED popRest
    PROVE  SendInv'
<1>1. /\ retransmissionQueue = <<>> /\ dataForWriting + nextFrame > 0 /\ SendWindowSize = 0
      /\ UNCHANGED <<writeOffset, nextFrame, dataForWriting, finSent, writeSig, retransmissionQueue, inFlight, numOutstandingFrames>>
      /\ UNCHANGED <<finishedWriting, cancelWriteErr, sndShutdownErr, sndCompleted,
                     wdeadline, writer, closing, sendWindow, resetFinalSize, written>>
    BY DEF popBlocked, popRest
<1>2. active' \in BOOLEAN
    BY DEF popBlocked
<1>3. SendType'
    BY <1>1, <1>2 DEF SendInv, SendType
<1>4. BlockedInv' /\ BytesInv' /\ FramesInv'
    BY <1>1, WriterStays, FramesStay
<1>5. SendableIsActive'
  <2>1. SendWindowSize' = 0 /\ dataForWriting' + nextFrame' = dataForWriting + nextFrame
      BY <1>1 DEF SendWindowSize
  <2>2. dataForWriting + nextFrame # 0
      BY <1>1 DEF SendInv, SendType
  <2>3. ~(SendWindowSize' > 0)
      BY <2>1
  <2> QED
      BY <1>1, <2>1, <2>2, <2>3, Zenon DEF SendableIsActive
<1> QED
    BY <1>3, <1>4, <1>5 DEF SendInv

\* A frame with new data leaves.
LEMMA PopNewInv ==
    ASSUME SendInv, ~cancelWriteErr, ~sndShutdownErr, NEW max \in 1 .. MaxDataLen, popNew(max), UNCHANGED popRest
    PROVE  SendInv'
<1> DEFINE buffered == nextFrame > 0
           n == Min2(IF buffered THEN nextFrame ELSE dataForWriting, Min2(max, SendWindowSize))
           frame == IF buffered THEN nextFrame - n ELSE 0
           data == IF buffered THEN dataForWriting ELSE dataForWriting - n
           fin == finishedWriting /\ data = 0 /\ frame = 0 /\ ~finSent
           more == frame > 0 \/ data > 0 \/ (~buffered /\ finishedWriting)
           sig == IF buffered THEN frame = 0 ELSE signalsWrite(data)
           f == [off |-> writeOffset, len |-> n, fin |-> fin]
<1>0. /\ writeOffset \in Nat /\ nextFrame \in Nat /\ dataForWriting \in Nat /\ sendWindow \in Nat
      /\ max \in Nat /\ max > 0 /\ MaxPacketBufferSize \in Nat
    BY SendAssumption DEF SendInv, SendType
<1>1. /\ retransmissionQueue = <<>> /\ dataForWriting + nextFrame > 0 /\ SendWindowSize > 0
      /\ nextFrame' = frame /\ dataForWriting' = data /\ writeOffset' = writeOffset + n
      /\ finSent' = (finSent \/ fin) /\ writeSig' = (writeSig \/ sig)
      /\ inFlight' = Append(inFlight, f) /\ numOutstandingFrames' = numOutstandingFrames + 1
      /\ active' = more
      /\ UNCHANGED <<lastBlockedAt, retransmissionQueue>>
    BY DEF popNew, sends
<1>2. UNCHANGED <<finishedWriting, cancelWriteErr, sndShutdownErr, sndCompleted, wdeadline, writer,
                  closing, sendWindow, resetFinalSize, written, lostFrames>>
    BY DEF popRest
<1>3. /\ n \in Nat /\ frame \in Nat /\ data \in Nat
      /\ frame + n + data = nextFrame + dataForWriting
      /\ data <= dataForWriting
      /\ dataForWriting = 0 => data = 0 /\ frame + n = nextFrame
    BY <1>0, <1>1 DEF Min2, SendWindowSize
<1>4. buffered => data = dataForWriting
    OBVIOUS
<1>5. ~buffered => frame = 0 /\ (~sig => data > MaxPacketBufferSize)
    BY <1>0, <1>3 DEF signalsWrite
<1>6. buffered /\ ~sig => frame > 0
    BY <1>3
<1>7. fin \in BOOLEAN /\ more \in BOOLEAN /\ sig \in BOOLEAN
  <2>1. fin \in BOOLEAN /\ more \in BOOLEAN
      BY Zenon
  <2>2. signalsWrite(data) \in BOOLEAN
    <3> HIDE DEF data
    <3> QED
        BY <1>3, <1>0 DEF signalsWrite
  <2>3. (frame = 0) \in BOOLEAN
      BY Zenon
  <2>4. sig = (frame = 0) \/ sig = signalsWrite(data)
      BY Zenon
  <2> QED
      BY <2>1, <2>2, <2>3, <2>4, Zenon
<1>8. ~finSent
    BY <1>1 DEF SendInv, SendType, BytesInv
<1>9. ~more => data = 0 /\ frame = 0 /\ (finishedWriting => fin)
    BY <1>3, <1>8
<1>10. fin => finishedWriting /\ data = 0 /\ frame = 0
    OBVIOUS
<1>11. writeOffset + n \in Nat /\ writeOffset <= writeOffset + n
    BY <1>0, <1>3
<1>12. f \in FramesBelow(writeOffset + n)
  <2> HIDE DEF n, fin
  <2>1. f \in [off: Nat, len: Nat, fin: BOOLEAN]
      BY <1>0, <1>3, <1>7, Zenon
  <2>2. f.off + f.len <= writeOffset + n
    <3>1. f.off = writeOffset /\ f.len = n
        BY Zenon
    <3> HIDE DEF f
    <3> QED
        BY <3>1, <1>11
  <2> QED
      BY <2>1, <2>2, Zenon DEF FramesBelow
<1> HIDE DEF n, frame, data, fin, more, sig, f, buffered
<1>13. /\ inFlight' \in Seq(FramesBelow(writeOffset + n)) /\ inFlight' # <<>>
       /\ numOutstandingFrames' \in Nat /\ numOutstandingFrames' = Len(inFlight')
    BY <1>1, <1>11, <1>12, SendsFacts, Zenon
<1>14. SendType'
  <2>1. retransmissionQueue' \in Seq(FramesBelow(writeOffset'))
      BY <1>1, <1>11, EmptySeq
  <2>2. inFlight' \in Seq(FramesBelow(writeOffset'))
      BY <1>1, <1>13, Zenon
  <2>3. finSent' \in BOOLEAN /\ writeSig' \in BOOLEAN /\ active' \in BOOLEAN
      BY <1>1, <1>7, Zenon DEF SendInv, SendType
  <2>4. writeOffset' \in Nat /\ nextFrame' \in Nat /\ dataForWriting' \in Nat
      BY <1>1, <1>3, <1>11, Zenon
  <2> QED
      BY <1>2, <1>13, <2>1, <2>2, <2>3, <2>4, Zenon DEF SendInv, SendType
<1>15. BlockedInv'
  <2> SUFFICES ASSUME writer.pc \in {"notify", "wait"}, ~writeSig, ~sig, ~writeTimerFired
               PROVE  /\ data > 0
                      /\ frame > 0 \/ frame + data > MaxPacketBufferSize
                      /\ ~cancelWriteErr /\ ~sndShutdownErr
                      /\ wdeadline # "past" /\ (wdeadline = "future" => writer.timer)
      BY <1>1, <1>2, Zenon DEF BlockedInv, writeTimerFired
  <2>1. /\ dataForWriting > 0
        /\ ~cancelWriteErr /\ ~sndShutdownErr
        /\ wdeadline # "past" /\ (wdeadline = "future" => writer.timer)
      BY Zenon DEF SendInv, BlockedInv
  <2>2. CASE buffered
    <3>1. data > 0 /\ frame > 0
        BY <1>4, <1>6, <2>1, <2>2, Zenon
    <3> QED
        BY <2>1, <3>1, Zenon
  <2>3. CASE ~buffered
    <3>1. frame = 0 /\ data > MaxPacketBufferSize
        BY <1>5, <2>3, Zenon
    <3>2. data > 0 /\ frame + data > MaxPacketBufferSize
        BY <1>0, <1>3, <3>1
    <3> QED
        BY <2>1, <3>2, Zenon
  <2> QED
      BY <2>2, <2>3
<1>16. BytesInv'
  <2>1. writer.pc = "idle" => written = (writeOffset + n) + frame
    <3> SUFFICES ASSUME writer.pc = "idle" PROVE written = (writeOffset + n) + frame
        OBVIOUS
    <3>1. written = writeOffset + nextFrame /\ dataForWriting = 0
        BY DEF SendInv, BytesInv
    <3> QED
        BY <1>0, <1>3, <3>1
  <2>2. writer.pc # "idle" => /\ written + writer.len = (writeOffset + n) + frame + data
                              /\ ~finishedWriting /\ data <= writer.len
    <3> SUFFICES ASSUME writer.pc # "idle"
                 PROVE /\ written + writer.len = (writeOffset + n) + frame + data
                       /\ ~finishedWriting /\ data <= writer.len
        OBVIOUS
    <3>1. written + writer.len = writeOffset + nextFrame + dataForWriting /\ ~finishedWriting
          /\ dataForWriting <= writer.len /\ writer.len \in Nat
        BY DEF SendInv, SendType, BytesInv
    <3>2. data <= writer.len /\ written + writer.len = (writeOffset + n) + frame + data
        BY <1>0, <1>3, <3>1
    <3> QED
        BY <3>1, <3>2
  <2>3. writer.pc = "notifyCopied" => data = 0
      BY <1>3 DEF SendInv, BytesInv
  <2>4. writer.pc = "idle" => data = 0
      BY <1>3 DEF SendInv, BytesInv
  <2>5. fin => data + frame = 0
      BY <1>3, <1>10
  <2> QED
      BY <1>1, <1>2, <1>8, <1>10, <2>1, <2>2, <2>3, <2>4, <2>5, Zenon DEF BytesInv
<1>17. FramesInv'
  <2>1. sndCompleted # 1
      BY <1>8, Zenon DEF SendInv, FramesInv
  <2>2. resetFinalSize = NoReset
      BY Zenon DEF SendInv, FramesInv
  <2> QED
      BY <1>1, <1>2, <1>13, <2>1, <2>2, Zenon DEF FramesInv
<1>18. SendableIsActive'
  <2> SUFFICES ASSUME ~more
               PROVE  ~Sendable'
      BY <1>1, Zenon DEF SendableIsActive, Sendable
  <2>1. data = 0 /\ frame = 0 /\ (finishedWriting => fin)
      BY <1>9, Zenon
  <2>2. data + frame = 0 /\ ~(data + frame > 0)
      BY <2>1
  <2> QED
      BY <1>1, <1>2, <2>1, <2>2, Zenon DEF Sendable
<1> QED
    BY <1>14, <1>15, <1>16, <1>17, <1>18 DEF SendInv

\* The framer pops a frame of the stream.
LEMMA PopStreamFrameInv ==
    ASSUME SendInv, NEW max \in 1 .. MaxDataLen, popStreamFrame(max)
    PROVE  SendInv'
<1>1. UNCHANGED popRest
    BY DEF popStreamFrame, popRest
<1>2. CASE cancelWriteErr \/ sndShutdownErr
  <2>1. active' = FALSE
        /\ UNCHANGED <<writeOffset, nextFrame, dataForWriting, finSent, writeSig, lastBlockedAt,
                       retransmissionQueue, inFlight, numOutstandingFrames>>
      BY <1>2 DEF popStreamFrame
  <2>2. UNCHANGED <<finishedWriting, cancelWriteErr, sndShutdownErr, sndCompleted, wdeadline, writer,
                    closing, sendWindow, resetFinalSize, written, lostFrames>>
      BY <1>1 DEF popRest
  <2>3. SendType'
    <3>1. active' \in BOOLEAN
        BY <2>1, Zenon
    <3>2. /\ retransmissionQueue' \in Seq(FramesBelow(writeOffset')) /\ inFlight' \in Seq(FramesBelow(writeOffset'))
          /\ UNCHANGED <<writeOffset, nextFrame, dataForWriting, finSent, writeSig, numOutstandingFrames>>
        BY <2>1 DEF SendInv, SendType
    <3> QED
        BY <2>2, <3>1, <3>2 DEF SendInv, SendType
  <2>4. BlockedInv' /\ BytesInv' /\ FramesInv'
      BY <2>1, <2>2, WriterStays, FramesStay
  <2>5. SendableIsActive'
      BY <1>2, <2>2, Zenon DEF SendableIsActive
  <2> QED
      BY <2>3, <2>4, <2>5 DEF SendInv
<1>3. CASE ~(cancelWriteErr \/ sndShutdownErr)
  <2>1. popRetransmission(max) \/ popFin \/ popBlocked \/ popNew(max)
      BY <1>3 DEF popStreamFrame
  <2>2. ~cancelWriteErr /\ ~sndShutdownErr
      BY <1>3
  <2> QED
      BY <1>1, <2>1, <2>2, PopRetransmissionInv, PopFinInv, PopBlockedInv, PopNewInv
<1> QED
    BY <1>2, <1>3

-----------------------------------------------------------------------------
(* Acknowledgements, losses and CancelWrite *)

\* A frame is acknowledged.
LEMMA OnAckedInv == ASSUME SendInv, NEW i \in DOMAIN inFlight, OnAcked(i) PROVE SendInv'
<1> DEFINE F == FramesBelow(writeOffset)
<1>0. inFlight \in Seq(F)
    BY DEF SendInv, SendType
<1> HIDE DEF F
<1>1. RemoveAt(inFlight, i) \in Seq(F) /\ Len(RemoveAt(inFlight, i)) = Len(inFlight) - 1 /\ inFlight # <<>>
    BY <1>0, RemoveOne
<1>2. /\ inFlight' = RemoveAt(inFlight, i)
      /\ numOutstandingFrames' = IF cancelWriteErr THEN numOutstandingFrames ELSE numOutstandingFrames - 1
      /\ IF cancelWriteErr THEN UNCHANGED sndCompleted ELSE completes
      /\ UNCHANGED <<retransmissionQueue, cancelWriteErr, writeOffset, nextFrame, dataForWriting, finishedWriting,
                     finSent, sndShutdownErr, writeSig, wdeadline, writer, closing, sendWindow, lastBlockedAt, active,
                     resetFinalSize, written, lostFrames>>
    BY DEF OnAcked
<1>3. BlockedInv' /\ BytesInv'
    BY <1>2, WriterStays
<1>4. SendableIsActive'
    BY <1>2, Zenon DEF SendInv, SendableIsActive, SendWindowSize
<1>5. Len(inFlight) \in Nat \ {0} /\ Len(RemoveAt(inFlight, i)) \in Nat
    BY <1>0, <1>1, EmptySeq
<1>6. CASE cancelWriteErr
  <2>1. sndCompleted = 1
      BY <1>6 DEF SendInv, FramesInv
  <2>2. numOutstandingFrames' = numOutstandingFrames /\ sndCompleted' = sndCompleted
      BY <1>2, <1>6
  <2>3. SendType'
      BY <1>1, <1>2, <2>2 DEF SendInv, SendType, F
  <2>4. FramesInv'
      BY <1>2, <1>6, <2>1, <2>2, Zenon DEF SendInv, FramesInv
  <2> QED
      BY <1>3, <1>4, <2>3, <2>4 DEF SendInv
<1>7. CASE ~cancelWriteErr
  <2>1. numOutstandingFrames = Len(inFlight) /\ sndCompleted # 1 /\ sndCompleted \in {0, 1} /\ resetFinalSize = NoReset
      BY <1>1, <1>7, Zenon DEF SendInv, SendType, FramesInv
  <2>2. sndCompleted = 0
      BY <2>1
  <2>3. numOutstandingFrames' = Len(inFlight) - 1 /\ numOutstandingFrames' \in Nat /\ numOutstandingFrames' = Len(inFlight')
      BY <1>1, <1>2, <1>5, <1>7, <2>1
  <2>4. numOutstandingFrames' = 0 <=> inFlight' = <<>>
      BY <1>0, <1>1, <1>2, <2>3, EmptySeq
  <2>5. sndCompleted' = IF isNewlyCompleted THEN 1 ELSE 0
      BY <1>2, <1>7, <2>2 DEF completes
  <2>6. isNewlyCompleted <=> finSent /\ inFlight' = <<>> /\ retransmissionQueue' = <<>>
      BY <1>2, <1>7, <2>2, <2>4, Zenon DEF isNewlyCompleted
  <2>7. sndCompleted' \in {0, 1} /\ (sndCompleted' = 1 <=> finSent /\ inFlight' = <<>> /\ retransmissionQueue' = <<>>)
      BY <2>5, <2>6
  <2>8. SendType'
      BY <1>1, <1>2, <2>3, <2>7 DEF SendInv, SendType, F
  <2>9. FramesInv'
      BY <1>2, <1>7, <2>1, <2>3, <2>7, Zenon DEF FramesInv
  <2> QED
      BY <1>3, <1>4, <2>8, <2>9 DEF SendInv
<1> QED
    BY <1>6, <1>7

\* A frame is lost.
LEMMA OnLostInv == ASSUME SendInv, NEW i \in DOMAIN inFlight, OnLost(i) PROVE SendInv'
<1> DEFINE F == FramesBelow(writeOffset)
<1>0. inFlight \in Seq(F) /\ retransmissionQueue \in Seq(F)
    BY DEF SendInv, SendType
<1> HIDE DEF F
<1>1. /\ RemoveAt(inFlight, i) \in Seq(F) /\ Len(RemoveAt(inFlight, i)) = Len(inFlight) - 1 /\ inFlight # <<>>
      /\ inFlight[i] \in F
    BY <1>0, RemoveOne
<1>2. /\ inFlight' = RemoveAt(inFlight, i)
      /\ UNCHANGED <<writeOffset, nextFrame, dataForWriting, finishedWriting, finSent, cancelWriteErr,
                     sndShutdownErr, sndCompleted, writeSig, wdeadline, writer, closing, sendWindow,
                     lastBlockedAt, resetFinalSize, written>>
    BY DEF OnLost
<1>3. BlockedInv' /\ BytesInv'
    BY <1>2, WriterStays
<1>4. Len(inFlight) \in Nat \ {0}
    BY <1>0, <1>1, EmptySeq
<1>5. CASE cancelWriteErr
  <2>1. UNCHANGED <<numOutstandingFrames, retransmissionQueue, active>>
      BY <1>5 DEF OnLost
  <2>2. SendType'
      BY <1>1, <1>2, <2>1 DEF SendInv, SendType, F
  <2>3. FramesInv' /\ SendableIsActive'
      BY <1>2, <1>5, <2>1, Zenon DEF SendInv, FramesInv, SendableIsActive
  <2> QED
      BY <1>3, <2>2, <2>3 DEF SendInv
<1>6. CASE ~cancelWriteErr
  <2>1. /\ numOutstandingFrames' = numOutstandingFrames - 1
        /\ retransmissionQueue' = Append(retransmissionQueue, inFlight[i])
        /\ active' = TRUE
      BY <1>6 DEF OnLost
  <2>2. retransmissionQueue' \in Seq(F) /\ retransmissionQueue' # <<>>
      BY <1>0, <1>1, <2>1, AppendProperties
  <2>3. numOutstandingFrames = Len(inFlight) /\ sndCompleted # 1 /\ resetFinalSize = NoReset
      BY <1>1, <1>6, Zenon DEF SendInv, FramesInv
  <2>4. numOutstandingFrames' \in Nat /\ numOutstandingFrames' = Len(inFlight')
      BY <1>1, <1>2, <1>4, <2>1, <2>3
  <2>5. SendType'
      BY <1>1, <1>2, <2>1, <2>2, <2>4 DEF SendInv, SendType, F
  <2>6. FramesInv'
      BY <1>2, <1>6, <2>2, <2>3, <2>4, Zenon DEF FramesInv
  <2>7. SendableIsActive'
      BY <2>1, Zenon DEF SendableIsActive
  <2> QED
      BY <1>3, <2>5, <2>6, <2>7 DEF SendInv
<1> QED
    BY <1>5, <1>6

\* CancelWrite, STOP_SENDING.
LEMMA CancelWriteInv == ASSUME SendInv, cancelWriteImpl PROVE SendInv'
<1>1. /\ ~cancelWriteErr /\ cancelWriteErr' = TRUE /\ numOutstandingFrames' = 0 /\ retransmissionQueue' = <<>>
      /\ completes /\ writeSig' = TRUE /\ resetFinalSize' = writeOffset
      /\ UNCHANGED <<writeOffset, nextFrame, dataForWriting, finishedWriting, finSent, sndShutdownErr,
                     wdeadline, writer, closing, sendWindow, lastBlockedAt, active, inFlight, written>>
    BY DEF cancelWriteImpl
<1>2. sndCompleted' = 1
  <2>1. isNewlyCompleted <=> sndCompleted = 0
      BY <1>1 DEF isNewlyCompleted
  <2>2. sndCompleted \in {0, 1} /\ sndCompleted' = IF isNewlyCompleted THEN sndCompleted + 1 ELSE sndCompleted
      BY <1>1 DEF completes, SendInv, SendType
  <2> QED
      BY <2>1, <2>2
<1>3. SendType'
  <2>1. retransmissionQueue' \in Seq(FramesBelow(writeOffset'))
      BY <1>1, EmptySeq
  <2> QED
      BY <1>1, <1>2, <2>1 DEF SendInv, SendType
<1>4. BlockedInv'
    BY <1>1, Zenon DEF BlockedInv
<1>5. BytesInv'
    BY <1>1, Zenon DEF SendInv, BytesInv
<1>6. FramesInv'
    BY <1>1, <1>2, Zenon DEF FramesInv
<1>7. SendableIsActive'
    BY <1>1, Zenon DEF SendableIsActive
<1> QED
    BY <1>3, <1>4, <1>5, <1>6, <1>7 DEF SendInv

-----------------------------------------------------------------------------
\* A new stream.
LEMMA SendInitInv == SendInit => SendInv
<1> SUFFICES ASSUME SendInit PROVE SendInv
    OBVIOUS
<1>1. SendType
  <2>1. writer \in [pc: {"idle", "notify", "notifyCopied", "wait"}, len: Nat, notified: BOOLEAN, timer: BOOLEAN]
    <3>1. 0 \in Nat /\ "idle" \in {"idle", "notify", "notifyCopied", "wait"}
        OBVIOUS
    <3> QED
        BY <3>1, Zenon DEF SendInit, noWrite
  <2>2. retransmissionQueue \in Seq(FramesBelow(writeOffset)) /\ inFlight \in Seq(FramesBelow(writeOffset))
      BY EmptySeq DEF SendInit
  <2>3. /\ finishedWriting \in BOOLEAN /\ finSent \in BOOLEAN /\ cancelWriteErr \in BOOLEAN
        /\ sndShutdownErr \in BOOLEAN /\ writeSig \in BOOLEAN /\ closing \in BOOLEAN /\ active \in BOOLEAN
      BY Zenon DEF SendInit
  <2>4. /\ writeOffset \in Nat /\ nextFrame \in Nat /\ dataForWriting \in Nat /\ written \in Nat
        /\ numOutstandingFrames \in Nat /\ sndCompleted \in {0, 1} /\ wdeadline \in {"none", "future", "past"}
        /\ sendWindow \in Nat
      BY SendAssumption DEF SendInit
  <2> QED
      BY <2>1, <2>2, <2>3, <2>4, Zenon DEF SendType
<1>2. BlockedInv /\ BytesInv /\ FramesInv /\ SendableIsActive
    BY DEF SendInit, noWrite, BlockedInv, BytesInv, FramesInv, SendableIsActive
<1> QED
    BY <1>1, <1>2 DEF SendInv

\* Every step of the application, the run loop and the peer.
LEMMA SendNextInv == SendInv /\ [SendNext]_sndVars => SendInv'
<1> SUFFICES ASSUME SendInv, [SendNext]_sndVars PROVE SendInv'
    OBVIOUS
<1>1. CASE UNCHANGED sndVars
  <2>1. SendType'
      BY <1>1 DEF sndVars, SendInv, SendType
  <2>2. BlockedInv' /\ BytesInv' /\ FramesInv'
      BY <1>1, WriterStays, FramesStay DEF sndVars
  <2>3. SendableIsActive'
      BY <1>1, Zenon DEF sndVars, SendInv, SendableIsActive, SendWindowSize
  <2> QED
      BY <2>1, <2>2, <2>3 DEF SendInv
<1>2. CASE SendNext
    BY <1>2, WriteInv, WriteNotifiesInv, WriteWakesInv, CloseInv, CloseNotifiesInv, SetWriteDeadlineInv,
       WriteDeadlinePassesInv, PopStreamFrameInv, OnAckedInv, OnLostInv, CancelWriteInv, UpdateSendWindowInv,
       SndCloseForShutdownInv, Zenon DEF SendNext
<1> QED
    BY <1>1, <1>2

\* What the invariant says of a stream's users.
LEMMA SendImplies == SendInv => WaitingWriteIsBlocked /\ SendableIsActive /\ EndOfStream
<1> SUFFICES ASSUME SendInv PROVE WaitingWriteIsBlocked /\ EndOfStream
    BY DEF SendInv
<1>1. WaitingWriteIsBlocked
  <2>1. nextFrame + dataForWriting > MaxPacketBufferSize => ~canBufferStreamFrame
      BY SendAssumption DEF SendInv, SendType, canBufferStreamFrame
  <2> QED
      BY <2>1, Zenon DEF SendInv, BlockedInv, WaitingWriteIsBlocked
<1>2. \A j \in DOMAIN inFlight : inFlight[j].off + inFlight[j].len <= writeOffset
  <2> TAKE j \in DOMAIN inFlight
  <2> DEFINE F == FramesBelow(writeOffset)
  <2>1. inFlight \in Seq(F)
      BY DEF SendInv, SendType
  <2> HIDE DEF F
  <2>2. inFlight[j] \in F
      BY <2>1, RemoveOne
  <2> QED
      BY <2>2 DEF F, FramesBelow
<1>3. sndCompleted <= 1
    BY DEF SendInv, SendType
<1>4. EndOfStream
    BY <1>2, <1>3, Zenon DEF SendInv, BytesInv, FramesInv, EndOfStream
<1> QED
    BY <1>1, <1>4

\* send_stream.go and framer.go: for any writes, frame sizes and windows, a stream with something to
\* send is active in the framer, or the call that activates it is on its way.
THEOREM SendableStreamsAreActive == SendSpec => []SendableIsActive
BY SendInitInv, SendNextInv, SendImplies, PTL DEF SendSpec

\* send_stream.go Write: for any writes and windows, a Write that waits without a wakeup on its way has
\* nothing to return for.
THEOREM WritersAreWoken == SendSpec => []WaitingWriteIsBlocked
BY SendInitInv, SendNextInv, SendImplies, PTL DEF SendSpec

\* send_stream.go CancelWrite, isNewlyCompleted: the final size is what has left, no byte is written twice
\* or dropped, and the stream completes once, exactly when it is canceled or all is acknowledged.
THEOREM SendStreamEnds == SendSpec => []EndOfStream
BY SendInitInv, SendNextInv, SendImplies, PTL DEF SendSpec

-----------------------------------------------------------------------------
(* The ring buffer that queues frames (internal/utils/ringbuffer).         *)

\* The index of the k-th element of a ring of n slots whose first one is after h.
Slot(h, n, k) == IF h + k <= n THEN h + k ELSE h + k - n

\* From h on, the slots of r hold the queue q and then nothing.
Stores(r, h, q) ==
    \A k \in 1 .. Len(r) : r[Slot(h, Len(r), k)] = IF k <= Len(q) THEN q[k] ELSE Zero

\* Types.
RingType ==
    /\ ring \in Seq(Nat) /\ headPos \in Nat /\ tailPos \in Nat /\ full \in BOOLEAN
    /\ pushed \in Nat /\ queued \in Seq(Nat)

\* The positions: the tail is as far behind the head as the queue is long, and full tells a
\* full ring from an empty one.
RingPositions ==
    /\ Len(queued) <= size
    /\ size = 0 => headPos = 0 /\ tailPos = 0
    /\ size > 0 => headPos < size
    /\ size > 0 => tailPos = IF headPos + Len(queued) < size THEN headPos + Len(queued)
                             ELSE headPos + Len(queued) - size
    /\ full <=> size > 0 /\ Len(queued) = size

\* The invariant of the ring buffer.
RingInv == RingType /\ RingPositions /\ Stores(ring, headPos, queued)

\* Slots are different, and one after the other.
LEMMA Slots ==
    ASSUME NEW n \in Nat, NEW h \in Nat, h < n, NEW k \in 1 .. n
    PROVE  /\ Slot(h, n, k) \in 1 .. n
           /\ \A l \in 1 .. n : Slot(h, n, k) = Slot(h, n, l) => k = l
           /\ k = 1 => Slot(h, n, k) = h + 1
           /\ k < n => Slot(next(h, n), n, k) = Slot(h, n, k + 1)
           /\ k = n => Slot(next(h, n), n, k) = h + 1
           /\ next(h, n) \in Nat /\ next(h, n) < n
<1>1. /\ Slot(h, n, k) \in 1 .. n /\ (k = 1 => Slot(h, n, k) = h + 1)
      /\ next(h, n) \in Nat /\ next(h, n) < n
    BY DEF Slot, next
<1>2. ASSUME NEW l \in 1 .. n, Slot(h, n, k) = Slot(h, n, l) PROVE k = l
    BY <1>2 DEF Slot
<1>3. /\ k < n => Slot(next(h, n), n, k) = Slot(h, n, k + 1)
      /\ k = n => Slot(next(h, n), n, k) = h + 1
  <2>1. CASE h + 1 = n
    <3>1. next(h, n) = 0
        BY <2>1 DEF next
    <3> QED
        BY <2>1, <3>1 DEF Slot
  <2>2. CASE h + 1 # n
    <3>1. next(h, n) = h + 1
        BY <2>2 DEF next
    <3> QED
        BY <2>2, <3>1 DEF Slot
  <2> QED
      BY <2>1, <2>2
<1> QED
    BY <1>1, <1>2, <1>3

\* grow: the queue comes to lie at the start of a larger array.
LEMMA Grown ==
    ASSUME RingInv, full \/ size = 0
    PROVE  /\ grow.ring \in Seq(Nat) /\ Len(grow.ring) \in Nat /\ Len(grow.ring) > size /\ grow.head = 0 /\ grow.tail = size
           /\ Len(queued) = size
           /\ \A k \in 1 .. Len(grow.ring) : grow.ring[k] = IF k <= size THEN queued[k] ELSE Zero
<1> DEFINE n == Len(ring)  h == headPos
           N == IF n = 0 THEN 1 ELSE 2 * n
           A == SubSeq(ring, h + 1, n)
           B == SubSeq(ring, 1, h)
           Z == zeros(N - n)
<1>1. RingType /\ RingPositions /\ Stores(ring, headPos, queued)
    BY DEF RingInv
<1>2. n \in Nat /\ h \in Nat /\ h <= n /\ (n > 0 => h < n) /\ Len(queued) = n /\ N \in Nat /\ N > n
    BY <1>1 DEF RingType, RingPositions, size
<1>3. grow.ring = A \o B \o Z /\ grow.head = 0 /\ grow.tail = n
    BY DEF grow, size
<1>4. A \in Seq(Nat) /\ Len(A) = n - h /\ \A k \in 1 .. n - h : A[k] = ring[h + k]
  <2>1. h + 1 \in Int /\ n \in Int /\ \A k \in h + 1 .. n : ring[k] \in Nat
      BY <1>1, <1>2 DEF RingType
  <2>2. /\ A \in Seq(Nat) /\ Len(A) = IF h + 1 <= n THEN n - (h + 1) + 1 ELSE 0
        /\ \A k \in 1 .. n - (h + 1) + 1 : A[k] = ring[(h + 1) + k - 1]
    <3> HIDE DEF n, h
    <3> QED
        BY <2>1, SubSeqProperties
  <2> HIDE DEF A, n
  <2>3. n - (h + 1) + 1 = n - h /\ \A k \in 1 .. n - h : (h + 1) + k - 1 = h + k
      BY <1>2
  <2>4. Len(A) = n - h
      BY <1>2, <2>2
  <2> QED
      BY <2>2, <2>3, <2>4
<1>5. B \in Seq(Nat) /\ Len(B) = h /\ \A k \in 1 .. h : B[k] = ring[k]
    BY <1>1, <1>2, SMTT(60) DEF RingType
<1>6. Z \in Seq(Nat) /\ Len(Z) = N - n /\ \A k \in 1 .. N - n : Z[k] = 0
  <2>1. N - n \in Nat
      BY <1>2
  <2> HIDE DEF N, n
  <2> QED
      BY <2>1 DEF zeros, Zero
<1> HIDE DEF A, B, Z, N
<1>7. /\ A \o B \in Seq(Nat) /\ Len(A \o B) = Len(A) + Len(B)
      /\ \A k \in 1 .. Len(A) + Len(B) : (A \o B)[k] = IF k <= Len(A) THEN A[k] ELSE B[k - Len(A)]
    BY <1>4, <1>5, ConcatProperties, ZenonT(60)
<1> DEFINE C == A \o B
<1> HIDE DEF C
<1>8. /\ C \in Seq(Nat) /\ Len(C) = n
      /\ \A k \in 1 .. n : C[k] = queued[k]
  <2>1. Len(C) = n
      BY <1>2, <1>4, <1>5, <1>7 DEF C
  <2>2. ASSUME NEW k \in 1 .. n PROVE C[k] = queued[k]
    <3>1. ring[Slot(h, n, k)] = queued[k]
        BY <1>1, <1>2 DEF Stores
    <3>2. CASE k <= n - h
      <4>1. C[k] = A[k]
          BY <1>2, <1>4, <1>5, <1>7, <3>2 DEF C
      <4>2. A[k] = ring[h + k] /\ Slot(h, n, k) = h + k
          BY <1>2, <1>4, <3>2 DEF Slot
      <4> QED
          BY <3>1, <4>1, <4>2
    <3>3. CASE k > n - h
      <4>1. k - (n - h) \in 1 .. h /\ Slot(h, n, k) = k - (n - h)
          BY <1>2, <3>3 DEF Slot
      <4>2. C[k] = B[k - (n - h)]
          BY <1>2, <1>4, <1>5, <1>7, <3>3, SMTT(60) DEF C
      <4>3. B[k - (n - h)] = ring[k - (n - h)]
          BY <1>5, <4>1
      <4> QED
          BY <3>1, <4>1, <4>2, <4>3
    <3> QED
        BY <1>2, <3>2, <3>3
  <2> QED
      BY <1>7, <2>1, <2>2 DEF C
<1>9. /\ C \o Z \in Seq(Nat) /\ Len(C \o Z) = Len(C) + Len(Z)
      /\ \A k \in 1 .. Len(C) + Len(Z) : (C \o Z)[k] = IF k <= Len(C) THEN C[k] ELSE Z[k - Len(C)]
    BY <1>6, <1>8, ConcatProperties, Zenon
<1>10. Len(C \o Z) = N /\ \A k \in 1 .. N : (C \o Z)[k] = IF k <= n THEN queued[k] ELSE Zero
  <2>1. Len(C) + Len(Z) = N
      BY <1>2, <1>6, <1>8
  <2>2. ASSUME NEW k \in 1 .. N PROVE (C \o Z)[k] = IF k <= n THEN queued[k] ELSE Zero
    <3>1. CASE k <= n
        BY <1>2, <1>8, <1>9, <2>1, <3>1
    <3>2. CASE ~(k <= n)
      <4>1. k - n \in 1 .. N - n
          BY <1>2, <3>2
      <4>2. (C \o Z)[k] = Z[k - n]
          BY <1>8, <1>9, <2>1, <3>2
      <4> QED
          BY <1>6, <3>2, <4>1, <4>2 DEF Zero
    <3> QED
        BY <3>1, <3>2
  <2> QED
      BY <1>9, <2>1, <2>2
<1> QED
    BY <1>2, <1>3, <1>9, <1>10 DEF C, size

\* The tail after an element was stored there.
LEMMA NextTail ==
    ASSUME NEW n \in Nat, NEW h \in Nat, NEW m \in Nat, NEW t \in Nat, h < n, m < n, t + 1 = Slot(h, n, m + 1)
    PROVE  /\ next(t, n) = IF h + (m + 1) < n THEN h + (m + 1) ELSE h + (m + 1) - n
           /\ next(t, n) \in Nat /\ (next(t, n) = h <=> m + 1 = n)
BY DEF Slot, next

\* Storing an element behind a queue that does not fill the array.
LEMMA Stored ==
    ASSUME NEW r \in Seq(Nat), NEW h \in Nat, h < Len(r), NEW q \in Seq(Nat), Len(q) < Len(r), Stores(r, h, q),
           NEW v \in Nat
    PROVE  LET s == [r EXCEPT ![Slot(h, Len(r), Len(q) + 1)] = v]
           IN  s \in Seq(Nat) /\ Len(s) = Len(r) /\ Stores(s, h, Append(q, v))
<1> DEFINE n == Len(r)  m == Len(q)  i == Slot(h, n, m + 1)  s == [r EXCEPT ![i] = v]  p == Append(q, v)
<1>1. n \in Nat /\ m \in Nat /\ m < n /\ h < n /\ m + 1 \in 1 .. n
    OBVIOUS
<1>2. i \in 1 .. n /\ \A l \in 1 .. n : i = Slot(h, n, l) => m + 1 = l
  <2> HIDE DEF n, m
  <2> QED
      BY <1>1 DEF Slot
<1> HIDE DEF i
<1>3. s \in Seq(Nat) /\ Len(s) = n /\ s[i] = v /\ \A l \in 1 .. n : l # i => s[l] = r[l]
    BY <1>1, <1>2
<1>4. p \in Seq(Nat) /\ Len(p) = m + 1 /\ p[m + 1] = v /\ \A k \in 1 .. m : p[k] = q[k]
    BY <1>1
<1> HIDE DEF s, p
<1>5. ASSUME NEW k \in 1 .. n PROVE s[Slot(h, n, k)] = IF k <= m + 1 THEN p[k] ELSE Zero
  <2>1. r[Slot(h, n, k)] = IF k <= m THEN q[k] ELSE Zero
      BY DEF Stores
  <2>2. Slot(h, n, k) \in 1 .. n
      BY <1>1, Slots
  <2>3. CASE k = m + 1
    <3>1. Slot(h, n, k) = i
        BY <2>3 DEF i
    <3> QED
        BY SMTT(60), <1>1, <1>3, <1>4, <2>3, <3>1
  <2>4. CASE k # m + 1
    <3>1. Slot(h, n, k) # i
        BY <1>2, <2>4
    <3>2. s[Slot(h, n, k)] = r[Slot(h, n, k)]
        BY <1>3, <2>2, <3>1
    <3>3. CASE k <= m
        BY <1>1, <1>4, <2>1, <3>2, <3>3
    <3>4. CASE ~(k <= m)
      <4>1. ~(k <= m + 1)
          BY <1>1, <2>4, <3>4
      <4> QED
          BY <2>1, <3>2, <3>4, <4>1
    <3> QED
        BY <3>3, <3>4
  <2> QED
      BY <2>3, <2>4
<1>6. Stores(s, h, p)
    BY <1>3, <1>4, <1>5 DEF Stores
<1> QED
    BY <1>3, <1>6 DEF s, p, i

\* Initially the array is empty.
LEMMA RingInitInv == ASSUME RingSizes \subseteq Nat, Init PROVE RingInv
<1>1. PICK n \in RingSizes : ring = zeros(n)
    BY DEF Init
<1>2. n \in Nat
    OBVIOUS
<1>3. ring \in Seq(Nat) /\ Len(ring) = n /\ \A k \in 1 .. n : ring[k] = Zero
    BY <1>1, <1>2 DEF zeros, Zero
<1>4. queued = <<>> /\ Len(queued) = 0 /\ queued \in Seq(Nat) /\ headPos = 0 /\ tailPos = 0 /\ full = FALSE /\ pushed = 0
    BY DEF Init
<1>5. Stores(ring, headPos, queued)
    BY <1>2, <1>3, <1>4 DEF Stores, Slot
<1>6. RingPositions
    BY <1>2, <1>3, <1>4 DEF RingPositions, size
<1> QED
    BY <1>3, <1>4, <1>5, <1>6 DEF RingInv, RingType

\* PushBack, whether or not the array grows first.
LEMMA PushBackInv == ASSUME RingInv, PushBack PROVE RingInv'
<1> DEFINE r == IF full \/ size = 0 THEN grow ELSE [ring |-> ring, head |-> headPos, tail |-> tailPos]
           v == pushed + 1
           n == Len(r.ring)  h == r.head  m == Len(queued)
<1>1. RingType /\ RingPositions /\ Stores(ring, headPos, queued)
    BY DEF RingInv
<1>2. /\ ring' = [r.ring EXCEPT ![r.tail + 1] = v] /\ headPos' = h /\ tailPos' = next(r.tail, n) /\ full' = (tailPos' = h)
      /\ pushed' = v /\ queued' = Append(queued, v)
    BY Zenon DEF PushBack
<1>3. v \in Nat /\ queued \in Seq(Nat) /\ m \in Nat /\ queued' \in Seq(Nat) /\ Len(queued') = m + 1
    BY <1>1, <1>2 DEF RingType
<1>4. /\ r.ring \in Seq(Nat) /\ n \in Nat /\ h \in Nat /\ h < n /\ m < n /\ Stores(r.ring, h, queued)
      /\ r.tail \in Nat /\ r.tail + 1 = Slot(h, n, m + 1)
  <2>1. CASE full \/ size = 0
    <3>1. r = grow
        BY <2>1
    <3>2. /\ grow.ring \in Seq(Nat) /\ Len(grow.ring) \in Nat /\ Len(grow.ring) > size /\ grow.head = 0 /\ grow.tail = size
          /\ m = size
          /\ \A k \in 1 .. Len(grow.ring) : grow.ring[k] = IF k <= size THEN queued[k] ELSE Zero
        BY <2>1, Grown
    <3> DEFINE G == Len(grow.ring)
    <3>3. G \in Nat /\ m < G
        BY <1>3, <3>2
    <3> HIDE DEF G, r, m
    <3>4. \A k \in 1 .. G : Slot(0, G, k) = k
        BY <3>3 DEF Slot
    <3>5. Slot(0, G, m + 1) = m + 1
        BY <1>3, <3>3, <3>4
    <3>6. Stores(grow.ring, 0, queued)
        BY <3>2, <3>4 DEF Stores, G, m
    <3> QED
        BY <1>3, <3>1, <3>2, <3>3, <3>5, <3>6 DEF G
  <2>2. CASE ~(full \/ size = 0)
    <3>1. r.ring = ring /\ r.head = headPos /\ r.tail = tailPos
        BY <2>2
    <3> HIDE DEF r
    <3>2. /\ size \in Nat /\ size > 0 /\ headPos \in Nat /\ headPos < size /\ m <= size /\ m # size
          /\ tailPos = IF headPos + m < size THEN headPos + m ELSE headPos + m - size
        BY <1>1, <2>2 DEF RingType, RingPositions, size
    <3>3. m < size /\ tailPos \in Nat /\ tailPos + 1 = Slot(headPos, size, m + 1)
      <4> HIDE DEF m
      <4> QED
          BY <1>3, <3>2 DEF Slot
    <3> QED
        BY <1>1, <3>1, <3>2, <3>3 DEF size, RingType
  <2> QED
      BY <2>1, <2>2
<1> HIDE DEF r, v
<1>5. ring' \in Seq(Nat) /\ Len(ring') = n /\ Stores(ring', headPos', queued')
  <2> DEFINE s == [r.ring EXCEPT ![Slot(h, n, m + 1)] = v]
  <2>1. s \in Seq(Nat) /\ Len(s) = n /\ Stores(s, h, Append(queued, v))
    <3> HIDE DEF h
    <3> QED
        BY <1>3, <1>4, Stored, Zenon
  <2>2. ring' = s
      BY <1>2, <1>4, Zenon
  <2> HIDE DEF s, n, h, m
  <2> QED
      BY <1>2, <2>1, <2>2
<1> DEFINE t == r.tail
<1> HIDE DEF n, h, m, t
<1>6. t \in Nat /\ t + 1 = Slot(h, n, m + 1) /\ tailPos' = next(t, n)
    BY <1>2, <1>4 DEF t
<1>7. /\ tailPos' = IF h + (m + 1) < n THEN h + (m + 1) ELSE h + (m + 1) - n
      /\ tailPos' \in Nat /\ (tailPos' = h <=> m + 1 = n)
    BY SMTT(60), <1>3, <1>4, <1>6, NextTail
<1>8. RingType'
    BY <1>2, <1>3, <1>4, <1>5, <1>7, Zenon DEF RingType
<1>9. RingPositions'
  <2>1. size' = n /\ Len(queued)' = m + 1 /\ headPos' = h /\ m + 1 <= n /\ n > 0 /\ h < n
      BY <1>2, <1>3, <1>4, <1>5 DEF size
  <2>2. full' <=> m + 1 = n
      BY <1>2, <1>7
  <2> QED
      BY <1>3, <1>4, <1>7, <2>1, <2>2 DEF RingPositions
<1> QED
    BY <1>5, <1>8, <1>9 DEF RingInv

\* An empty ring, as Empty has it.
LEMMA EmptyRing == ASSUME RingInv PROVE Empty <=> queued = <<>>
<1>1. /\ size \in Nat /\ headPos \in Nat /\ queued \in Seq(Nat) /\ Len(queued) \in Nat /\ Len(queued) <= size /\ full \in BOOLEAN
      /\ RingPositions
    BY DEF RingInv, RingType, RingPositions, size
<1>2. CASE size = 0
    BY <1>1, <1>2 DEF RingPositions, Empty
<1>3. CASE size > 0
  <2>1. queued = <<>> <=> Len(queued) = 0
      BY <1>1
  <2> DEFINE m == Len(queued)  n == size
  <2>2. /\ headPos < n /\ tailPos = IF headPos + m < n THEN headPos + m ELSE headPos + m - n
        /\ full <=> m = n
      BY <1>1, <1>3 DEF RingPositions
  <2> HIDE DEF m, n
  <2>3. headPos = tailPos <=> m = 0 \/ m = n
      BY <1>1, <1>3, <2>2 DEF m, n
  <2>4. n # 0
      BY <1>3 DEF n
  <2> QED
      BY <2>1, <2>2, <2>3, <2>4 DEF Empty, m
<1> QED
    BY <1>1, <1>2, <1>3

\* PopFront.
LEMMA PopFrontInv == ASSUME RingInv, PopFront PROVE RingInv'
<1> DEFINE n == Len(ring)  h == headPos  m == Len(queued)
<1>1. RingType /\ RingPositions /\ Stores(ring, headPos, queued)
    BY DEF RingInv
<1>2. /\ ~Empty /\ full' = FALSE /\ ring' = [ring EXCEPT ![h + 1] = Zero] /\ headPos' = next(h, n)
      /\ queued' = Tail(queued) /\ tailPos' = tailPos /\ pushed' = pushed
    BY DEF PopFront, size
<1>3. queued # <<>>
    BY <1>2, EmptyRing
<1>4. /\ n \in Nat /\ h \in Nat /\ m \in Nat /\ m >= 1 /\ m <= n /\ h < n /\ ring \in Seq(Nat) /\ queued \in Seq(Nat)
      /\ tailPos = IF h + m < n THEN h + m ELSE h + m - n
    BY <1>1, <1>3 DEF RingType, RingPositions, size
<1>5. queued' \in Seq(Nat) /\ Len(queued') = m - 1 /\ \A k \in 1 .. m - 1 : queued'[k] = queued[k + 1]
    BY <1>2, <1>3, <1>4
<1>6. ring' \in Seq(Nat) /\ Len(ring') = n /\ ring'[h + 1] = Zero /\ \A l \in 1 .. n : l # h + 1 => ring'[l] = ring[l]
    BY <1>2, <1>4 DEF Zero
<1>7. ASSUME NEW k \in 1 .. n PROVE ring'[Slot(next(h, n), n, k)] = IF k <= m - 1 THEN queued'[k] ELSE Zero
  <2>1. CASE k < n
    <3>1. k + 1 \in 1 .. n
        BY <1>4, <2>1
    <3>2. Slot(next(h, n), n, k) = Slot(h, n, k + 1) /\ Slot(h, n, k + 1) \in 1 .. n
        BY <1>4, <2>1, <3>1, Slots
    <3>3. Slot(h, n, k + 1) # h + 1
        BY <1>4, <2>1, SMTT(60) DEF Slot
    <3>4. ring[Slot(h, n, k + 1)] = IF k + 1 <= m THEN queued[k + 1] ELSE Zero
        BY <1>1, <3>1 DEF Stores
    <3>5. ring'[Slot(next(h, n), n, k)] = ring[Slot(h, n, k + 1)]
        BY <1>6, <3>2, <3>3
    <3>6. k + 1 <= m <=> k <= m - 1
        BY <1>4
    <3>7. k <= m - 1 => queued'[k] = queued[k + 1]
        BY <1>4, <1>5
    <3> HIDE DEF n, m, h
    <3> QED
        BY <3>4, <3>5, <3>6, <3>7
  <2>2. CASE k = n
    <3>1. Slot(next(h, n), n, k) = h + 1
        BY <1>4, <2>2, Slots
    <3>2. ~(k <= m - 1)
        BY <1>4, <2>2
    <3> QED
        BY <1>6, <3>1, <3>2
  <2>3. k < n \/ k = n
      BY <1>4
  <2> QED
      BY <2>1, <2>2, <2>3
<1>8. Stores(ring', headPos', queued')
    BY <1>2, <1>5, <1>6, <1>7 DEF Stores
<1>9. next(h, n) \in Nat /\ next(h, n) < n
    BY <1>4 DEF next
<1>10. RingType'
    BY <1>1, <1>2, <1>5, <1>6, <1>9 DEF RingType
<1>11. RingPositions'
  <2>1. tailPos = IF next(h, n) + (m - 1) < n THEN next(h, n) + (m - 1) ELSE next(h, n) + (m - 1) - n
    <3> HIDE DEF h, n, m
    <3> QED
        BY <1>4 DEF next
  <2> HIDE DEF h, n, m
  <2>2. m - 1 <= n /\ m - 1 # n /\ n > 0
      BY <1>4
  <2>3. size' = n /\ Len(queued)' = m - 1 /\ headPos' = next(h, n) /\ tailPos' = tailPos /\ ~full'
      BY <1>2, <1>5, <1>6 DEF size
  <2> QED
      BY <1>4, <1>9, <2>1, <2>2, <2>3 DEF RingPositions
<1> QED
    BY <1>8, <1>10, <1>11 DEF RingInv

\* Clear.
LEMMA ClearInv == ASSUME RingInv, Clear PROVE RingInv'
<1> DEFINE n == Len(ring)
<1>1. RingType /\ RingPositions
    BY DEF RingInv
<1>2. n \in Nat /\ ring' = zeros(n) /\ headPos' = 0 /\ tailPos' = 0 /\ full' = FALSE /\ queued' = <<>> /\ pushed' = pushed
    BY <1>1 DEF Clear, size, RingType
<1>3. ~Empty
    BY DEF Clear
<1>4. n > 0
    BY <1>1, <1>2, <1>3 DEF Empty, RingPositions, size, RingType
<1> HIDE DEF n
<1>5. ring' \in Seq(Nat) /\ Len(ring') = n /\ \A k \in 1 .. n : ring'[k] = Zero
    BY <1>2 DEF zeros, Zero
<1>6. queued' \in Seq(Nat) /\ Len(queued') = 0
    BY <1>2
<1>7. Stores(ring', headPos', queued')
    BY <1>2, <1>5, <1>6 DEF Stores, Slot
<1>8. RingType'
    BY <1>1, <1>2, <1>5, <1>6 DEF RingType
<1>9. RingPositions'
    BY <1>2, <1>4, <1>5, <1>6 DEF RingPositions, size
<1> QED
    BY <1>7, <1>8, <1>9 DEF RingInv

\* Positions that wrap around.
LEMMA Wraps ==
    ASSUME NEW n \in Nat, NEW x \in Nat, n <= x, x < 2 * n
    PROVE  x % n = x - n
BY SMTT(60)

\* Positions that do not.
LEMMA StaysBelow == ASSUME NEW n \in Nat, NEW x \in Nat, x < n PROVE x % n = x
BY SMTT(60)

\* ringbuffer.go: for any initial size, and any sequence of PushBack, PopFront and Clear, the
\* ring buffer is a queue, also where its positions wrap around and when the array grows.
THEOREM RingBufferIsQueue == ASSUME RingSizes \subseteq Nat PROVE Spec => []RingIsQueue
<1>1. Init => RingInv
    BY RingInitInv
<1>2. RingInv /\ [Next]_rbVars => RingInv'
  <2> SUFFICES ASSUME RingInv, [Next]_rbVars PROVE RingInv'
      OBVIOUS
  <2>1. CASE UNCHANGED rbVars
      BY <2>1 DEF rbVars, RingInv, RingType, RingPositions, size, Stores
  <2> QED
      BY <2>1, PushBackInv, PopFrontInv, ClearInv DEF Next
<1>3. RingInv => RingIsQueue
  <2> SUFFICES ASSUME RingInv PROVE RingIsQueue
      OBVIOUS
  <2> DEFINE n == Len(ring)  m == Len(queued)
  <2>1. /\ n \in Nat /\ headPos \in Nat /\ m \in Nat /\ m <= n /\ full \in BOOLEAN /\ size = n
        /\ n > 0 => /\ headPos < n
                    /\ tailPos = IF headPos + m < n THEN headPos + m ELSE headPos + m - n
        /\ n = 0 => headPos = 0 /\ tailPos = 0
        /\ full <=> n > 0 /\ m = n
        /\ Stores(ring, headPos, queued)
      BY DEF RingInv, RingType, RingPositions, size
  <2>2. Length = Len(queued)
    <3> HIDE DEF n
    <3>1. Length = IF full THEN n ELSE IF tailPos >= headPos THEN tailPos - headPos ELSE tailPos - headPos + n
        BY <2>1, Zenon DEF Length
    <3>2. Length = m
      <4> HIDE DEF m
      <4> QED
          BY <2>1, <3>1
    <3> QED
        BY <3>2
  <2>3. ASSUME NEW k \in 1 .. size
        PROVE  at((headPos + k - 1) % size) = IF k <= Len(queued) THEN queued[k] ELSE Zero
    <3> DEFINE x == headPos + k - 1
    <3>1. k \in 1 .. n /\ n > 0 /\ headPos < n
        BY <2>1
    <3>2. (x % n) + 1 = Slot(headPos, n, k)
      <4> HIDE DEF n
      <4>1. CASE headPos + k <= n
        <5>1. x \in Nat /\ x < n
            BY <2>1, <3>1, <4>1
        <5>2. x % n = x
            BY <2>1, <5>1, StaysBelow, Zenon
        <5> QED
            BY <2>1, <3>1, <4>1, <5>2 DEF Slot
      <4>2. CASE ~(headPos + k <= n)
        <5>1. x \in Nat /\ n <= x /\ x < 2 * n
            BY <2>1, <3>1, <4>2
        <5>2. x % n = x - n
            BY <2>1, <5>1, Wraps, Zenon
        <5> QED
            BY <2>1, <3>1, <4>2, <5>2 DEF Slot
      <4> QED
          BY <4>1, <4>2
    <3>3. at(x % n) = ring[Slot(headPos, n, k)]
        BY <3>2, Zenon DEF at
    <3> QED
        BY <2>1, <3>1, <3>3, Zenon DEF Stores
  <2> QED
      BY <2>2, <2>3, EmptyRing DEF RingIsQueue
<1> QED
    BY <1>1, <1>2, <1>3, PTL DEF Spec
=============================================================================
