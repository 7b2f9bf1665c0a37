--------------------------- MODULE DatagramQueue ---------------------------
(***************************************************************************)
(* The DATAGRAM queues of a connection: goroutines that call Add and       *)
(* Receive, and the run loop that pops frames to send, queues received     *)
(* ones and closes.  Every step between two lock operations, or between a  *)
(* lock operation and a channel operation, is an action of its own.        *)
(*                                                                         *)
(* A channel with one slot is a Boolean (is the slot taken?).  A send to a *)
(* channel somebody is blocked on wakes one of them and leaves the slot    *)
(* empty, as Go's channels do.                                             *)
(***************************************************************************)
EXTENDS Integers, FiniteSets

CONSTANTS
    Adders,                   \* goroutines that call SendDatagram
    Receivers,                \* goroutines that call ReceiveDatagram
    maxDatagramSendQueueLen,
    maxDatagramRcvQueueLen,
    MaxAdds,                  \* bound: datagrams each adder sends
    MaxRcvd,                  \* bound: datagrams that arrive
    MayCancel                 \* may the context of a Receive be canceled?

VARIABLES
    sendLen,    \* length of sendQueue
    sentSlot,   \* the slot of channel sent
    adder,      \* where each adder is: idle, draining, selecting, blocked, locking
    adds,       \* datagrams each adder has still to send
    refused,    \* adders whose Add returned closeErr
    rcvLen,     \* length of rcvQueue
    rcvdSlot,   \* the slot of channel rcvd
    receiver,   \* where each receiver is: idle, checking, selecting, blocked
    arrived,    \* datagrams that have arrived
    dropped,    \* datagrams discarded because rcvQueue was full
    taken,      \* datagrams Receive has returned
    closed

dgSndVars == <<sendLen, sentSlot, adder, adds, refused>>
dgRcvVars == <<rcvLen, rcvdSlot, receiver, arrived, dropped, taken>>
dgVars == <<dgSndVars, dgRcvVars, closed>>

-----------------------------------------------------------------------------
(* Sending.                                                                *)

hasRoom == sendLen < maxDatagramSendQueueLen

\* One round of Add's loop under the lock: push and return, or drain sent.
AddRound(a) ==
    \/ /\ hasRoom
       /\ sendLen' = sendLen + 1
       /\ adder' = [adder EXCEPT ![a] = "idle"]
       /\ adds' = [adds EXCEPT ![a] = @ - 1]
       /\ UNCHANGED sentSlot
    \/ /\ ~hasRoom
       /\ sentSlot' = FALSE
       /\ adder' = [adder EXCEPT ![a] = "selecting"]
       /\ UNCHANGED <<sendLen, adds>>

Add(a) ==
    /\ adder[a] = "idle" /\ adds[a] > 0
    /\ AddRound(a)
    /\ UNCHANGED <<refused, dgRcvVars, closed>>

AddRetry(a) ==
    /\ adder[a] = "locking"
    /\ AddRound(a)
    /\ UNCHANGED <<refused, dgRcvVars, closed>>

\* select on closed and sent: either ready case may be chosen; otherwise block.
AddSelect(a) ==
    /\ adder[a] = "selecting"
    /\ \/ /\ closed
          /\ adder' = [adder EXCEPT ![a] = "idle"]
          /\ refused' = refused \cup {a}
          /\ adds' = [adds EXCEPT ![a] = 0]
          /\ UNCHANGED sentSlot
       \/ /\ sentSlot
          /\ sentSlot' = FALSE
          /\ adder' = [adder EXCEPT ![a] = "locking"]
          /\ UNCHANGED <<adds, refused>>
       \/ /\ ~closed /\ ~sentSlot
          /\ adder' = [adder EXCEPT ![a] = "blocked"]
          /\ UNCHANGED <<sentSlot, adds, refused>>
    /\ UNCHANGED <<sendLen, dgRcvVars, closed>>

\* Mutant: Pop does not notify.
notifySentNever == UNCHANGED <<sentSlot, adder>>

\* The non-blocking send on channel sent.
notifySent ==
    IF \E a \in Adders : adder[a] = "blocked"
    THEN /\ \E a \in Adders : adder[a] = "blocked" /\ adder' = [adder EXCEPT ![a] = "locking"]
         /\ UNCHANGED sentSlot
    ELSE sentSlot' = TRUE /\ UNCHANGED adder

\* Peek and Pop, by the packet packer in the run loop.
Pop ==
    /\ ~closed
    /\ sendLen > 0
    /\ sendLen' = sendLen - 1
    /\ notifySent
    /\ UNCHANGED <<adds, refused, dgRcvVars, closed>>

-----------------------------------------------------------------------------
(* Receiving.                                                              *)

\* Mutant: a received datagram does not notify.
notifyRcvdNever == UNCHANGED <<rcvdSlot, receiver>>

\* The non-blocking send on channel rcvd.
notifyRcvd ==
    IF \E r \in Receivers : receiver[r] = "blocked"
    THEN /\ \E r \in Receivers : receiver[r] = "blocked" /\ receiver' = [receiver EXCEPT ![r] = "checking"]
         /\ UNCHANGED rcvdSlot
    ELSE rcvdSlot' = TRUE /\ UNCHANGED receiver

\* HandleDatagramFrame, by the run loop: a full queue discards the datagram.
HandleDatagramFrame ==
    /\ ~closed /\ arrived < MaxRcvd
    /\ arrived' = arrived + 1
    /\ \/ /\ rcvLen < maxDatagramRcvQueueLen
          /\ rcvLen' = rcvLen + 1
          /\ notifyRcvd
          /\ UNCHANGED dropped
       \/ /\ rcvLen >= maxDatagramRcvQueueLen
          /\ dropped' = dropped + 1
          /\ UNCHANGED <<rcvLen, rcvdSlot, receiver>>
    /\ UNCHANGED <<dgSndVars, taken, closed>>

\* A call of Receive begins.
Receive(r) ==
    /\ receiver[r] = "idle"
    /\ receiver' = [receiver EXCEPT ![r] = "checking"]
    /\ UNCHANGED <<dgSndVars, rcvLen, rcvdSlot, arrived, dropped, taken, closed>>

\* One round of Receive's loop under the lock: take a datagram, or go on to
\* the select.
ReceiveCheck(r) ==
    /\ receiver[r] = "checking"
    /\ \/ /\ rcvLen > 0
          /\ rcvLen' = rcvLen - 1
          /\ taken' = taken + 1
          /\ receiver' = [receiver EXCEPT ![r] = "idle"]
       \/ /\ rcvLen = 0
          /\ receiver' = [receiver EXCEPT ![r] = "selecting"]
          /\ UNCHANGED <<rcvLen, taken>>
    /\ UNCHANGED <<dgSndVars, rcvdSlot, arrived, dropped, closed>>

\* select on rcvd, closed and the context.
ReceiveSelect(r) ==
    /\ receiver[r] = "selecting"
    /\ \/ rcvdSlot /\ rcvdSlot' = FALSE /\ receiver' = [receiver EXCEPT ![r] = "checking"]
       \/ closed /\ receiver' = [receiver EXCEPT ![r] = "done"] /\ UNCHANGED rcvdSlot
       \/ ~rcvdSlot /\ ~closed /\ receiver' = [receiver EXCEPT ![r] = "blocked"] /\ UNCHANGED rcvdSlot
    /\ UNCHANGED <<dgSndVars, rcvLen, arrived, dropped, taken, closed>>

\* The context of a Receive that waits is canceled; the caller may try again.
Cancel(r) ==
    /\ MayCancel
    /\ receiver[r] \in {"selecting", "blocked"}
    /\ receiver' = [receiver EXCEPT ![r] = "idle"]
    /\ UNCHANGED <<dgSndVars, rcvLen, rcvdSlot, arrived, dropped, taken, closed>>

-----------------------------------------------------------------------------
\* Mutant: closing wakes only the receivers.
wakeAddersNever == adder

\* close(h.closed) makes every blocked select return closeErr.
wakeAdders == [a \in Adders |-> IF adder[a] = "blocked" THEN "idle" ELSE adder[a]]

CloseWithError ==
    /\ ~closed
    /\ closed' = TRUE
    /\ adder' = wakeAdders
    /\ refused' = refused \cup {a \in Adders : adder[a] = "blocked"}
    /\ adds' = [a \in Adders |-> IF adder[a] = "blocked" THEN 0 ELSE adds[a]]
    /\ receiver' = [r \in Receivers |-> IF receiver[r] = "blocked" THEN "done" ELSE receiver[r]]
    /\ UNCHANGED <<sendLen, sentSlot, rcvLen, rcvdSlot, arrived, dropped, taken>>

DatagramInit ==
    /\ sendLen = 0 /\ sentSlot = FALSE
    /\ adder = [a \in Adders |-> "idle"]
    /\ adds = [a \in Adders |-> MaxAdds]
    /\ refused = {}
    /\ rcvLen = 0 /\ rcvdSlot = FALSE
    /\ receiver = [r \in Receivers |-> "idle"]
    /\ arrived = 0 /\ dropped = 0 /\ taken = 0
    /\ closed = FALSE

AdderStep(a) == Add(a) \/ AddSelect(a) \/ AddRetry(a)
ReceiverStep(r) == Receive(r) \/ ReceiveCheck(r) \/ ReceiveSelect(r)

DatagramNext ==
    \/ \E a \in Adders : AdderStep(a)
    \/ \E r \in Receivers : ReceiverStep(r) \/ Cancel(r)
    \/ Pop
    \/ HandleDatagramFrame
    \/ CloseWithError

DatagramSpec == DatagramInit /\ [][DatagramNext]_dgVars

(* Goroutines are scheduled, and the run loop sends while it has data:     *)
(* hasData schedules sending whenever Add has pushed.                      *)
DatagramFairness ==
    /\ \A a \in Adders : WF_dgVars(AddSelect(a) \/ AddRetry(a))
    /\ \A r \in Receivers : WF_dgVars(ReceiverStep(r))
    /\ WF_dgVars(Pop)

DatagramFairSpec == DatagramSpec /\ DatagramFairness

-----------------------------------------------------------------------------
\* The type of every variable, with the queues within their limits.
DatagramTypeOK ==
    /\ sendLen \in 0 .. maxDatagramSendQueueLen
    /\ sentSlot \in BOOLEAN /\ rcvdSlot \in BOOLEAN /\ closed \in BOOLEAN
    /\ adder \in [Adders -> {"idle", "selecting", "blocked", "locking"}]
    /\ adds \in [Adders -> 0 .. MaxAdds]
    /\ refused \subseteq Adders
    /\ rcvLen \in 0 .. maxDatagramRcvQueueLen
    /\ receiver \in [Receivers -> {"idle", "checking", "selecting", "blocked", "done"}]
    /\ arrived \in Nat /\ dropped \in Nat /\ taken \in Nat

\* Add, "blocks until the queue size has reduced": a call that is blocked comes
\* back, because its frame was queued or because the connection was closed.
AddReturns == []<>(\A a \in Adders : adder[a] = "idle")

\* While an adder is blocked the queue still has a frame, or an adder is on its
\* way that will take the room and cause another Pop: no wakeup is lost.
BlockedAdderIsWoken ==
    (\E a \in Adders : adder[a] = "blocked") /\ ~closed =>
        sendLen > 0 \/ \E a \in Adders : adder[a] = "locking"

\* Channel rcvd, "used to notify Receive that a new datagram was received": a
\* Receive is blocked beside a datagram only if another is about to take it.
BlockedReceiverIsWoken ==
    (\E r \in Receivers : receiver[r] = "blocked") /\ ~closed =>
        \/ rcvLen = 0
        \/ Cardinality({r \in Receivers : receiver[r] = "checking"}) + (IF rcvdSlot THEN 1 ELSE 0) >= rcvLen

\* No wakeup of a blocked Add or Receive is lost.
BlockedCallsAreWoken == BlockedAdderIsWoken /\ BlockedReceiverIsWoken
=============================================================================
