----------------------------- MODULE FECManager -----------------------------
(***************************************************************************)
(* The block erasure code between two endpoints: the manager used as a     *)
(* fec.Sender by the packet packer of one endpoint, the repair queue, a    *)
(* network that loses, duplicates and (if Reordering) reorders packets,    *)
(* and the manager used as a fec.Receiver by the other endpoint.           *)
(*                                                                         *)
(* A payload is identified with its source symbol ID.  What a repair frame *)
(* contains is abstracted to the block and parity it belongs to: the code  *)
(* is maximum distance separable (external library, or XOR with one        *)
(* parity symbol, see XorScheme), so any NumSource symbols of a block      *)
(* determine the rest.  Lengths are the subject of PacketPacker.           *)
(***************************************************************************)
EXTENDS Integers, Sequences, FiniteSets

CONSTANTS
    NumSource,     \* numTotSourceSymbols: source symbols per block
    NumRepair,     \* numTotRepairSymbols: repair symbols per block
    MaxBlocks,     \* bound: how many blocks the sender starts
    MaxLosses,     \* bound: symbols of one block the network may lose
    Reordering     \* may the network deliver packets out of order?

ASSUME NumSourceAssumption == NumSource \in Nat \ {0}
ASSUME NumRepairAssumption == NumRepair \in Nat
ASSUME BoundsAssumption == MaxBlocks \in Nat /\ MaxLosses \in Nat
ASSUME ReorderingAssumption == Reordering \in BOOLEAN

Blocks == 0 .. (MaxBlocks - 1)
SSIDs == 0 .. (MaxBlocks * NumSource - 1)
Parities == 0 .. (NumRepair - 1)

\* sidToBlockID, and the SSID range that newBlock gives a block
sidToBlockID(sid) == sid \div NumSource
SourcesOf(b) == (b * NumSource) .. (b * NumSource + NumSource - 1)

NoSource == -1
NoRepair == [block |-> -1, parity |-> -1]
RepairFrames == [block : Blocks, parity : Parities]
Packets == [src : SSIDs \cup {NoSource}, rep : RepairFrames \cup {NoRepair}]

VARIABLES
    nextSID,      \* sender: the next source symbol ID
    sndBlocks,    \* sender: blockStatuses
    repairQueue,  \* sender: repair frames waiting to be packed
    sent,         \* network: the packets sent so far, by packet number
    lost,         \* network: packet numbers that will never arrive
    received,     \* receiver: packet numbers already processed
    rcv           \* receiver: blockStatuses, and how often each payload was
                  \* passed up to the frame handlers (history)

vars == <<nextSID, sndBlocks, repairQueue, sent, lost, received, rcv>>

(* A block that exists but is empty equals one that is not in the map yet. *)
newBlock == [sources |-> {}, repairs |-> {}, isProcessed |-> FALSE]

\* "drop the block as you don't need it anymore"
processedBlock == [sources |-> {}, repairs |-> {}, isProcessed |-> TRUE]

\* Mutant: a block is taken to be complete one symbol early.
isCompleteEarly(bS) == Cardinality(bS.sources) + 1 >= NumSource

isComplete(bS) == Cardinality(bS.sources) = NumSource
isRecoverable(bS) == Cardinality(bS.sources) + Cardinality(bS.repairs) >= NumSource

-----------------------------------------------------------------------------
(* Sender.                                                                 *)

\* Mutant: ParityIDs start at 1.
repairSymbolsFromOne(b) == [i \in 1 .. NumRepair |-> [block |-> b, parity |-> i]]

\* The parity frames of a block in ParityID order, as both schemes return them.
repairSymbols(b) == [i \in 1 .. NumRepair |-> [block |-> b, parity |-> i - 1]]

addSourceSymbol(bS, sid) == [bS EXCEPT !.sources = @ \cup {sid}]

addRepairSymbol(bS, parity) == [bS EXCEPT !.repairs = @ \cup {parity}]

\* What AddSourceSymbolFrame leaves in blockStatuses for the block of sid.
AddSourceSymbolFrame(bS, sid) ==
    LET added == addSourceSymbol(bS, sid)
    IN  IF bS.isProcessed THEN bS
        ELSE IF isComplete(added) THEN processedBlock ELSE added

\* Mutant: the parity is computed when the block is started.
AddedRepairFramesEarly(bS, sid) ==
    IF bS.sources = {} THEN repairSymbols(sidToBlockID(sid)) ELSE <<>>

\* The repair frames it returns.
AddedRepairFrames(bS, sid) ==
    IF ~bS.isProcessed /\ isComplete(addSourceSymbol(bS, sid))
    THEN repairSymbols(sidToBlockID(sid))
    ELSE <<>>

\* What NextSSID leaves in nextSID after handing out sid.
NextSSID(sid) == sid + 1

(* One packet: composeNextPacket takes the repair frame at the head of the *)
(* queue if it fits; appendPacketPayload wraps the FEC-protected frames,   *)
(* if there are any, in a SOURCE_SYMBOL frame with a new SSID and queues   *)
(* the repair frames this completes.                                       *)
PackPacket(fits, hasFECData) ==
    LET takesRepair == repairQueue # <<>> /\ fits
        b == sidToBlockID(nextSID)
    IN  /\ takesRepair \/ hasFECData
        /\ hasFECData => nextSID \in SSIDs
        /\ sent' = Append(sent, [src |-> IF hasFECData THEN nextSID ELSE NoSource,
                                 rep |-> IF takesRepair THEN Head(repairQueue) ELSE NoRepair])
        /\ nextSID' = IF hasFECData THEN NextSSID(nextSID) ELSE nextSID
        /\ sndBlocks' = IF hasFECData
                        THEN [sndBlocks EXCEPT ![b] = AddSourceSymbolFrame(@, nextSID)]
                        ELSE sndBlocks
        /\ repairQueue' = (IF takesRepair THEN Tail(repairQueue) ELSE repairQueue)
                          \o (IF hasFECData THEN AddedRepairFrames(sndBlocks[b], nextSID)
                                            ELSE <<>>)
        /\ UNCHANGED <<lost, received, rcv>>

-----------------------------------------------------------------------------
(* Network.                                                                *)

SymbolsOfBlock(b) ==
    {pn \in DOMAIN sent : sent[pn].src \in SourcesOf(b) \/ sent[pn].rep.block = b}

Lose(pn) ==
    /\ pn \in DOMAIN sent \ (lost \cup received)
    /\ \A b \in Blocks : pn \in SymbolsOfBlock(b) =>
           Cardinality(lost \cap SymbolsOfBlock(b)) < MaxLosses
    /\ lost' = lost \cup {pn}
    /\ UNCHANGED <<nextSID, sndBlocks, repairQueue, sent, received, rcv>>

(* A packet that was not lost can arrive any number of times; the received *)
(* packet history drops every arrival after the first.                     *)
Deliverable(pn) ==
    /\ pn \in DOMAIN sent \ lost
    /\ Reordering \/ \A q \in 1 .. (pn - 1) : q \in lost \cup received

IsPotentiallyDuplicate(pn) == pn \in received

-----------------------------------------------------------------------------
(* Receiver.                                                               *)

Update(st, b, bS, symbols) ==
    [blocks   |-> [st.blocks EXCEPT ![b] = bS],
     passedUp |-> [s \in SSIDs |-> IF s \in symbols THEN st.passedUp[s] + 1
                                                    ELSE st.passedUp[s]]]

\* Mutant: a payload that arrives after the recovery of its block is not dropped.
HandleSourceSymbolFrameLate(st, sid) ==
    LET b == sidToBlockID(sid)
        added == addSourceSymbol(st.blocks[b], sid)
    IN  Update(st, b, IF isComplete(added) THEN processedBlock ELSE added, {sid})

HandleSourceSymbolFrame(st, sid) ==
    LET b == sidToBlockID(sid)
        added == addSourceSymbol(st.blocks[b], sid)
    IN  IF st.blocks[b].isProcessed THEN st
        ELSE Update(st, b, IF isComplete(added) THEN processedBlock ELSE added, {sid})

\* Mutant: recovery returns the whole block, not only the missing payloads.
HandleRepairFrameWholeBlock(st, f) ==
    LET bS == st.blocks[f.block]
        added == addRepairSymbol(bS, f.parity)
    IN  IF bS.isProcessed THEN st
        ELSE IF isRecoverable(added)
             THEN Update(st, f.block, processedBlock, SourcesOf(f.block))
             ELSE Update(st, f.block, added, {})

\* Mutant: a repair frame is dropped while no source symbol of its block is known.
HandleRepairFrameNeedsSource(st, f) ==
    LET bS == st.blocks[f.block]
        added == addRepairSymbol(bS, f.parity)
    IN  IF bS.isProcessed \/ bS.sources = {} THEN st
        ELSE IF isRecoverable(added)
             THEN Update(st, f.block, processedBlock, SourcesOf(f.block) \ bS.sources)
             ELSE Update(st, f.block, added, {})

HandleRepairFrame(st, f) ==
    LET bS == st.blocks[f.block]
        added == addRepairSymbol(bS, f.parity)
    IN  IF bS.isProcessed THEN st
        ELSE IF isRecoverable(added)
             THEN Update(st, f.block, processedBlock, SourcesOf(f.block) \ bS.sources)
             ELSE Update(st, f.block, added, {})

\* The frames of a packet in wire order: control frames, then SOURCE_SYMBOL.
handleFrames(st, p) ==
    LET afterRepair == IF p.rep = NoRepair THEN st ELSE HandleRepairFrame(st, p.rep)
    IN  IF p.src = NoSource THEN afterRepair
        ELSE HandleSourceSymbolFrame(afterRepair, p.src)

Deliver(pn) ==
    /\ Deliverable(pn)
    /\ ~IsPotentiallyDuplicate(pn)
    /\ received' = received \cup {pn}
    /\ rcv' = handleFrames(rcv, sent[pn])
    /\ UNCHANGED <<nextSID, sndBlocks, repairQueue, sent, lost>>

-----------------------------------------------------------------------------
Init ==
    /\ nextSID = 0
    /\ sndBlocks = [b \in Blocks |-> newBlock]
    /\ repairQueue = <<>>
    /\ sent = <<>>
    /\ lost = {}
    /\ received = {}
    /\ rcv = [blocks |-> [b \in Blocks |-> newBlock],
              passedUp |-> [s \in SSIDs |-> 0]]

Next ==
    \/ \E fits, hasFECData \in BOOLEAN : PackPacket(fits, hasFECData)
    \/ \E pn \in DOMAIN sent : Lose(pn)
    \/ \E pn \in DOMAIN sent : Deliver(pn)

Spec == Init /\ [][Next]_vars

(* The send loop is woken by hasData whenever a repair frame is queued and *)
(* a packet without an ACK has room for it; a packet that is not lost      *)
(* arrives.                                                                *)
Fairness ==
    /\ WF_vars(PackPacket(TRUE, FALSE))
    /\ \A pn \in 1 .. (MaxBlocks * (NumSource + NumRepair)) :
           WF_vars(pn \in DOMAIN sent /\ Deliver(pn))

FairSpec == Spec /\ Fairness

-----------------------------------------------------------------------------
BlockStatus == [sources : SUBSET SSIDs, repairs : SUBSET Parities, isProcessed : BOOLEAN]

\* The type of every variable of the two managers and the network.
TypeOK ==
    /\ nextSID \in 0 .. (MaxBlocks * NumSource)
    /\ sndBlocks \in [Blocks -> BlockStatus]
    /\ repairQueue \in Seq(RepairFrames)
    /\ sent \in Seq(Packets)
    /\ lost \subseteq DOMAIN sent
    /\ received \subseteq DOMAIN sent
    /\ rcv \in [blocks : [Blocks -> BlockStatus], passedUp : [SSIDs -> Nat]]

\* manager.go: a payload reaches the frame handlers at most once, whichever of
\* its own SOURCE_SYMBOL frame and the recovery of its block comes first.
PassedUpAtMostOnce == \A s \in SSIDs : rcv.passedUp[s] <= 1

\* blockStatus.isProcessed "represents whether all the source symbols within
\* the block have been passed up to the application": once a block is dropped
\* none of its payloads is missing.
ProcessedMeansPassedUp ==
    \A b \in Blocks : rcv.blocks[b].isProcessed =>
        \A s \in SourcesOf(b) : rcv.passedUp[s] > 0

\* Recovery never makes up a payload: only source symbols the sender gave out
\* are passed up.
PassedUpWasSent == \A s \in SSIDs : rcv.passedUp[s] > 0 => s < nextSID

\* HandleRepairFrame: "the block is still not recoverable, so we wait".  No
\* block the receiver keeps waiting on holds enough symbols to be recovered.
WaitingIsNotRecoverable ==
    \A b \in Blocks : ~rcv.blocks[b].isProcessed => ~isRecoverable(rcv.blocks[b])

\* What the code is for: while at most NumRepair symbols of a block are lost,
\* every payload of a block the sender completed is eventually passed up, with
\* no retransmission.
LossesAreRepaired ==
    []<>(\A b \in Blocks :
           sndBlocks[b].isProcessed => \A s \in SourcesOf(b) : rcv.passedUp[s] = 1)

\* The inductive invariant behind the safety properties, as named parts.
\* Symbols the sender holds for a block have been given out, and a block it has
\* finished with was given out completely.
SenderBlocksInv ==
    \A b \in Blocks :
        /\ sndBlocks[b].sources \subseteq SourcesOf(b)
        /\ \A s \in SourcesOf(b) :
               s \in sndBlocks[b].sources \/ sndBlocks[b].isProcessed => s < nextSID

\* A repair frame exists only for a block the sender has finished with.
RepairInv ==
    /\ \A i \in DOMAIN repairQueue : sndBlocks[repairQueue[i].block].isProcessed
    /\ \A pn \in DOMAIN sent :
           sent[pn].rep # NoRepair => sndBlocks[sent[pn].rep.block].isProcessed

\* Every source symbol travels in at most one packet.
SourceInv ==
    \A pn \in DOMAIN sent :
        /\ sent[pn].src < nextSID
        /\ \A qn \in DOMAIN sent : sent[pn].src = sent[qn].src /\ pn # qn => sent[pn].src = NoSource

\* The symbols the receiver holds are among those that arrived, and a payload
\* has been passed up once exactly when it is held or its block is processed.
ReceiverOK(st, arrived) ==
    \A b \in Blocks :
        /\ st.blocks[b].sources \subseteq SourcesOf(b) \cap arrived
        /\ \A s \in SourcesOf(b) :
               st.passedUp[s] = IF st.blocks[b].isProcessed \/ s \in st.blocks[b].sources
                                THEN 1 ELSE 0

ReceiverInv == ReceiverOK(rcv, {sent[pn].src : pn \in received})

IInv == TypeOK /\ SenderBlocksInv /\ RepairInv /\ SourceInv /\ ReceiverInv /\ PassedUpWasSent

\* The two managers, the queue and the network implement FECDelivery, with what they
\* count as the payloads handed up.
Abstract == INSTANCE FECDelivery WITH
    Payloads <- SSIDs,
    protected <- nextSID,
    arrived <- {sent[pn].src : pn \in received} \ {NoSource},
    handedUp <- rcv.passedUp

\* manager.go: every step of the endpoints and the network is a step FECDelivery allows
\* (or none).  A payload is handed up only after it was protected, never a second time, and
\* at the latest when its own SOURCE_SYMBOL frame is handled; a block that is dropped as
\* processed has therefore handed up all that may still arrive.
ImplementsDelivery == Abstract!Spec
=============================================================================
