-------------------------- MODULE FECManagerProofs --------------------------
(***************************************************************************)
(* Safety of the erasure code for every block size, number of repair       *)
(* symbols, number of blocks and loss pattern, with or without reordering. *)
(***************************************************************************)
EXTENDS FECManager, FiniteSetTheorems, SequenceTheorems, TLAPS

-----------------------------------------------------------------------------
(* Arithmetic of source symbol IDs and blocks.                             *)

\* Multiplication by a natural number is monotone.
LEMMA MulMono ==
    ASSUME NEW a \in Int, NEW b \in Int, NEW n \in Nat, a <= b
    PROVE  a * n <= b * n
  OBVIOUS

\* newBlock: the SSID range of a block lies within the SSIDs in use.
LEMMA SourcesInRange ==
    ASSUME NEW b \in Blocks
    PROVE  SourcesOf(b) \subseteq SSIDs
<1>1. (b + 1) * NumSource <= MaxBlocks * NumSource
  BY MulMono, BoundsAssumption, NumSourceAssumption DEF Blocks
<1>2. b * NumSource + NumSource = (b + 1) * NumSource /\ b * NumSource \in Nat
  BY BoundsAssumption, NumSourceAssumption DEF Blocks
<1> QED
  BY <1>1, <1>2, BoundsAssumption, NumSourceAssumption DEF Blocks, SSIDs, SourcesOf

\* sidToBlockID: a source symbol is never given to the wrong block, so the
\* error return of addSourceSymbol is unreachable.
LEMMA SidInItsBlock ==
    ASSUME NEW s \in SSIDs
    PROVE  sidToBlockID(s) \in Blocks /\ s \in SourcesOf(sidToBlockID(s))
<1> DEFINE q == s \div NumSource
<1>1. s \in Nat /\ s < MaxBlocks * NumSource
  BY BoundsAssumption, NumSourceAssumption DEF SSIDs
<1>2. q \in Nat /\ q * NumSource <= s /\ s < q * NumSource + NumSource
  BY <1>1, NumSourceAssumption
<1>3. q < MaxBlocks
  <2>1. CASE MaxBlocks <= q
    <3>1. MaxBlocks * NumSource <= q * NumSource
      BY <2>1, <1>2, MulMono, BoundsAssumption, NumSourceAssumption
    <3> QED BY <3>1, <1>1, <1>2, BoundsAssumption, NumSourceAssumption
  <2> QED BY <2>1, <1>2, BoundsAssumption
<1> QED
  BY <1>1, <1>2, <1>3, BoundsAssumption, NumSourceAssumption
  DEF sidToBlockID, SourcesOf, Blocks

\* The SSID ranges of two blocks are disjoint.
LEMMA BlocksDisjoint ==
    ASSUME NEW b \in Blocks, NEW c \in Blocks, b # c
    PROVE  SourcesOf(b) \cap SourcesOf(c) = {}
<1>1. b \in Int /\ c \in Int /\ NumSource \in Nat
  BY NumSourceAssumption DEF Blocks
<1>2. CASE b < c
  <2>1. (b + 1) * NumSource <= c * NumSource BY <1>1, <1>2, MulMono
  <2>2. (b + 1) * NumSource = b * NumSource + NumSource BY <1>1
  <2> QED BY <2>1, <2>2, <1>1 DEF SourcesOf
<1>3. CASE c < b
  <2>1. (c + 1) * NumSource <= b * NumSource BY <1>1, <1>3, MulMono
  <2>2. (c + 1) * NumSource = c * NumSource + NumSource BY <1>1
  <2> QED BY <2>1, <2>2, <1>1 DEF SourcesOf
<1> QED BY <1>1, <1>2, <1>3

\* isComplete counts: a block with NumSource symbols of its range has them all.
LEMMA CompleteMeansAll ==
    ASSUME NEW b \in Blocks, NEW bS \in BlockStatus,
           bS.sources \subseteq SourcesOf(b), isComplete(bS)
    PROVE  bS.sources = SourcesOf(b)
<1>1. IsFiniteSet(SourcesOf(b)) /\ Cardinality(SourcesOf(b)) = NumSource
  <2>1. b * NumSource \in Int /\ b * NumSource + NumSource - 1 \in Int
    BY NumSourceAssumption DEF Blocks
  <2>2. ~(b * NumSource > b * NumSource + NumSource - 1)
    BY <2>1, NumSourceAssumption
  <2>3. (b * NumSource + NumSource - 1) - b * NumSource + 1 = NumSource
    BY <2>1, NumSourceAssumption
  <2> QED BY <2>1, <2>2, <2>3, FS_Interval DEF SourcesOf
<1> QED BY <1>1, FS_Subset DEF isComplete

-----------------------------------------------------------------------------
(* The handlers of the receiver.                                           *)

RcvStates == [blocks : [Blocks -> BlockStatus], passedUp : [SSIDs -> Nat]]

\* HandleSourceSymbolFrame keeps the receiver's bookkeeping when the symbol
\* has not arrived before.
LEMMA SourceFrameOK ==
    ASSUME NEW st \in RcvStates, NEW arrived, NEW s \in SSIDs,
           ReceiverOK(st, arrived), s \notin arrived
    PROVE  /\ HandleSourceSymbolFrame(st, s) \in RcvStates
           /\ ReceiverOK(HandleSourceSymbolFrame(st, s), arrived \cup {s})
<1> DEFINE b == sidToBlockID(s)
           bS == st.blocks[b]
           added == addSourceSymbol(bS, s)
<1>1. b \in Blocks /\ s \in SourcesOf(b)
  BY SidInItsBlock
<1>2. bS \in BlockStatus /\ bS.sources \subseteq SourcesOf(b) \cap arrived
  BY <1>1 DEF RcvStates, ReceiverOK
<1>3. added \in BlockStatus /\ added.sources = bS.sources \cup {s}
      /\ added.isProcessed = bS.isProcessed
  BY <1>2 DEF addSourceSymbol, BlockStatus
<1>4. processedBlock \in BlockStatus /\ processedBlock.sources = {} /\ processedBlock.isProcessed
  BY DEF processedBlock, BlockStatus
<1>5. CASE bS.isProcessed
  BY <1>5 DEF HandleSourceSymbolFrame, ReceiverOK
<1>6. CASE ~bS.isProcessed
  <2> DEFINE new == IF isComplete(added) THEN processedBlock ELSE added
             st2 == Update(st, b, new, {s})
  <2>1. HandleSourceSymbolFrame(st, s) = st2
    BY <1>6 DEF HandleSourceSymbolFrame
  <2>2. new \in BlockStatus
    BY <1>3, <1>4
  <2>3. st2 \in RcvStates
    BY <1>1, <2>2 DEF Update, RcvStates
  <2>4. isComplete(added) => added.sources = SourcesOf(b)
    BY <1>1, <1>2, <1>3, CompleteMeansAll
  <2>5. ASSUME NEW c \in Blocks
        PROVE  /\ st2.blocks[c].sources \subseteq SourcesOf(c) \cap (arrived \cup {s})
               /\ \A t \in SourcesOf(c) :
                    st2.passedUp[t] = IF st2.blocks[c].isProcessed \/ t \in st2.blocks[c].sources
                                      THEN 1 ELSE 0
    <3>1. SourcesOf(c) \subseteq SSIDs
      BY SourcesInRange
    <3>2. CASE c = b
      <4>1. st2.blocks[c] = new
        BY <3>2, <1>1 DEF Update, RcvStates
      <4>2. \A t \in SourcesOf(b) : st2.passedUp[t] = IF t = s THEN st.passedUp[t] + 1 ELSE st.passedUp[t]
        BY <3>1, <3>2 DEF Update
      <4>3. \A t \in SourcesOf(b) : st.passedUp[t] = IF t \in bS.sources THEN 1 ELSE 0
        BY <1>1, <1>6 DEF ReceiverOK
      <4>4. s \notin bS.sources
        BY <1>2
      <4>5. \A t \in SourcesOf(b) : st2.passedUp[t] = IF t \in added.sources THEN 1 ELSE 0
        BY <4>2, <4>3, <4>4, <1>3
      <4>6. CASE isComplete(added)
        BY <4>1, <4>5, <4>6, <2>4, <1>4, <3>2
      <4>7. CASE ~isComplete(added)
        BY <4>1, <4>5, <4>7, <1>1, <1>2, <1>3, <1>6, <3>2
      <4> QED BY <4>6, <4>7
    <3>3. CASE c # b
      <4>1. st2.blocks[c] = st.blocks[c]
        BY <3>3, <1>1 DEF Update, RcvStates
      <4>2. s \notin SourcesOf(c)
        BY <3>3, <1>1, BlocksDisjoint
      <4>3. \A t \in SourcesOf(c) : st2.passedUp[t] = st.passedUp[t]
        BY <4>2, <3>1 DEF Update
      <4> QED BY <4>1, <4>3 DEF ReceiverOK
    <3> QED BY <3>2, <3>3
  <2> QED BY <2>1, <2>3, <2>5, ZenonT(60) DEF ReceiverOK
<1> QED BY <1>5, <1>6

\* HandleRepairFrame keeps the receiver's bookkeeping.
LEMMA RepairFrameOK ==
    ASSUME NEW st \in RcvStates, NEW arrived, NEW f \in RepairFrames,
           ReceiverOK(st, arrived)
    PROVE  /\ HandleRepairFrame(st, f) \in RcvStates
           /\ ReceiverOK(HandleRepairFrame(st, f), arrived)
           /\ \A s \in SSIDs : HandleRepairFrame(st, f).passedUp[s] > 0 =>
                  st.passedUp[s] > 0 \/ s \in SourcesOf(f.block)
<1> DEFINE b == f.block
           bS == st.blocks[b]
           added == addRepairSymbol(bS, f.parity)
           missing == SourcesOf(b) \ bS.sources
<1>1. b \in Blocks /\ f.parity \in Parities
  BY DEF RepairFrames
<1>2. bS \in BlockStatus /\ bS.sources \subseteq SourcesOf(b) \cap arrived
  BY <1>1 DEF RcvStates, ReceiverOK
<1>3. added \in BlockStatus /\ added.sources = bS.sources /\ added.isProcessed = bS.isProcessed
  BY <1>1, <1>2 DEF BlockStatus, addRepairSymbol
<1>4. processedBlock \in BlockStatus /\ processedBlock.sources = {} /\ processedBlock.isProcessed
  BY DEF processedBlock, BlockStatus
<1>5. CASE bS.isProcessed
  BY <1>5, SMTT(60) DEF HandleRepairFrame
<1>6. CASE ~bS.isProcessed
  <2> DEFINE new == IF isRecoverable(added) THEN processedBlock ELSE added
             up == IF isRecoverable(added) THEN missing ELSE {}
             st2 == Update(st, b, new, up)
  <2>1. HandleRepairFrame(st, f) = st2
    BY <1>6 DEF HandleRepairFrame
  <2>2. st2 \in RcvStates
    BY <1>1, <1>3, <1>4 DEF Update, RcvStates
  <2>3. \A t \in SSIDs : st2.passedUp[t] = IF t \in up THEN st.passedUp[t] + 1 ELSE st.passedUp[t]
    BY SMTT(60) DEF Update
  <2>4. ASSUME NEW c \in Blocks
        PROVE  /\ st2.blocks[c].sources \subseteq SourcesOf(c) \cap arrived
               /\ \A t \in SourcesOf(c) :
                    st2.passedUp[t] = IF st2.blocks[c].isProcessed \/ t \in st2.blocks[c].sources
                                      THEN 1 ELSE 0
    <3>1. SourcesOf(c) \subseteq SSIDs
      BY SMTT(60), SourcesInRange
    <3>2. CASE c = b
      <4>1. st2.blocks[c] = new
        BY <3>2, <1>1 DEF Update, RcvStates
      <4>2. \A t \in SourcesOf(b) : st.passedUp[t] = IF t \in bS.sources THEN 1 ELSE 0
        BY <1>1, <1>6 DEF ReceiverOK
      <4>3. CASE isRecoverable(added)
        <5>1. \A t \in SourcesOf(b) : st2.passedUp[t] = 1
          BY SMTT(60), <2>3, <3>1, <3>2, <4>2, <4>3
        <5> QED BY <5>1, <4>1, <4>3, <1>4, <3>2
      <4>4. CASE ~isRecoverable(added)
        <5>1. \A t \in SourcesOf(b) : st2.passedUp[t] = st.passedUp[t]
          BY SMTT(60), <2>3, <3>1, <3>2, <4>4
        <5> QED BY <5>1, <4>1, <4>2, <4>4, <1>2, <1>3, <1>6, <3>2
      <4> QED BY <4>3, <4>4
    <3>3. CASE c # b
      <4>1. st2.blocks[c] = st.blocks[c]
        BY <3>3, <1>1 DEF Update, RcvStates
      <4>2. \A t \in SourcesOf(c) : st2.passedUp[t] = st.passedUp[t]
        BY <2>3, <3>1, <3>3, <1>1, BlocksDisjoint
      <4> QED BY <4>1, <4>2 DEF ReceiverOK
    <3> QED BY <3>2, <3>3
  <2>5. ReceiverOK(st2, arrived)
    BY <2>4 DEF ReceiverOK
  <2> QED BY <2>1, <2>2, <2>3, <2>5
<1> QED BY <1>5, <1>6

\* A symbol handed up by HandleSourceSymbolFrame is the one in the frame.
LEMMA SourceFrameHandsUpItsOwn ==
    ASSUME NEW st \in RcvStates, NEW s \in SSIDs, NEW t \in SSIDs,
           HandleSourceSymbolFrame(st, s).passedUp[t] > 0
    PROVE  st.passedUp[t] > 0 \/ t = s
  BY DEF HandleSourceSymbolFrame, Update, RcvStates

\* After HandleSourceSymbolFrame the payload of the frame has been handed up, by this
\* frame or before.
LEMMA OwnPayloadIsHandedUp ==
    ASSUME NEW st \in RcvStates, NEW arrived, NEW s \in SSIDs, ReceiverOK(st, arrived)
    PROVE  HandleSourceSymbolFrame(st, s).passedUp[s] > 0
<1> DEFINE b == sidToBlockID(s)
<1>1. b \in Blocks /\ s \in SourcesOf(b)
  BY SidInItsBlock
<1>2. st.passedUp[s] \in Nat /\ (st.blocks[b].isProcessed => st.passedUp[s] = 1)
  BY <1>1 DEF RcvStates, ReceiverOK
<1> QED BY <1>2 DEF HandleSourceSymbolFrame, Update

-----------------------------------------------------------------------------
(* The steps of the sender, the network and the receiver.                  *)

\* AddSourceSymbolFrame keeps a block's symbols within its range, and finishes
\* a block only when all of its symbols are held.
LEMMA AddSourceOK ==
    ASSUME NEW b \in Blocks, NEW bS \in BlockStatus, NEW s \in SourcesOf(b),
           bS.sources \subseteq SourcesOf(b)
    PROVE  LET new == AddSourceSymbolFrame(bS, s)
           IN  /\ new \in BlockStatus
               /\ new.sources \subseteq bS.sources \cup {s}
               /\ bS.isProcessed => new.isProcessed
               /\ new.isProcessed => bS.isProcessed \/ SourcesOf(b) \subseteq bS.sources \cup {s}
               /\ AddedRepairFrames(bS, s) # <<>> => new.isProcessed
<1> DEFINE added == addSourceSymbol(bS, s)
<1>1. s \in SSIDs
  BY SourcesInRange
<1>2. added \in BlockStatus /\ added.sources = bS.sources \cup {s}
      /\ added.isProcessed = bS.isProcessed
  BY <1>1 DEF addSourceSymbol, BlockStatus
<1>3. processedBlock \in BlockStatus /\ processedBlock.sources = {} /\ processedBlock.isProcessed
  BY DEF processedBlock, BlockStatus
<1>4. isComplete(added) => added.sources = SourcesOf(b)
  BY <1>2, CompleteMeansAll
<1> HIDE DEF added
<1>5. AddSourceSymbolFrame(bS, s) = IF bS.isProcessed THEN bS
                                    ELSE IF isComplete(added) THEN processedBlock ELSE added
  BY DEF AddSourceSymbolFrame, added
<1>6. AddedRepairFrames(bS, s) # <<>> => ~bS.isProcessed /\ isComplete(added)
  BY DEF AddedRepairFrames, added
<1> QED BY <1>2, <1>3, <1>4, <1>5, <1>6

\* The repair frames returned are frames of the block.
LEMMA RepairSymbolsOK ==
    ASSUME NEW s \in SSIDs, NEW bS \in BlockStatus
    PROVE  LET new == AddedRepairFrames(bS, s)
           IN  /\ new \in Seq(RepairFrames)
               /\ \A i \in DOMAIN new : new[i].block = sidToBlockID(s)
<1> DEFINE b == sidToBlockID(s)
<1>1. b \in Blocks
  BY SidInItsBlock
<1> HIDE DEF b
<1>2. \A i \in 1 .. NumRepair : [block |-> b, parity |-> i - 1] \in RepairFrames
  BY <1>1, NumRepairAssumption DEF RepairFrames, Parities
<1>3. repairSymbols(b) \in [1 .. NumRepair -> RepairFrames]
  BY <1>2 DEF repairSymbols
<1>4. repairSymbols(b) \in Seq(RepairFrames) /\ \A i \in DOMAIN repairSymbols(b) : repairSymbols(b)[i].block = b
  BY <1>3, NumRepairAssumption, SeqDef DEF repairSymbols
<1>5. AddedRepairFrames(bS, s) = repairSymbols(b) \/ AddedRepairFrames(bS, s) = <<>>
  BY DEF AddedRepairFrames, b
<1>6. CASE AddedRepairFrames(bS, s) = <<>>
  BY <1>6
<1>7. CASE AddedRepairFrames(bS, s) = repairSymbols(b)
  BY <1>4, <1>7 DEF b
<1> QED BY <1>5, <1>6, <1>7

\* Packing a packet keeps every part of the invariant.
LEMMA PackPreserves ==
    ASSUME IInv, NEW fits \in BOOLEAN, NEW hasFECData \in BOOLEAN,
           PackPacket(fits, hasFECData)
    PROVE  IInv'
<1> DEFINE takesRepair == repairQueue # <<>> /\ fits
           b == sidToBlockID(nextSID)
           p == [src |-> IF hasFECData THEN nextSID ELSE NoSource,
                 rep |-> IF takesRepair THEN Head(repairQueue) ELSE NoRepair]
           old == IF takesRepair THEN Tail(repairQueue) ELSE repairQueue
           new == IF hasFECData THEN AddedRepairFrames(sndBlocks[b], nextSID) ELSE <<>>
<1>1. TypeOK /\ SenderBlocksInv /\ RepairInv /\ SourceInv /\ ReceiverInv /\ PassedUpWasSent
  BY DEF IInv
<1>2. /\ hasFECData => nextSID \in SSIDs
      /\ sent' = Append(sent, p)
      /\ nextSID' = IF hasFECData THEN nextSID + 1 ELSE nextSID
      /\ sndBlocks' = IF hasFECData
                      THEN [sndBlocks EXCEPT ![b] = AddSourceSymbolFrame(sndBlocks[b], nextSID)]
                      ELSE sndBlocks
      /\ repairQueue' = old \o new
      /\ UNCHANGED <<lost, received, rcv>>
  BY DEF PackPacket, NextSSID
<1>3. nextSID' \in 0 .. (MaxBlocks * NumSource) /\ nextSID <= nextSID'
  BY <1>1, <1>2, BoundsAssumption, NumSourceAssumption DEF TypeOK, SSIDs
<1>4. takesRepair => Head(repairQueue) = repairQueue[1] /\ 1 \in DOMAIN repairQueue
                     /\ Head(repairQueue) \in RepairFrames
  BY <1>1 DEF TypeOK
<1>5. p \in Packets
  BY <1>2, <1>4 DEF Packets
<1>6. /\ sent \in Seq(Packets) /\ sent' \in Seq(Packets)
      /\ DOMAIN sent = 1 .. Len(sent) /\ Len(sent) \in Nat
      /\ DOMAIN sent' = 1 .. (Len(sent) + 1)
      /\ \A i \in DOMAIN sent : sent'[i] = sent[i]
      /\ sent'[Len(sent) + 1] = p
  BY <1>1, <1>2, <1>5 DEF TypeOK
<1>7. hasFECData => b \in Blocks /\ nextSID \in SourcesOf(b)
  BY <1>2, SidInItsBlock
<1>8. hasFECData =>
        LET nb == AddSourceSymbolFrame(sndBlocks[b], nextSID)
        IN  /\ nb \in BlockStatus
            /\ nb.sources \subseteq sndBlocks[b].sources \cup {nextSID}
            /\ sndBlocks[b].isProcessed => nb.isProcessed
            /\ nb.isProcessed => sndBlocks[b].isProcessed
                                 \/ SourcesOf(b) \subseteq sndBlocks[b].sources \cup {nextSID}
            /\ AddedRepairFrames(sndBlocks[b], nextSID) # <<>> => nb.isProcessed
  BY <1>1, <1>7, AddSourceOK DEF TypeOK, SenderBlocksInv
<1>9. new \in Seq(RepairFrames) /\ \A i \in DOMAIN new : hasFECData /\ new[i].block = b
  <2>1. CASE hasFECData
    BY <2>1, <1>1, <1>2, <1>7, RepairSymbolsOK DEF TypeOK
  <2>2. CASE ~hasFECData
    BY <2>2
  <2> QED BY <2>1, <2>2
<1>10. old \in Seq(RepairFrames) /\ \A i \in DOMAIN old : \E j \in DOMAIN repairQueue : old[i] = repairQueue[j]
  <2>1. CASE takesRepair
    <3>1. /\ Tail(repairQueue) \in Seq(RepairFrames)
          /\ \A i \in DOMAIN Tail(repairQueue) :
                i + 1 \in DOMAIN repairQueue /\ Tail(repairQueue)[i] = repairQueue[i + 1]
      BY <1>1, <2>1 DEF TypeOK
    <3> QED BY <2>1, <3>1
  <2>2. CASE ~takesRepair
    BY <1>1, <2>2 DEF TypeOK
  <2> QED BY <2>1, <2>2
<1> HIDE DEF p, old, new, takesRepair
<1>11. sndBlocks' \in [Blocks -> BlockStatus]
       /\ \A c \in Blocks : sndBlocks[c].isProcessed => sndBlocks'[c].isProcessed
  BY <1>1, <1>2, <1>7, <1>8 DEF TypeOK
<1>12. TypeOK'
  <2>1. repairQueue' \in Seq(RepairFrames)
    BY <1>2, <1>9, <1>10
  <2>2. lost' \subseteq DOMAIN sent' /\ received' \subseteq DOMAIN sent'
    BY <1>1, <1>2, <1>6 DEF TypeOK
  <2> QED BY <1>1, <1>2, <1>3, <1>6, <1>11, <2>1, <2>2 DEF TypeOK
<1>13. SenderBlocksInv'
  <2> SUFFICES ASSUME NEW c \in Blocks
               PROVE  /\ sndBlocks'[c].sources \subseteq SourcesOf(c)
                      /\ \A s \in SourcesOf(c) :
                            s \in sndBlocks'[c].sources \/ sndBlocks'[c].isProcessed => s < nextSID'
    BY DEF SenderBlocksInv
  <2>1. /\ sndBlocks[c].sources \subseteq SourcesOf(c)
        /\ \A s \in SourcesOf(c) :
              s \in sndBlocks[c].sources \/ sndBlocks[c].isProcessed => s < nextSID
    BY <1>1 DEF SenderBlocksInv
  <2>2. \A s \in SourcesOf(c) : s \in SSIDs /\ s \in Int
    BY SourcesInRange DEF SSIDs
  <2>3. nextSID \in Int
    BY <1>1 DEF TypeOK
  <2>4. CASE hasFECData /\ c = b
    <3>1. sndBlocks'[c] = AddSourceSymbolFrame(sndBlocks[b], nextSID)
      BY <1>1, <1>2, <1>7, <2>4 DEF TypeOK
    <3>2. nextSID' = nextSID + 1
      BY <1>2, <2>4
    <3> QED BY <1>7, <1>8, <2>1, <2>2, <2>3, <2>4, <3>1, <3>2
  <2>5. CASE ~(hasFECData /\ c = b)
    <3>1. sndBlocks'[c] = sndBlocks[c]
      BY <1>1, <1>2, <1>7, <2>5 DEF TypeOK
    <3> QED BY <1>3, <2>1, <2>2, <2>3, <3>1
  <2> QED BY <2>4, <2>5
<1>14. RepairInv'
  <2>1. \A i \in DOMAIN repairQueue' :
          (\E j \in DOMAIN old : repairQueue'[i] = old[j]) \/ (\E j \in DOMAIN new : repairQueue'[i] = new[j])
    <3>1. Len(old) \in Nat /\ Len(new) \in Nat
          /\ DOMAIN old = 1 .. Len(old) /\ DOMAIN new = 1 .. Len(new)
      BY <1>9, <1>10
    <3>2. /\ Len(old \o new) = Len(old) + Len(new)
          /\ DOMAIN (old \o new) = 1 .. (Len(old) + Len(new))
          /\ \A i \in 1 .. (Len(old) + Len(new)) :
                (old \o new)[i] = IF i <= Len(old) THEN old[i] ELSE new[i - Len(old)]
      BY <1>9, <1>10, <3>1
    <3>3. ASSUME NEW i \in 1 .. (Len(old) + Len(new))
          PROVE  (\E j \in DOMAIN old : (old \o new)[i] = old[j])
                 \/ (\E j \in DOMAIN new : (old \o new)[i] = new[j])
      <4>1. CASE i <= Len(old)
        <5>1. i \in DOMAIN old /\ (old \o new)[i] = old[i] BY <4>1, <3>1, <3>2
        <5> QED BY <5>1
      <4>2. CASE ~(i <= Len(old))
        <5>1. i - Len(old) \in DOMAIN new /\ (old \o new)[i] = new[i - Len(old)] BY <4>2, <3>1, <3>2
        <5> QED BY <5>1
      <4> QED BY <4>1, <4>2
    <3> QED BY <1>2, <3>2, <3>3
  <2>2. \A j \in DOMAIN old : old[j].block \in Blocks /\ sndBlocks[old[j].block].isProcessed
    <3>1. \A j \in DOMAIN old : old[j] \in RepairFrames
      BY <1>10
    <3> QED BY <3>1, <1>1, <1>10 DEF RepairInv, RepairFrames
  <2>3. ASSUME NEW j \in DOMAIN new
        PROVE  sndBlocks'[new[j].block].isProcessed
    <3>1. hasFECData /\ new[j].block = b /\ new # <<>>
      BY <1>9
    <3>2. AddedRepairFrames(sndBlocks[b], nextSID) # <<>>
      BY <3>1 DEF new
    <3> QED BY <3>1, <3>2, <1>1, <1>2, <1>7, <1>8 DEF TypeOK
  <2>4. \A i \in DOMAIN repairQueue' : sndBlocks'[repairQueue'[i].block].isProcessed
    BY <2>1, <2>2, <2>3, <1>11
  <2>5. ASSUME NEW pn \in DOMAIN sent', sent'[pn].rep # NoRepair
        PROVE  sndBlocks'[sent'[pn].rep.block].isProcessed
    <3>1. CASE pn \in DOMAIN sent
      <4>1. sent'[pn].rep = sent[pn].rep /\ sent[pn] \in Packets
        BY <3>1, <1>6
      <4>2. sent[pn].rep \in RepairFrames
        BY <4>1, <2>5 DEF Packets
      <4> QED BY <4>1, <4>2, <2>5, <3>1, <1>1, <1>11 DEF RepairInv, RepairFrames
    <3>2. CASE pn = Len(sent) + 1
      <4>1. takesRepair /\ sent'[pn].rep = Head(repairQueue)
        BY <3>2, <1>6, <2>5 DEF p
      <4> QED BY <4>1, <1>1, <1>4, <1>11 DEF RepairInv, RepairFrames
    <3> QED BY <3>1, <3>2, <1>6
  <2> QED BY <2>4, <2>5 DEF RepairInv
<1>15. SourceInv'
  <2>1. \A pn \in DOMAIN sent : sent[pn].src \in Int /\ sent[pn].src < nextSID
    <3>1. \A pn \in DOMAIN sent : sent[pn] \in Packets
      BY <1>6
    <3>2. SSIDs \cup {NoSource} \subseteq Int
      BY DEF SSIDs, NoSource
    <3> QED BY <3>1, <3>2, <1>1 DEF SourceInv, Packets
  <2>2. (p.src = nextSID /\ nextSID' = nextSID + 1) \/ (p.src = NoSource /\ nextSID' = nextSID)
    BY <1>2 DEF p
  <2>3. nextSID \in Nat /\ NoSource \in Int /\ NoSource < nextSID
    BY <1>1, BoundsAssumption, NumSourceAssumption DEF TypeOK, NoSource
  <2>4. ASSUME NEW pn \in DOMAIN sent'
        PROVE  sent'[pn].src < nextSID'
    BY <2>1, <2>2, <2>3, <1>6
  <2>5. ASSUME NEW pn \in DOMAIN sent', NEW qn \in DOMAIN sent',
               sent'[pn].src = sent'[qn].src, pn # qn
        PROVE  sent'[pn].src = NoSource
    <3>1. CASE pn \in DOMAIN sent /\ qn \in DOMAIN sent
      BY <3>1, <2>5, <1>1, <1>6 DEF SourceInv
    <3>2. CASE pn = Len(sent) + 1 /\ qn \in DOMAIN sent
      BY <3>2, <2>1, <2>2, <2>3, <2>5, <1>6
    <3>3. CASE pn \in DOMAIN sent /\ qn = Len(sent) + 1
      BY <3>3, <2>1, <2>2, <2>3, <2>5, <1>6
    <3> QED BY <3>1, <3>2, <3>3, <2>5, <1>6
  <2> QED BY <2>4, <2>5 DEF SourceInv
<1>16. ReceiverInv'
  <2>1. {sent'[pn].src : pn \in received'} = {sent[pn].src : pn \in received}
    BY <1>1, <1>2, <1>6 DEF TypeOK
  <2> QED BY <2>1, <1>1, <1>2 DEF ReceiverInv
<1>17. PassedUpWasSent'
  BY <1>1, <1>2, <1>3 DEF PassedUpWasSent, TypeOK, SSIDs
<1> QED BY <1>12, <1>13, <1>14, <1>15, <1>16, <1>17 DEF IInv

\* A larger set of arrived symbols does not disturb the bookkeeping.
LEMMA ReceiverOKMono ==
    ASSUME NEW st, NEW arrived, NEW more, ReceiverOK(st, arrived), arrived \subseteq more
    PROVE  ReceiverOK(st, more)
  BY DEF ReceiverOK

\* Handling a frame never takes back a payload that was handed up.
LEMMA HandedUpStays ==
    ASSUME NEW st \in RcvStates, NEW t \in SSIDs
    PROVE  /\ \A s \in SSIDs : HandleSourceSymbolFrame(st, s).passedUp[t] >= st.passedUp[t]
           /\ \A f \in RepairFrames : HandleRepairFrame(st, f).passedUp[t] >= st.passedUp[t]
<1>1. \A b, bS, up : Update(st, b, bS, up).passedUp[t] \in {st.passedUp[t], st.passedUp[t] + 1}
  BY DEF Update
<1>2. st.passedUp[t] \in Nat
  BY DEF RcvStates
<1>3. ASSUME NEW s \in SSIDs
      PROVE  HandleSourceSymbolFrame(st, s).passedUp[t] >= st.passedUp[t]
  BY <1>1, <1>2 DEF HandleSourceSymbolFrame
<1>4. ASSUME NEW f \in RepairFrames
      PROVE  HandleRepairFrame(st, f).passedUp[t] >= st.passedUp[t]
  BY <1>1, <1>2 DEF HandleRepairFrame
<1> QED BY <1>3, <1>4

\* Delivering a packet keeps every part of the invariant, what was handed up stays
\* handed up, and a payload that arrives for the first time has been handed up after it.
LEMMA DeliverPreserves ==
    ASSUME IInv, NEW pn \in DOMAIN sent, Deliver(pn)
    PROVE  /\ IInv'
           /\ \A t \in SSIDs : rcv'.passedUp[t] >= rcv.passedUp[t]
           /\ sent[pn].src # NoSource =>
                  /\ sent[pn].src \in SSIDs \ {sent[q].src : q \in received}
                  /\ rcv'.passedUp[sent[pn].src] > 0
<1> DEFINE p == sent[pn]
           arrived == {sent[q].src : q \in received}
           mid == IF p.rep = NoRepair THEN rcv ELSE HandleRepairFrame(rcv, p.rep)
<1>1. TypeOK /\ SenderBlocksInv /\ RepairInv /\ SourceInv /\ ReceiverInv /\ PassedUpWasSent
  BY DEF IInv
<1>2. /\ pn \notin received /\ received' = received \cup {pn}
      /\ rcv' = handleFrames(rcv, p)
      /\ UNCHANGED <<nextSID, sndBlocks, repairQueue, sent, lost>>
  BY DEF Deliver, IsPotentiallyDuplicate
<1>3. p \in Packets /\ p.src \in SSIDs \cup {NoSource} /\ p.rep \in RepairFrames \cup {NoRepair}
  <2>1. p \in Packets
    BY <1>1 DEF TypeOK
  <2> QED BY <2>1 DEF Packets
<1>4. rcv \in RcvStates /\ ReceiverOK(rcv, arrived)
  BY <1>1 DEF TypeOK, RcvStates, ReceiverInv
<1>5. {sent'[q].src : q \in received'} = arrived \cup {p.src}
  BY <1>2
<1>6. rcv' = IF p.src = NoSource THEN mid ELSE HandleSourceSymbolFrame(mid, p.src)
  BY <1>2 DEF handleFrames
<1> HIDE DEF p, arrived
<1>7. mid \in RcvStates /\ ReceiverOK(mid, arrived)
  BY <1>3, <1>4, RepairFrameOK
<1>8. \A s \in SSIDs : mid.passedUp[s] > 0 =>
        rcv.passedUp[s] > 0 \/ (p.rep # NoRepair /\ s \in SourcesOf(p.rep.block))
  BY <1>3, <1>4, RepairFrameOK
<1>9. \A t \in SSIDs : mid.passedUp[t] >= rcv.passedUp[t]
  <2>1. \A t \in SSIDs : rcv.passedUp[t] \in Nat
    BY <1>4 DEF RcvStates
  <2> QED BY <2>1, <1>3, <1>4, HandedUpStays
<1> HIDE DEF mid
<1>10. NoSource \notin SSIDs
  BY DEF NoSource, SSIDs
<1>17. p.src # NoSource => p.src \in SSIDs /\ p.src \notin arrived
  <2> SUFFICES ASSUME p.src # NoSource, NEW q \in received, sent[q].src = p.src PROVE FALSE
    BY <1>3 DEF arrived
  <2>1. q \in DOMAIN sent /\ q # pn
    BY <1>1, <1>2 DEF TypeOK
  <2> QED BY <2>1, <1>1 DEF SourceInv, p
<1>11. rcv' \in RcvStates /\ ReceiverOK(rcv', arrived \cup {p.src})
  <2>1. CASE p.src = NoSource
    BY <2>1, <1>6, <1>7, ReceiverOKMono
  <2>2. CASE p.src # NoSource
    BY <2>2, <1>17, <1>6, <1>7, SourceFrameOK
  <2> QED BY <2>1, <2>2
<1>18. p.src # NoSource => rcv'.passedUp[p.src] > 0
  BY <1>17, <1>6, <1>7, OwnPayloadIsHandedUp
<1>12. TypeOK'
  BY <1>1, <1>2, <1>11 DEF TypeOK, RcvStates
<1>13. SenderBlocksInv' /\ RepairInv' /\ SourceInv'
  BY <1>1, <1>2 DEF SenderBlocksInv, RepairInv, SourceInv
<1>14. ReceiverInv'
  BY <1>5, <1>11 DEF ReceiverInv
<1>15. PassedUpWasSent'
  <2> SUFFICES ASSUME NEW s \in SSIDs, rcv'.passedUp[s] > 0 PROVE s < nextSID
    BY <1>2 DEF PassedUpWasSent
  <2>1. mid.passedUp[s] > 0 \/ (p.src # NoSource /\ s = p.src)
    BY <1>3, <1>6, <1>7, SourceFrameHandsUpItsOwn
  <2>2. CASE rcv.passedUp[s] > 0
    BY <2>2, <1>1 DEF PassedUpWasSent
  <2>3. CASE p.rep # NoRepair /\ s \in SourcesOf(p.rep.block)
    BY <2>3, <1>1, <1>3 DEF RepairInv, SenderBlocksInv, RepairFrames, p
  <2>4. CASE s = p.src
    BY <2>4, <1>1 DEF SourceInv, p
  <2> QED BY <2>1, <2>2, <2>3, <2>4, <1>8
<1>16. ASSUME NEW t \in SSIDs PROVE rcv'.passedUp[t] >= rcv.passedUp[t]
  <2>1. mid.passedUp[t] \in Nat /\ rcv.passedUp[t] \in Nat /\ rcv'.passedUp[t] \in Nat
    BY <1>4, <1>7, <1>11 DEF RcvStates
  <2>2. rcv'.passedUp[t] >= mid.passedUp[t]
    BY <2>1, <1>3, <1>6, <1>7, HandedUpStays
  <2> QED BY <2>1, <2>2, <1>9
<1> QED BY <1>12, <1>13, <1>14, <1>15, <1>16, <1>17, <1>18 DEF IInv, p, arrived

\* A loss changes neither endpoint.
LEMMA LosePreserves ==
    ASSUME IInv, NEW pn \in DOMAIN sent, Lose(pn)
    PROVE  IInv'
<1>1. lost' = lost \cup {pn} /\ UNCHANGED <<nextSID, sndBlocks, repairQueue, sent, received, rcv>>
  BY DEF Lose
<1> QED
  BY <1>1 DEF IInv, TypeOK, SenderBlocksInv, RepairInv, SourceInv, ReceiverInv, PassedUpWasSent

LEMMA InitOK == Init => IInv
<1> SUFFICES ASSUME Init PROVE IInv
  OBVIOUS
<1>1. newBlock \in BlockStatus /\ newBlock.sources = {} /\ newBlock.isProcessed = FALSE
  BY DEF newBlock, BlockStatus
<1>2. 0 \in 0 .. (MaxBlocks * NumSource)
  BY BoundsAssumption, NumSourceAssumption
<1>3. TypeOK
  <2>1. rcv \in [blocks : [Blocks -> BlockStatus], passedUp : [SSIDs -> Nat]]
    BY <1>1 DEF Init
  <2> QED BY <1>1, <1>2, <2>1 DEF Init, TypeOK
<1>4. SenderBlocksInv
  BY <1>1 DEF Init, SenderBlocksInv
<1>5. RepairInv /\ SourceInv
  BY DEF Init, RepairInv, SourceInv
<1>6. ReceiverInv
  BY <1>1, SourcesInRange DEF Init, ReceiverInv, ReceiverOK
<1>7. PassedUpWasSent
  BY DEF Init, PassedUpWasSent
<1> QED BY <1>3, <1>4, <1>5, <1>6, <1>7 DEF IInv

LEMMA NextOK == IInv /\ [Next]_vars => IInv'
<1> SUFFICES ASSUME IInv, [Next]_vars PROVE IInv'
  OBVIOUS
<1>1. CASE UNCHANGED vars
  BY <1>1 DEF vars, IInv, TypeOK, SenderBlocksInv, RepairInv, SourceInv, ReceiverInv, PassedUpWasSent
<1>2. ASSUME NEW fits \in BOOLEAN, NEW hasFECData \in BOOLEAN, PackPacket(fits, hasFECData)
      PROVE  IInv'
  BY <1>2, PackPreserves
<1>3. ASSUME NEW pn \in DOMAIN sent, Lose(pn) PROVE IInv'
  BY <1>3, LosePreserves
<1>4. ASSUME NEW pn \in DOMAIN sent, Deliver(pn) PROVE IInv'
  BY <1>4, DeliverPreserves
<1> QED BY <1>1, <1>2, <1>3, <1>4 DEF Next

-----------------------------------------------------------------------------
(* The results.                                                            *)

\* The strengthened invariant holds in every reachable state: it ties what the
\* receiver has handed up to the symbols it holds, and every repair frame to a
\* block the sender has given out completely.
THEOREM InductiveInvariant == Spec => []IInv
<1>1. Init => IInv
  BY InitOK
<1>2. IInv /\ [Next]_vars => IInv'
  BY NextOK
<1> QED BY <1>1, <1>2, PTL DEF Spec

\* Every variable of the managers, the queue and the network keeps its type.
THEOREM TypeCorrect == Spec => []TypeOK
<1>1. IInv => TypeOK
  BY DEF IInv
<1> QED BY <1>1, InductiveInvariant, PTL

\* A payload is passed up at most once: HandleSourceSymbolFrame and
\* HandleRepairFrame never both hand it up, in any order of arrival.
THEOREM AtMostOnce == Spec => []PassedUpAtMostOnce
<1>1. ASSUME IInv PROVE PassedUpAtMostOnce
  <2> SUFFICES ASSUME NEW s \in SSIDs PROVE rcv.passedUp[s] <= 1
    BY DEF PassedUpAtMostOnce
  <2>1. sidToBlockID(s) \in Blocks /\ s \in SourcesOf(sidToBlockID(s))
    BY SidInItsBlock
  <2>2. rcv.passedUp[s] \in {0, 1}
    BY <1>1, <2>1 DEF IInv, ReceiverInv, ReceiverOK
  <2> QED BY <2>2
<1> QED BY <1>1, InductiveInvariant, PTL

\* A block the receiver has dropped has had every one of its payloads passed up.
THEOREM DroppedBlocksAreComplete == Spec => []ProcessedMeansPassedUp
<1>1. ASSUME IInv PROVE ProcessedMeansPassedUp
  BY <1>1 DEF IInv, ReceiverInv, ReceiverOK, ProcessedMeansPassedUp
<1> QED BY <1>1, InductiveInvariant, PTL

\* A payload that is passed up was given out by the sender.
THEOREM NothingInvented == Spec => []PassedUpWasSent
<1>1. IInv => PassedUpWasSent
  BY DEF IInv
<1> QED BY <1>1, InductiveInvariant, PTL

\* manager.go: the managers, the queue and the network together implement FECDelivery, with
\* the number of times a payload reached the frame handlers as what FECDelivery counts.  So no
\* step hands a payload up a second time, and none that receives a payload leaves it out.
THEOREM Implements == Spec => ImplementsDelivery
<1> DEFINE up == rcv.passedUp
           arr == {sent[pn].src : pn \in received} \ {NoSource}
           Stutters == nextSID' = nextSID /\ arr' = arr /\ up' = up
<1>1. Init => Abstract!Init
  BY DEF Init, Abstract!Init
<1>2. IInv /\ IInv' /\ [Next]_vars => [Abstract!Next]_(Abstract!dvars)
  <2> SUFFICES ASSUME IInv, IInv', [Next]_vars
               PROVE  Abstract!Next \/ Stutters
    BY DEF Abstract!dvars
  <2>1. CASE UNCHANGED vars
    BY <2>1 DEF vars
  <2>2. ASSUME NEW fits \in BOOLEAN, NEW hasFECData \in BOOLEAN, PackPacket(fits, hasFECData)
        PROVE  Abstract!Next \/ Stutters
    <3>1. up' = up /\ nextSID' \in {nextSID, nextSID + 1}
      BY <2>2 DEF PackPacket, NextSSID
    <3>2. arr' = arr
      <4>1. /\ received' = received /\ received \subseteq DOMAIN sent
            /\ \E p : sent' = Append(sent, p)
            /\ sent \in Seq(Packets)
        BY <2>2 DEF PackPacket, IInv, TypeOK
      <4>2. \A q \in received : sent'[q] = sent[q]
        BY <4>1
      <4> QED BY <4>1, <4>2
    <3> QED BY <3>1, <3>2 DEF Abstract!Next, Abstract!Protect
  <2>3. ASSUME NEW pn \in DOMAIN sent, Lose(pn)
        PROVE  Stutters
    BY <2>3 DEF Lose
  <2>4. ASSUME NEW pn \in DOMAIN sent, Deliver(pn)
        PROVE  Abstract!Next
    <3> DEFINE own == {sent[pn].src} \ {NoSource}
               new == {s \in SSIDs : up'[s] # up[s]}
    <3>1. nextSID' = nextSID /\ sent' = sent /\ received' = received \cup {pn}
      BY <2>4 DEF Deliver
    <3>2. /\ \A t \in SSIDs : up'[t] >= up[t]
          /\ own \subseteq SSIDs \ arr
          /\ \A s \in own : up'[s] > 0
      BY <2>4, DeliverPreserves
    <3>3. /\ \A t \in SSIDs : up[t] \in {0, 1} /\ up'[t] \in {0, 1}
          /\ up \in [SSIDs -> Nat] /\ up' \in [SSIDs -> Nat]
      <4>1. ASSUME NEW t \in SSIDs PROVE up[t] \in {0, 1} /\ up'[t] \in {0, 1}
        <5>1. sidToBlockID(t) \in Blocks /\ t \in SourcesOf(sidToBlockID(t))
          BY SidInItsBlock
        <5> QED BY <5>1 DEF IInv, ReceiverInv, ReceiverOK
      <4> QED BY <4>1 DEF IInv, TypeOK
    <3>4. \A t \in SSIDs : up'[t] > 0 => t \in Abstract!Known
      BY <3>1 DEF IInv, PassedUpWasSent, TypeOK, SSIDs, Abstract!Known
    <3>5. new \in SUBSET {s \in Abstract!Known : up[s] = 0}
      BY <3>2, <3>3, <3>4
    <3>6. up' = [s \in SSIDs |-> IF s \in new THEN up[s] + 1 ELSE up[s]]
      BY <3>2, <3>3
    <3>7. own \in {{}} \cup {{s} : s \in Abstract!Known \ arr} /\ \A s \in own : up'[s] = 1
      BY <3>2, <3>3, <3>4
    <3>8. arr' = arr \cup own
      BY <3>1
    <3>9. \E o \in {{}} \cup {{s} : s \in Abstract!Known \ arr},
             n \in SUBSET {s \in Abstract!Known : up[s] = 0} : Abstract!HandUp(o, n)
      <4>1. PICK o, n : o = own /\ n = new
        OBVIOUS
      <4>2. /\ o \in {{}} \cup {{s} : s \in Abstract!Known \ arr}
            /\ n \in SUBSET {s \in Abstract!Known : up[s] = 0}
        BY <3>5, <3>7, <4>1
      <4>3. Abstract!HandUp(o, n)
        BY <3>1, <3>6, <3>7, <3>8, <4>1 DEF Abstract!HandUp
      <4> QED BY <4>2, <4>3
    <3> QED BY <3>9 DEF Abstract!Next
  <2> QED BY <2>1, <2>2, <2>3, <2>4 DEF Next
<1> QED BY <1>1, <1>2, InductiveInvariant, PTL DEF Spec, ImplementsDelivery, Abstract!Spec

=============================================================================
