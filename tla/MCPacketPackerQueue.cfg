\* Every packet carries an ACK that leaves no room for the repair frame at the head of the queue.
CONSTANTS
    MaxFrameSize = 8
    MinStreamFrameSize = 2
    MaxFECHeaderOverhead = 3
    SourceSymbolHeader = 3
    RepairOverhead = 2
    totNumSourceSymbols = 2
    totNumRepairSymbols = 1
    maxRepairSendQueueLen = 2
    MaxNonAckElicitingAcks = 2
    AckLen = 3
    DatagramLens = {}
    FECDatagrams = {FALSE}
    CoalescedSizes = {}
    WriteLens = {5}
    MaxInputs = 12
    SendStreams = {fec}
    FECStreamSets = {{fec}}
    EarlyFEC = FALSE
SPECIFICATION PackSpec
INVARIANTS RepairQueueHasRoom
CHECK_DEADLOCK FALSE
