\* A plain stream and an FEC stream with data at the same time.
CONSTANTS
    MaxFrameSize = 8
    MinStreamFrameSize = 2
    MaxFECHeaderOverhead = 3
    SourceSymbolHeader = 3
    RepairOverhead = 2
    totNumSourceSymbols = 2
    totNumRepairSymbols = 1
    maxRepairSendQueueLen = 4
    MaxNonAckElicitingAcks = 2
    AckLen = 1
    DatagramLens = {3}
    FECDatagrams = {FALSE}
    CoalescedSizes = {}
    WriteLens = {1}
    MaxInputs = 2
    SendStreams = {fec, plain}
    FECStreamSets = {{fec}}
    EarlyFEC = FALSE
SPECIFICATION PackSpec
INVARIANTS NothingFollowsUndelimitedFrame
CHECK_DEADLOCK FALSE
