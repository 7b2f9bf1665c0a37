\* FEC-protected datagrams up to the size of a packet.
CONSTANTS
    MaxFrameSize = 8
    MinStreamFrameSize = 2
    MaxFECHeaderOverhead = 3
    SourceSymbolHeader = 3
    RepairOverhead = 2
    totNumSourceSymbols = 2
    totNumRepairSymbols = 1
    maxRepairSendQueueLen = 4
    MaxNonAckElicitingAcks = 2
    AckLen = 1
    DatagramLens = {4, 6, 9}
    FECDatagrams = {TRUE}
    CoalescedSizes = {}
    WriteLens = {1}
    MaxInputs = 4
    SendStreams = {fec}
    FECStreamSets = {{fec}}
    EarlyFEC = FALSE
SPECIFICATION PackSpec
INVARIANTS PacketFits
CHECK_DEADLOCK FALSE
