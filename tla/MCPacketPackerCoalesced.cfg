\* FEC data before the handshake is confirmed.
CONSTANTS
    MaxFrameSize = 8
    MinStreamFrameSize = 2
    MaxFECHeaderOverhead = 3
    SourceSymbolHeader = 3
    RepairOverhead = 2
    totNumSourceSymbols = 2
    totNumRepairSymbols = 1
    maxRepairSendQueueLen = 4
    MaxNonAckElicitingAcks = 2
    AckLen = 1
    DatagramLens = {3}
    FECDatagrams = {FALSE}
    CoalescedSizes = {3}
    WriteLens = {5}
    MaxInputs = 4
    SendStreams = {fec}
    FECStreamSets = {{fec}}
    EarlyFEC = TRUE
SPECIFICATION PackSpec
INVARIANTS PacketFits
CHECK_DEADLOCK FALSE
