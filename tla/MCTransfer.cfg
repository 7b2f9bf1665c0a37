\* An unprotected stream on a path that loses two packets and reorders, a packer with two streams
\* that are either FEC protected or not, the flow control of two streams, and DATAGRAM queues of
\* one and two frames; the constants of the FEC manager are in MCTransfer.
CONSTANTS
    FECProtected = FALSE
    NumChunks = 4
    NumSource = 2
    NumRepair = 1
    packetThreshold = 3
    CongestionWindow = 2
    MaxLosses = 2
    MaxSpurious = 1
    SendStreams = {1, 2}
    FECStreamSets = {{}, {1, 2}}
    EarlyFEC = FALSE
    MaxFrameSize = 8
    MinStreamFrameSize = 2
    MaxFECHeaderOverhead = 3
    SourceSymbolHeader = 3
    RepairOverhead = 2
    totNumSourceSymbols = 2
    totNumRepairSymbols = 1
    maxRepairSendQueueLen = 1
    MaxNonAckElicitingAcks = 2
    AckLen = 2
    DatagramLens = {3, 9}
    FECDatagrams = {FALSE}
    CoalescedSizes = {3}
    WriteLens = {1, 6}
    MaxInputs = 4
    Streams = {"s1", "s2"}
    Total = 2
    StreamWindow = 1
    MaxStreamWindow = 2
    ConnWindow = 2
    MaxConnWindow = 3
    Adders = {"a1", "a2"}
    Receivers = {"r1"}
    maxDatagramSendQueueLen = 1
    maxDatagramRcvQueueLen = 2
    MaxAdds = 2
    MaxRcvd = 3
    MayCancel = TRUE
SPECIFICATION MCSpec
INVARIANTS
    TransferIsTracked
    WindowsAreKept
    BlockedCallsAreWoken
    PacketFits
    RepairsLagBehindACKs
    NothingFollowsUndelimitedFrame
PROPERTIES
    TransferCompletes
    LossesAreRepaired
    UpdatesKeepFlowing
    AddReturns
    EverythingIsPacked
CHECK_DEADLOCK FALSE
