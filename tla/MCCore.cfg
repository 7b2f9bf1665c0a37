\* Two XOR blocks, reordering and duplicates, any loss; a send queue of two packets.
CONSTANTS
    NumSource = 2
    NumRepair = 1
    MaxBlocks = 2
    MaxLosses = 3
    Reordering = TRUE
    sendQueueCapacity = 2
    MaxConnUnprocessedPackets = 1
    MaxData = 2
    MaxRcvd = 2
    MaxProbes = 2
SPECIFICATION MCSpec
INVARIANTS TypeOK PassedUpAtMostOnce ProcessedMeansPassedUp PassedUpWasSent NoWorkIsStuck CloseIsClean
PROPERTIES ImplementsDelivery CloseCompletes
CHECK_DEADLOCK FALSE
