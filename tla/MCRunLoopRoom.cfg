\* Does the run loop notice room in the send queue?
CONSTANTS
    sendQueueCapacity = 2
    MaxConnUnprocessedPackets = 1
    MaxData = 3
    MaxRcvd = 0
    MaxProbes = 2
SPECIFICATION LoopSpec
INVARIANT RoomIsNoticed
CHECK_DEADLOCK FALSE
