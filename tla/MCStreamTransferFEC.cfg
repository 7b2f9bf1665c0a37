\* A FEC protected stream whose last block is not complete; one packet is lost.
CONSTANTS
    FECProtected = TRUE
    NumChunks = 3
    NumSource = 2
    NumRepair = 1
    packetThreshold = 2
    CongestionWindow = 2
    MaxLosses = 1
    MaxSpurious = 0
SPECIFICATION FairSpec
PROPERTY StreamDataArrives
CHECK_DEADLOCK FALSE
