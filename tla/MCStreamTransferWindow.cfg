\* A FEC protected stream longer than the congestion window.
CONSTANTS
    FECProtected = TRUE
    NumChunks = 3
    NumSource = 2
    NumRepair = 1
    packetThreshold = 2
    CongestionWindow = 2
    MaxLosses = 1
    MaxSpurious = 0
SPECIFICATION Spec
PROPERTY CongestionWindowRespected
CHECK_DEADLOCK FALSE
