\* Two repair symbols, as many as Reed-Solomon has for every two losses.
CONSTANTS
    Scheme = "rs"
    NumSource = 2
    NumRepair = 2
    MaxFrameData = 1
    MaxPacketBufferSize = 4
SPECIFICATION Spec
INVARIANT HandedUpIsWritten
CHECK_DEADLOCK FALSE
