\* XOR: recovery never returns more than one payload.  Paths on which the largest probe fails,
\* fits, and is not tried; bandwidths below and above a packet per tick.  The constants of the other components
\* are in MCRecovery.
CONSTANTS
    Scheme = "xor"
    NumSource = 3
    NumRepair = 1
    MaxFrameData = 2
    MaxPacketBufferSize = 4
    MaxDataPN = 3
    MaxAckPN = 2
    MaxNumAckRanges = 3
    NumECNTestingPackets = 2
    PathMarksCE = TRUE
    Paced = FALSE
    PathMTUs = {12, 16, 20}
    StartSize = 12
    MaxPacketSizes = {10, 14, 23}
    MaxMTUDiff = 2
    Second = 5
    Bandwidths = {3, 7, 50}
    MinPacingDelay = 1
    TimerGranularity = 1
    MaxBurstSizePackets = 2
    MaxClock = 3
SPECIFICATION MCSpec
INVARIANTS RecoveredIsWritten FlightIsCounted AlarmsAreSet DuplicatesAreRecognised SignalsHaveCause MTUIsFound
CHECK_DEADLOCK FALSE
