CONSTANTS
    Openers = {o1, o2, o3}
    maxNumStreams = 2
    MaxStreamCount = 4
    MaxCalls = 3
    LateCancel = TRUE
    Accepters = {a1}
SPECIFICATION MapSpec
INVARIANTS OpenerIsWoken
CHECK_DEADLOCK FALSE
