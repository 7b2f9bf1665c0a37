SPECIFICATION Spec
CONSTANTS
    Statuses = {10, 20}
    ContentLengths = {0, 2, 3}
    WriteSizes = {0, 1, 2, 3}
    ReadSizes = {1, 2, 8}
    BufioSize = 4
    MaxHeaderBytes = 4
    MaxBody = 4
    MaxWrites = 3
INVARIANT BodyArrives
CHECK_DEADLOCK FALSE
