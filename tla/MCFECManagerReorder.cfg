\* One XOR block on a network that reorders.
CONSTANTS
    NumSource = 2
    NumRepair = 1
    MaxBlocks = 1
    MaxLosses = 1
    Reordering = TRUE
SPECIFICATION Spec
INVARIANT WaitingIsNotRecoverable
CHECK_DEADLOCK FALSE
