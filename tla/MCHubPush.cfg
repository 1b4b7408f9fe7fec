SPECIFICATION Spec
CONSTANTS
    Client = {c1}
    BufCap = 1
    MaxHeight = 3
    MaxApply = 2
INVARIANT
    EveryBlockPushed
CHECK_DEADLOCK FALSE
