SPECIFICATION FairSpec
CONSTANTS
    Client = {c1, c2}
    BufCap = 1
    MaxHeight = 3
    MaxApply = 2
INVARIANTS
    HubInv
    DeliveredExactly
PROPERTIES
    BroadcastEnds
    BrokenClientsLeave
CHECK_DEADLOCK FALSE
