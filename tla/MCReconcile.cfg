SPECIFICATION ReconcileSpec
CONSTANTS
    Block <- MCBlock
    ParentHash <- MCParentHash
    Height <- MCHeight
    NoBlock = ""
    Unknown = "?"
    Body <- MCBody
    TrimDepth <- MCTrimDepth
    LockDepth <- MCLockDepth
    ConversionLock = 3
    MaxApply = 2
    Process = {p, q}
    MaxRunning = 2
    Tool = tool
    Owner <- MCOwner
    NBlocks <- MCNBlocks
    Batch = 2
    Margin = 1
    SampleLimit = 2
    TwoTo63 = 8
    StoredDbs <- MCStoredDbs
CONSTRAINT Clean
SYMMETRY Symmetry
INVARIANTS
    ReconcileInv
    WritersKeepChain
    DecodedStaysDecoded
    BackfillCompletes
    NoFalseAlarm
    NoDeadlock
CHECK_DEADLOCK FALSE
