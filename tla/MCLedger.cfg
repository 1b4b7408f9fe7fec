SPECIFICATION ReadsSpec
CONSTANTS
    Block <- MCBlock
    ParentHash <- MCParentHash
    Height <- MCHeight
    NoBlock = ""
    Unknown = "?"
    Body <- MCBody
    TrimDepth <- MCTrimDepth
    LockDepth <- MCLockDepth
    ConversionLock = 3
    MaxApply = 3
    Owner <- MCOwner
    Asked <- MCAsked
    MaxCommits = 1
INVARIANTS
    LedgerTypeOK
    LedgerInv
    ReadsInv
    UtxosMatchChain
    ConvsMatchChain
    NoneOverdue
    UndecodableNeverStored
    PushedEventsExact
    BlockAnswerExact
    TxAnswerComplete
    OutpointUnique
    AccountsAddUp
PROPERTY
    LedgerImplementsChainIndex
CHECK_DEADLOCK FALSE
