SPECIFICATION Spec
CONSTANTS
    Block <- MCBlock
    ParentHash <- MCParentHash
    Height <- MCHeight
    NoBlock = ""
    Unknown = "?"
    MaxDepth = 3
INVARIANTS
    TypeOK
    StoreIsChain
    WindowNeverBroken
    WindowMirrorsStore
    IInv
PROPERTIES
    ImplementsChainIndex
    StaleFollowerCannotCommit
