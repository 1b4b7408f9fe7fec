SPECIFICATION FairSpec
CONSTANTS
    Block <- MCSmallBlock
    ParentHash <- MCSmallParentHash
    Height <- MCSmallHeight
    NoBlock = ""
    Unknown = "?"
    MaxDepth = 2
    Batch = 2
    HeadsCap = 1
    MaxFaults = 1
INVARIANT
    LoopInv
PROPERTIES
    CatchUpClimbs
    Converges
    CatchUpReturns
