SPECIFICATION FairSpec
CONSTANTS
    Block <- MCBlock
    ParentHash <- MCParentHash
    Height <- MCHeight
    NoBlock = ""
    Unknown = "?"
    MaxDepth = 2
    Batch = 2
    HeadsCap = 0
    MaxFaults = 0
PROPERTY
    ResyncsWhenFarBehind
