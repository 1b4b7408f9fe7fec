SPECIFICATION IndexerSpec
CONSTANTS
    Block <- MCBlock
    ParentHash <- MCParentHash
    Height <- MCHeight
    NoBlock = ""
    Unknown = "?"
    MaxDepth = 3
    Batch = 2
    HeadsCap = 0
    MaxFaults = 0
INVARIANT
    WindowReachesBack
