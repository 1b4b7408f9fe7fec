SPECIFICATION FairSpec
CONSTANTS
    Rows <- MCRows
    MaxHeight = 3
    Limits <- MCLimits
    MaxLimit = 3
    DefaultLimit = 2
INVARIANTS
    HistoryInv
    PagesCoverStableRows
PROPERTY
    PagingEnds
