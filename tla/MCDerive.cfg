SPECIFICATION Spec
CONSTANTS
    DenomValue <- MCDenomValue
    MaxDenomination = 3
    MaxOutputIndex = 4
    TxGas = 3
    CallValueTransferGas = 2
    Values <- MCValues
    GasLimits <- MCGasLimits
INVARIANTS
    CapIsPrefix
    ValuePreserved
    NoWraparound
CHECK_DEADLOCK FALSE
