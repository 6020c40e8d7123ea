SPECIFICATION LifeSpec
CONSTANTS
    MaxBlock = 3
    MaxSupply = 1
    WideRange = 4
    LeastRange = 1
INVARIANT CapitalCountedOnce
CHECK_DEADLOCK FALSE
