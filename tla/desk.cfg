SPECIFICATION FairSpec
CONSTANTS
    Want <- MCWant
    Dust = 1
    Rounding = 1
    Ether = 5
    MaxStart = 1
    MaxLeft = 2
    Builds = {b1, b2}
    Slots = {s1}
    MaxFaults = 1
    MaxLiquidity = 2
    CloseSlots = {c1}
    MaxUpsets = 1
INVARIANTS NeverOverWraps OneOpeningPerApproval FinalUnlessGrown
PROPERTY DeskNotTrapped
CHECK_DEADLOCK FALSE
