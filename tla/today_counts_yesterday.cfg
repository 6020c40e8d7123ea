SPECIFICATION Spec
CONSTANTS
    Scanners = {worker}
    Sources = {"POOL_FEE_GROWTH"}
    Spacings = {1}
    Coalesce = 5
    Window = 24
    Retention = 840
    Midnight = 4
    MaxTime = 6
    MaxEarned = 3
    MaxWrong = 0
INVARIANT TodayExcludesYesterday
CHECK_DEADLOCK FALSE
