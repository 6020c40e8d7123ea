SPECIFICATION ReadingsSpec
CONSTANTS
    W = 8
    Q = 2
    Liquidity = 3
    MaxGrowth = 3
    MaxCrossings = 2
    Growths <- MCGrowths
    Scanners = {worker}
    Sources <- MCSources
    Spacings = {1, 3}
    Coalesce = 2
    Window = 2
    Retention = 3
    Midnight = 4
    MaxTime = 6
    MaxEarned = 2
    MaxWrong = 1
    MaxBlock = 5
    MaxSupply = 2
    WideRange = 4
    LeastRange = 1
    Callers = {c1, c2}
    Candles = {"candles"}
    Rows = {"rows"}
    Young <- MCYoung
    Stale <- MCStale
    Oldest = 4
    Cooldowns = {1, 2}
INVARIANTS GrowthReadIsExact StoredIsConservative CountsRealFeesOnly RollingIsWindow
INVARIANTS ClosedAccountsAreWhole CooldownIsKept
CHECK_DEADLOCK FALSE
