SPECIFICATION Spec
CONSTANTS
    Levels = {1, 2}
    MaxAge = 1
    MaxHour = 2
    Askers = {a1, a2}
    Questions = {"q1", "q2", "q3"}
    KeyOf <- MCKeyOf
    PoolOf <- MCPoolOf
    Reuse = 1
    MaxSecond = 1
    Legs = {l1, l2}
    MaxFee = 2
    MaxChanges = 2
    Ranges = {r1, r2}
    Dailies = {0, 18, 20}
    Rates = {20, 60}
    Costs = {1}
    Tiers = {t1}
    Chains = {c1, c2}
    Pages = {g1, g2}
    MaxOpens = 3
    Pools = {p1, p2}
INVARIANTS HistoryIsUsable OneComputationPerBurst ChoiceIsDefensible LimitsHold
PROPERTIES AnswersAreLabelled DecisionIsFounded AdviceIsAffordable
CHECK_DEADLOCK FALSE
