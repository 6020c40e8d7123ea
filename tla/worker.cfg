SPECIFICATION FairSpec
CONSTANTS
    Positions = {p1}
    Worker = worker
    Requests = {request}
    Chains = 2
    Bands = {0, 5}
    MaxFaults = 2
    MaxMoves = 2
    None = None
INVARIANTS RepeatsNeedFaults
PROPERTIES StaysFresh RiskIsDecided EveryChainScouted
