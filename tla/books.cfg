SPECIFICATION BooksSpec
CONSTANTS
    t1 = t1
    t2 = t2
    Transfers <- MCTransfers
    Evidence <- MCEvidence
    Parties <- MCParties
    LpTxs = {}
    Entries = {e1}
    FundingTxs = {"x1"}
    Ignored = {}
    Internal = {}
    Amounts = {0, 1}
    Scanners = {scan}
    Importers = {import}
    Handlers = {h1, h2}
    MaxStarted = 4
    Requests = {r1, r2}
    DayTicks = 2
    MaxTime = 2
    MaxMoves = 1
    MaxCaptures = 3
SYMMETRY Interchangeable
INVARIANTS ReviewIsBooked CashNeedsConfirmation ProfitIsReal
PROPERTIES ReviewedStays OpeningStays AloneInOrder
CHECK_DEADLOCK FALSE
