SPECIFICATION Spec
CONSTANTS
    Nfts = {n1}
    Refreshers = {worker, request}
    Importers = {import}
    Posts = {p1}
    Priced = {n1}
    MaxCrashes = 1
    None = None
SYMMETRY Interchangeable
INVARIANTS RefreshExclusive FinalMeansDrained OpenNeverFinal
PROPERTIES RepairLeavesNoneWaiting ImplementsCloseLedger
