SPECIFICATION FairSpec
CONSTANTS
    worker = worker
    importer = importer
    n1 = n1
    None = None
    Nfts = {n1}
    Refreshers = {worker}
    Importers = {importer}
    Indexable = {n1}
    Overlap = 1
    ScanBlocks = 3
    ImportBlocks = 1
    LogsFail = TRUE
    RowsFail = TRUE
    MaxBlock = 3
INVARIANT PassedMeansKnown
PROPERTY FoundUnlessSkipped
