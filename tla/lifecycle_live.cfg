SPECIFICATION FairSpec
CONSTANTS
    Nfts = {n1}
    Refreshers = {worker}
    Importers = {}
    Posts = {p1}
    Priced = {n1}
    MaxCrashes = 1
    None = None
PROPERTIES DrainedStaysClosed
