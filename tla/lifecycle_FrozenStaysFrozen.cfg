SPECIFICATION Spec
CONSTANTS
    Nfts = {n1}
    Refreshers = {worker}
    Importers = {}
    Posts = {p1, p2}
    Priced = {n1}
    MaxCrashes = 1
    None = None
PROPERTIES FrozenStaysFrozen
