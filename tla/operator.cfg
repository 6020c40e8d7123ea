SPECIFICATION Spec
CONSTANTS
    a = a
    b = b
    c = c
    Nfts = {a, b, c}
    Main = {a, b}
    Fixed = {a}
    FixedNo <- MCFixedNo
    Scanners = {s1, s2}
    Managed = {b}
    MaxEdits = 1
    None = None
SYMMETRY Symmetry
INVARIANTS LabelsAreDistinct
PROPERTIES LabelsAreStable EditsSurvive
