SPECIFICATION Spec
CONSTANTS
    c1 = c1
    c2 = c2
    short = short
    long = long
    p1 = p1
    p2 = p2
    None = None
    Paths = {p1, p2}
    Commands = {c1, c2}
    Artifacts = {short, long}
    Size <- MCSize
    MaxContracts = 2
INVARIANTS
    TypeOK
    SmokeActsOnItsOwn
    OkMeansDone
PROPERTIES
    ImplementsStore
SYMMETRY CliSymmetry
CHECK_DEADLOCK FALSE
