SPECIFICATION Spec
CONSTANTS
    a = a
    b = b
    Codes = {a, b}
    Callers = {p1, p2}
    Owners = {o1, o2}
    Warmer = warmer
    Cap = 1
    Locations <- Overlapping
    MaxMade = 2
    MaxWarms = 1
INVARIANTS TypeOK BloomComplete CacheFresh ResultFresh
SYMMETRY Alike
CHECK_DEADLOCK FALSE
