SPECIFICATION Spec
CONSTANTS
    IPs = {x, y, z}
    NoIP = none
    Callers = {p1, p2}
    PerIPMax = 2
    GlobalCap = 2
    GlobalPer = 2
    IPCap = 1
    IPPer = 3
    Second = 2
    MaxTime = 5
INVARIANTS TypeOK NearIdeal PerIPBudget
SYMMETRY Alike
CHECK_DEADLOCK FALSE
