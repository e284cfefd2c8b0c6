SPECIFICATION FairSpec
CONSTANTS
    Workers = {w1, w2}
    Submitters = {s1, s2}
    Stoppers = {t1}
    NTasks = 3
    BufSize = 1
INVARIANTS TypeOK  StopWaits
PROPERTIES StopReturns
CHECK_DEADLOCK FALSE
