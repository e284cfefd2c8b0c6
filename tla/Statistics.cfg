SPECIFICATION Spec
CONSTANTS
    Codes = {c, d}
    Writers = {w1}
    Readers = {r1, r2}
    None = none
    Sizes = {1}
    FlushOnWrite = FALSE
    MaxLines = 2
    MaxFaults = 0
    Asked = {3, 200}
    MaxRec = 1
    CacheMax = 1
    TTL = 1
    MaxTime = 2
    MaxReports = 2
INVARIANTS TypeOK  AnswersFresh
SYMMETRY Alike
CHECK_DEADLOCK FALSE
