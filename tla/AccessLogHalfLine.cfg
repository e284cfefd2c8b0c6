SPECIFICATION LogSpec
CONSTANTS
    Codes = {c}
    Writers = {w1}
    Readers = {r1}
    None = none
    Sizes = {1}
    FlushOnWrite = FALSE
    MaxLines = 2
    MaxFaults = 1
PROPERTY ScanReturns
CHECK_DEADLOCK FALSE
