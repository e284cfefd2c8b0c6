SPECIFICATION SerialSpec
CONSTANTS
    Codes = {c1, c2}
    Writers = {w1}
    Flushers = {f1}
    Syncer = Syncer
    Main = Main
    None = None
    Inodes = {1, 2, 3}
    MaxVer = 3
    MaxFaults = 1
INVARIANTS TypeOK DiskIntact AckDurable
PROPERTIES NoOlderOnDisk RefinesDurableMap
SYMMETRY CodesAreAlike
CHECK_DEADLOCK FALSE
