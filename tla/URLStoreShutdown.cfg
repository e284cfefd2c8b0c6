SPECIFICATION FairSpec
CONSTANTS
    Codes = {c1}
    Writers = {w1}
    Flushers = {}
    Syncer = Syncer
    Main = Main
    None = None
    Inodes = {1, 2, 3, 4, 5}
    MaxVer = 2
    MaxFaults = 1
INVARIANTS ShutdownDurable
PROPERTIES ShutdownCompletes
CHECK_DEADLOCK FALSE
