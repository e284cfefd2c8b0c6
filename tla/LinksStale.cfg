SPECIFICATION Spec
CONSTANTS
    Codes = {c1}
    Creators = {p1, p2}
    Redirectors = {r1}
    Updaters = {u1}
    Deleters = {d1}
    Janitor = janitor
    None = none
    Objs = {1, 2, 3, 4, 5}
    Limit = 2
    Retries = 2
    Batch = 1
    UnlockEvery = 2
    MaxLinks = 2
    MaxMade = 2
INVARIANTS VisitsKept
CHECK_DEADLOCK FALSE
