SPECIFICATION Spec
CONSTANTS
    \* the access log
    Codes = {c, d}
    Writers = {w1, w2}
    Readers = {r1}
    None = none
    Sizes = {1, 2}
    FlushOnWrite = FALSE
    MaxLines = 3
    MaxFaults = 1
    \* metrics
    Users = {u1, u2}
    Labelled <- SeriesWithOneKey
    Kinds = {"counter", "histogram"}
    Bounds = {0, 5}
    Inf = 100
    Values = {5, 9}
    RecentCap = 1
    MaxObserved = 2
    MaxVisits = 2
    \* semaphore
    Callers = {p1, p2, p3, p4}
    Capacity = 3
    Weights = {1, 2, 3}
    MaxCancels = 1
    \* stopctrl
    Parts = {g1}
    Hooks = {h1, h2}
    Stoppers = {s1, s2}
    \* rolling window
    Adders = {a1, a2}
    Buckets = 2
    Dur = 2
    WinTime = 8
    MaxSamples = 4
    \* clock
    Timers = {t1}
    Tickers = {k1}
    Waits = {2}
    Steps = {1, 3}
    ClockMax = 5
    MaxCalls = 3
    \* string sets
    Strings = {x, blank}
    Blank = blank
    Names = {m1, m2, m3}
    MaxOps = 4
    \* retry
    Configs <- SomeConfigs
    Widest = 20
    Initial = 3
    \* singleflight
    Flyers = {f1, f2, f3}
    FlightKeys = {k}
    MaxFlights = 2
    \* requests
    Clients = {q1, q2}
    Calls <- SomeCalls
    MaxSent = 3
    MaxBreaks = 1
INVARIANTS TypeOK LogIntact SyncedLinesSurvive PermitsAccounted NoLostWakeup WindowExact
           StopWaitsForAll  SetsAgree MetricsAddUp  FlightsApart 
CHECK_DEADLOCK FALSE
