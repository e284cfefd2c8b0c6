# Verification of the shurl short-link server

TLA+ models of the server in this repository, the TLC runs that check them, and
TLAPS proofs about them. Line numbers refer to the source files; every definition
that stands for code is listed with its lines in `PROJECT.json` under `map`.

## 1. The system

| Component | State | Operations | Interacts with |
|---|---|---|---|
| URL store (`internal/store/url_store.go`, `fileutil.go`) | map of code to record pointer behind a RWMutex, atomic `dirty`, the JSON file and `path.tmp`, a background syncer | Load, Get, Exists, Save, Delete, IncrementVisits, ForEach, Flush, Close, WriteAtomic | services, resolver, admin service |
| Links (`internal/service/url_service.go`, `janitor_service.go`) | none of their own: records reached through pointers of the store | Create, Disable, UpdateRemark, Delete, HandleRedirect, janitor sweeps | URL store, access log |
| Access log (`internal/store/access_store.go`) | append-only JSON-lines file behind a mutex, a goroutine that syncs it | Open, Append, AppendMany, Sync, Scan, CountLines, Close | redirects, statistics |
| Statistics (`internal/service/stats_service.go`) | cache of reports with a TTL | Overall: cache, two scans of the log, eviction | access log, URL store |
| Resolver (`internal/resolver`, with `pkg/cache`, `pkg/singleflight`, `pkg/bloomfilter`) | bloom filter, LRU cache, calls in flight, counters | Resolve, ObserveCreated, ObserveInvalidated, Warm | URL store |
| Rate limiter (`internal/rate`, `pkg/ratelimit`) | a global bucket, one bucket per address, capped table | Allow, AllowN, WaitN | HTTP middleware |
| Middleware and handlers (`cmd/server/main.go`, `internal/handler`, `pkg/response`, `pkg/httperr`) | what is known of a request | Recovery, Logging, BodyLimit, CORS, rate limit, routes, handlers, Map | every service |
| Admin and health services (`internal/admin`, `internal/service/health_service.go`) | lists of flushers, syncers, closers | FlushAll, CloseAll, Health (which flushes), Check, Ready | URL store, access log |
| Server process (`cmd/server/main.go`) | start and shutdown sequence | Load, serve, Shutdown, FlushAll, CloseAll | everything |
| Metrics (`internal/metrics`) | counters, gauges, histograms in a registry | GetOrCreate, Inc, ObserveMs, Snapshot, ResetAll, export | HTTP handlers |
| Libraries (`pkg/semaphore`, `workerpool`, `stopctrl`, `retry`, `rollingwindow`, `clock`, `set`, `singleflight`) | queues, permits, groups, rings, virtual timers, shared maps | Acquire/Release, Submit/Stop, Add/Stop, Do, Advance, Union/Diff | the server uses only `singleflight`, through the resolver |
| Utilities (`pkg/iputil`, `uautil`, `netutil`, `validator`, `durationutil`, `cryptoutil`, `idgen`, `logger`) | little or none | parsing and formatting | handlers |

What is hard here: a sync is not one step (snapshot, then file operations under a
shared temporary name, then `dirty=false`, with no lock across them), and up to
four kinds of goroutine sync at once; records leak out of the store as pointers
and come back as clones; the shutdown sequence runs beside handlers that its
timeout has not waited for; readers of the log take no lock and meet lines that are
half written; a request is several calls of the store, of which a later one may fail;
and the libraries have the usual races (a cancelled waiter that is granted, a submit
that races a stop, a cache filled after it was invalidated).

## 2. Modules

| Module | Models | Instance, run |
|---|---|---|
| `URLStore` | the URL store, `WriteAtomic`, the file system under it, and the start and shutdown of the process | `MCURLStore`; runs `url_store_*` |
| `DurableMap` | what the store promises: memory, a file that changes in one step, what a sync acknowledged | as a refinement in `url_store_serial` |
| `URLStoreProofs`, `LinksProofs`, `ResolverProofs`, `RateLimiterProofs`, `WorkerPoolProofs`, `AccessLogProofs`, `StatisticsProofs` | TLAPS proofs about the module in the name | |
| `StandaloneProofs` | TLAPS proofs about the components of `Standalone` | |
| `Links` | records reached through pointers: creation, update, deletion, redirects, janitor | `MCLinks`; runs `links`, `links_stale` |
| `Resolver` | bloom filter, LRU cache and singleflight group in front of the store | `MCResolver`; run `resolver` |
| `RateLimiter` | token buckets and the table of addresses | `MCRateLimiter`; run `rate_limiter` |
| `WorkerPool` | `Pool` of `pkg/workerpool` | `MCWorkerPool`; run `worker_pool` |
| `AccessLog` | the log: appends, syncs, Close, readers, crashes | runs `log_half_line`, `standalone` |
| `Statistics` | reports and their cache, over `AccessLog` (EXTENDS) | `MCStatistics`; run `reports` |
| `Pipeline` | a request on its way through middleware, routes and handlers | run `standalone` |
| `Metrics` | registry, histograms, snapshots, resets, exports | run `standalone` |
| `WeightedSemaphore` | `Weighted` of `pkg/semaphore` | run `standalone` |
| `StopGroup`, `RollingWindow`, `FakeClock`, `StringSet`, `Retry`, `SingleFlight` | one package of `pkg/` each | run `standalone` |
| `Standalone` | puts the last nine and `AccessLog` side by side: they share no state, so a behaviour is that of one of them | `MCStandalone` |

### URLStore

One goroutine is one element of `Procs`, and `pc` says where it is inside `sync` or
`flushLocked`. A sync is one action per step that others can see: `Marshal` (under
the read lock), `Open`, `Write`, `Rename`, `Cleanup` (the deferred function of
`WriteAtomic`) and `Finish`, which clears `dirty` and returns. Files are inodes, with
the two names `tmp` and `disk` and one descriptor per goroutine: that is what lets
two goroutines write and truncate the same file. The bytes of a file are a whole
snapshot, nothing, or a torn one. A record is reduced to the stamp of the change that
wrote it, so versions of the map can be compared. `Save`, `Delete` and
`IncrementVisits` are one critical section each; under `FlushOnWrite` the first two
keep the write lock until `Finish`, and the third never writes, as in the code.
`Crash` keeps the files and nothing else; `OpenError` and `WriteError` are the I/O
errors. `Shutdown`, `FlushAll` and `CloseLast` follow `main()`: `Shutdown(FALSE)` is
the timeout, after which handlers go on.

Abstract: `mem` and `disk` are maps, and the file jumps from one state of the map to a
later one. The mapping takes for memory what the store has, or what a restart would
load while the process is down, and for the snapshot under way that of the goroutine
that writes. It holds in `SerialSpec`, the executions in which no two calls of
`WriteAtomic` overlap, and the two violation runs show what overlap breaks.

### Links

The store hands out pointers (`Get`) and installs clones (`Save`), so the model has a
heap of records (`rec`), the map `urls` from codes to them, and what each goroutine
holds. An update is two actions, `Disable` or `UpdateRemark` with `Overwrite` later; a
redirect is `Redirect` (get), `CheckState` and `Visit`; the janitor collects candidates
in `Sweep` and marks them one at a time. Every 100th visit unlocks the store's mutex
twice: `Leave` then either ends the process (nobody holds the lock: the Go runtime
reports "unlock of unlocked RWMutex") or releases somebody else's lock. `CleanSpec`
holds the executions in which no goroutine saves a copy of a record that has been
replaced since it was read; `Spec` holds all of them.

A detail the model shows and no property calls wrong: the limit is tested with `>=`
after the count (`url_service.go:287`), so a link with `MaxVisits` n redirects n-1
times.

### Resolver

`Resolve` is one action per component that it asks: the filter (`Begin`, `Deny`), the
cache (`Lookup`), the singleflight group (`Join`), the store (`Fetch`), the cache again
(`Fill`), and the two halves of the end of a call (`Leave` takes it out of the map,
`Done` wakes those that wait). Owners change the store and tell the resolver after it,
in the two steps of `ObserveCreated` or the one of `ObserveInvalidated`; the warm-up
goes through a list read earlier. The server of this repository builds a resolver,
warms it and shows its statistics, but calls neither `Resolve` nor the `Observe`
methods, so their callers are modelled as the comments on them ask.

`raced` records the one thing that the code does not handle: an observation that ends
while somebody else still carries an older answer (a call that has asked the store and
not returned, an `ObserveCreated` or a warm-up with that code in hand). Outside those,
`CacheFresh` and `ResultFresh` say that nothing stale is kept or returned.

### RateLimiter

A bucket is a record as in `TokenBucket`, with the level of an ideal bucket that is
filled without rounding beside it as history. `AskGlobal`, `Fetch` or `FetchNew`, and
`Ask` are the three steps of `Allow`; the mutex is free between the second and the
third, so a request may spend the token of a bucket that has just been evicted.
Buckets nobody refers to are collected, which keeps the heap finite.

### AccessLog and Statistics

A line is its number, its code and whether all its bytes are there. `StartWrite` and
`EndWrite` are the two ends of one `file.Write` under the mutex: a reader between them
sees half a line, `FailWrite` and `Crash` leave one for good. `SyncerRound` is the
goroutine of `Open`, whose context ends after five seconds, so that it is usually the
last `Sync` that counts. A reader has the decoder's position and its error; `BadLine`
is the branch of `Scan` that logs and goes round without getting past the line.
`promised` is what was in the file when `Sync` or `Close` answered nil; `swallowed`
says that it was a `Close` whose own sync had failed, since line 112 overwrites that
error.

`Statistics` runs two scans for a report (`aggregate`, then `fillDailyUV`) beside
appends and a `Close`, and keeps the report under its key for `TTL`. A report is how
many lines it counts, with the prefix of the log it counted as history. A report whose
second scan met a closed log has visits and no daily visitors (`cut`), as the code
ignores that error.

### Pipeline

`Send` is a request up to CORS, which answers a preflight itself; `Dispatch` the rate
limit and the mux; then one action per call of the store that a handler makes: `Patch`
goes through `Disable`, `UpdateRemark` and `Get`, `Redirect` and `CountVisit` are the
two halves of `HandleRedirect`, `Probe` and `ProbeLog` ask the two stores in turn.
`answer` is the status that the client gets and `noted` the one that Logging records;
they differ after a panic, because Recovery is outside of Logging. `did` is what the
request has changed so far. `CloseLog` and `CloseStore` are `CloseAll` beside handlers
for which `srv.Shutdown` has not waited. A call of the store is one step here: what
happens inside is in `Links` and `URLStore`. Any handler may panic once.

### Libraries

In each of these modules a critical section is an action. In the semaphore, `signal`
is a waiter's channel that has been filled and not yet read: `GiveUp` may be taken in
that moment, since `select` chooses freely. `Release` can panic at line 189; it then
has given the weight back and woken nobody. In the pool, `Check` and `Send` are apart
as in `Submit`, with `SendOnClosed` for a `Stop` between them; `Start` sets `running`
first and then adds one worker at a time. The stop group has the same gap between the
test and the addition of `Add` (`late`). A bucket of the rolling window is the set of
its samples, and a sample is stamped before the mutex is taken. The fake clock fires
into channels that hold one value. A string set is a pointer to a map: `Union` and
`Diff` hand out a map that another set still has (`spoilt`). In `Retry` an error is
the number of its call, and a wait that is too long for an int64 converts to whatever
the machine makes of it. `SingleFlight` is the whole group with `DoChan`, `Forget`,
errors and panics; `Resolver` has the part that the resolver uses. In `Metrics` a
histogram has two mutexes that each method takes one after the other, and a key is
built by concatenation, so that two series may have one key.

## 3. Runs

| Run | Instance | What it shows |
|---|---|---|
| `url_store_serial` | 2 codes, 1 writer, 1 flusher, syncer, main, 3 changes, 1 crash or error, 3 inodes | type, whole file, acknowledgements durable, file never goes back, refinement of `DurableMap` |
| `url_store_shutdown` | 1 code, 1 writer, 2 changes, 1 fault, 5 inodes, overlap allowed | the shutdown ends; a clean one leaves the map on disk |
| `url_store_overlap` | the same, no fault | violated: two syncs at once leave an empty file, against `fileutil.go:34` |
| `url_store_write_back` | the same, no fault, fair | violated: `dirty` is cleared over a change that was not written, against `url_store.go:22` |
| `links` | 1 code, 2 creators, 1 redirect, 1 update, 1 delete, janitor, 5 records | see the properties of `Links`; no copy of a stale record |
| `links_stale` | the same | violated: an update and a sweep together lose visits, against `url_store.go:176` |
| `resolver` | 2 codes with a bit in common, 2 callers, 2 owners, capacity 1, 1 later warm-up | filter complete, cache and answers fresh, one call per code |
| `rate_limiter` | 3 addresses, table of 2, 2 requests at a time, 5 ticks, rates 1/2 and 1/3 per tick | rounding, budgets, table |
| `worker_pool` | 2 workers, 2 submitters, 3 tasks, buffer 1, 1 stop | each task once, stop waits, returns and reports |
| `reports` | 2 codes, 1 writer, 2 requests, cache of 1, TTL 1, scans of at most 1 line | reports count what the log held; the cache answers the question asked and is not older than promised; expired reports go |
| `log_half_line` | 1 writer, 1 reader, 2 lines, 1 fault, fair | violated: a reader never gets past half a line, against `access_store.go:227` and `:256` |
| `standalone` | per component: 2 writers and 1 reader, 3 lines, 1 fault; 2 users of 2 series; 4 callers and 3 permits; 1 component, 2 hooks, 2 stops; 2 adders and 4 samples in 2 buckets; 1 timer and 1 ticker; 3 sets and 4 calls; 72 configurations; 3 goroutines and 2 calls; 2 clients and 3 requests | one property per component, below |

What `standalone` shows: `LogIntact` (a line whose Append returned is there, whole and
once, and half lines come only from writes cut off), `SyncedLinesSurvive`,
`PermitsAccounted`, `NoLostWakeup`, `StopWaitsForAll`, `WindowExact`,
`TimersKeepTime`, `SetsAgree`, `RetryHonest`, `FlightsApart`, `MetricsAddUp`, and
`AnswersHonest`: success means that all of what was asked for was done and nothing
else, an error that nothing was, but for the exceptions it names. The comment on each
property says what it excludes and why.

Bounds. `MaxVer`, `MaxMade`, `MaxLinks`, `MaxCancels`, `MaxWarms`, `NTasks`, `MaxTime`,
`MaxFaults`, `MaxReports`, `MaxObserved`, `MaxVisits`, `WinTime`, `MaxSamples`,
`ClockMax`, `MaxCalls`, `MaxOps`, `MaxFlights`, `MaxSent` and `MaxBreaks` are in the guards of the actions that would exceed them, and nothing
else refers to them. They are enough in the following sense: the hazards in
`PROJECT.json` take two goroutines at different places in one procedure and one or two
changes; every instance has those and at least one more. Five inodes are as many as
one code with overlapping syncs can have in use (two names, one descriptor per
goroutine); three suffice when syncs do not overlap. Three permits and weights up to
three let one waiter be too heavy for what is free while a lighter one is behind it.
A table of two and three addresses give the eviction a choice. Rates of a half and a
third leave a rest in almost every tick. In the resolver a cache of one entry makes
every fill an eviction of the other code. Two buckets and eight ticks let the window be
passed over more than once. Three requests are a PATCH with a deletion and a creation
between its halves. Three lines are an `AppendMany` of two beside an `Append`.

Symmetry is used over codes, creators, callers, owners and addresses where the run has
no liveness property and no action treats one of them apart. Deadlock is not checked:
each instance comes to rest when its bounds are reached, and the server when it has
stopped.

Fairness. `URLStore!Fairness` is weak fairness of the ticker and of each goroutine
that is inside a sync: the Go scheduler runs whoever is runnable, and a file operation
returns. Nothing is assumed of handlers, signals or faults, and nothing of a timeout.
`WorkerPool!Fairness` adds that the functions of the tasks return, without which Stop
waits as documented. The other modules are checked for safety only; that a waiting
`Resolve` cannot be forgotten is the second half of `OneFlight`, which is a safety
property: it waits for a call that is under way.

Every property of a passing run has a mutant in `PROJECT.json`: a definition of the
module changed as a bug would change it (`NotTruncated`, `ErrorDropped`,
`NeverJoins`, ...), under which TLC finds the property violated. The mutants stand in
the modules beside what they replace, marked `Mutant`.

## 4. Proofs

Each theorem holds for every value of the constants that the assumptions of its module
allow: any number of codes, goroutines, lines, samples or permits, and any bounds.
What the runs show for one small instance is in these proofs for all of them.

| Module | Theorem | Statement |
|---|---|---|
| `URLStoreProofs` | `TypeCorrect` | `Spec => []TypeOK` |
| | `DiskStaysIntact` | `Spec => []DiskIntact` |
| | `AcksAreDurable` | `Spec => []AckDurable` |
| | `FileNeverGoesBack` | `Spec => NoOlderOnDisk` |
| | `ShutdownKeepsAll` | `Spec => []ShutdownDurable` |
| | `SerialStoreIsDurableMap` | `SerialSpec => RefinesDurableMap` |
| `LinksProofs` | `LinksTyped`, `LockExcludes` | `Spec => []TypeOK`, `Spec => []LockOK` |
| | `MapExact`, `LimitKept` | `Spec => []LinksExact`, `Spec => []BudgetKept` |
| | `DisabledForGood`, `EveryVisitCounts` | `Spec => []DisabledStaysDisabled`, `Spec => []VisitsKeptUnlessRaced` |
| `ResolverProofs` | `ResolverTyped`, `FilterNeverDenies` | `Spec => []TypeOK`, `Spec => []BloomComplete` |
| | `CacheHoldsFresh`, `AnswersAreFresh` | `Spec => []CacheFresh`, `Spec => []ResultFresh` |
| `RateLimiterProofs` | `LimiterTyped` | `Spec => []TypeOK` |
| | `RoundingNearIdeal`, `BudgetHolds` | `Spec => []NearIdeal`, `Spec => []PerIPBudget` |
| `WorkerPoolProofs` | `PoolTyped` | `Spec => []TypeOK` |
| | `NoTaskLostOrRepeated`, `StopHasWaited` | `Spec => []ExactlyOnce`, `Spec => []StopWaits` |
| `AccessLogProofs` | `LogKeepsLines`, `SyncedIsSafe` | `Spec => []LogIntact`, `Spec => []SyncedLinesSurvive` |
| `StatisticsProofs` | `ReportsTyped` | `Spec => []TypeOK` |
| | `ReportsAreCounts`, `AnswersAreFresh` | `Spec => []ReportsCount`, `Spec => []AnswersFresh` |
| `StandaloneProofs` | `AnswersAreHonest` | `Spec => []AnswersHonest` |
| | `WeightIsAccounted`, `OldestIsServed` | `Spec => []PermitsAccounted`, `Spec => []NoLostWakeup` |
| | `StopHasWaited` | `Spec => []StopWaitsForAll` |
| | `FlightsStayApart` | `Spec => []FlightsApart` |
| | `RingIsWindow` | `Spec => []WindowExact` |
| | `FakeClockKeepsTime` | `Spec => []TimersKeepTime` |
| | `SetsStayApart` | `Spec => []SetsAgree` |
| | `ResultIsHonest` | `Spec => []RetryHonest` |
| | `MetricsAreExact` | `Spec => []MetricsAddUp` |
| | `StandaloneTyped` | `Spec => []TypeOK` |

### Assumptions

Roles are disjoint and bounds are numbers. The others are what the code gives: there is
a code (`SomeCode`); the table of addresses, the buffer of the pool and the capacities
are positive; every code has a bit in the filter (`ResolverOK`); there are finitely
many goroutines, strings and variables where the model counts them (`StopConstantsOK`,
`SetConstantsOK`, `SizesOK`, `MetricsConstantsOK`); the bound of the last bucket
of a histogram, `Inf`, is above every bound and sample; durations of a retry are what an int64 can hold
(`RetryConstantsOK`). TLC evaluates all of them.

### The arguments

No property is inductive. Each module begins with the invariant that is, as a
conjunction of named parts; there is one lemma for each action, and the parts that an
action can disturb are its steps.

`URLStore`. `IInv` adds what a file operation relies on: a process that is down has no
goroutine inside a sync (`DownOK`) and main is idle outside its two syncs (`MainOK`); a
goroutine that has not cleaned up has not failed (`StillOk`); the two names never refer
to one inode (`NamesApart`); and, as long as no two syncs have overlapped, at most one
goroutine writes (`Sole`), its descriptor is `path.tmp`, which is empty before its
write and its snapshot after it (`FilesOK`), and versions only grow from file to
snapshot to memory (`VersionsOK`). `FileNeverGoesBack` follows from `VersionsOK` at the
one step that changes `disk`. `ShutdownKeepsAll` does not need the syncs to be apart:
it says that the last sync writes what is in memory even when earlier ones have left
`path` empty. Its invariant (`Quiet`, `LastOK`) says that when main is in the sync of
`Close`, the shutdown has waited and the syncer has ended, so main is the only goroutine
left, nobody changes the map, and the last `WriteAtomic` runs alone.
`SerialStoreIsDurableMap` maps every step to a step of `DurableMap` or to none: `Rename`
to the jump of the file, the other steps of a sync to nothing, a crash to the loss of
what was not in the file; `Sole` and `FilesOK` say whose snapshot the file becomes.

`Links`. A pointer that anybody holds is to the record of a link that was created
(`PointersOK`), and the bounds leave room for every creation and redirect under way
(`RoomOK`). `CleanInv` is what a stale copy would break: each link that was not deleted
is at its code and at no other, its visits are those that were made, and its flags are
those that were set (`HeldOK`). The lock is a different matter: `SectionOK` says that as
long as no link has reached the visit that unlocks twice, one goroutine is in a critical
section exactly when the lock is held.

`Resolver`. `live` is what anybody may still return. The invariant follows a version
through all places where it can be: an entry of the cache (`EntriesFresh`), what an
owner has to tell (`TodoFresh`), what a call has got from the store (`CallsFresh`); each
is live or its code is in `raced`. What a caller may return grows with it (`SeenOK`). For
the filter: a link that it does not know is in the hands of an owner in the first half
of `ObserveCreated`, or on the list of the first warm-up (`BitsOK`). `FlightOK` says that
the entry of the group for a code is the caller that asks the store for it.

`RateLimiter`. One refill is arithmetic, proved for whole numbers: the rounded level is
at most the exact one and less than a token apart (`SoundAt`). For the budget, what an
address has passed and what its bucket still holds are together at most burst and time
(`BudgetOK`). That needs that a request spends from the bucket which the table has
for its address, unless the address was evicted (`HeldOK`), and that nobody is evicted
while there is room (`KnownOK`).

`WorkerPool`. The WaitGroup is the number of workers alive (`CountOK`), a task is
offered by one submitter and new when it is (`OffersOK`), and when a worker has gone and
the context is not cancelled the channel is closed and empty (`PhasesOK`): from this a
Stop that waited for the count to reach zero has waited for every task (`DoneOK`).

`AccessLog`. While a batch is written, the last lines of the file are a first part of
it, whole but for the last (`HolderOK`); nobody else has its lines (`BatchOK`); each half
line but the one being written was paid for by a fault (`HalvesOK`); what was promised
lies below `synced` (`PromisedOK`).

`Statistics`. Appends, and the end of a write, leave the code of each line where it was
(`Ahead`, `LinesKept`), so what a scan has counted is what the file has up to the
position of the decoder (`ScanOK`) and stays it. What a scan finds in the log only grows
(`TimesOK`); a report therefore has at least what was there when it was begun (`Dated`),
in its total (`Totalled`) and in its days unless the log was closed between the scans
(`Broken`). An entry of the cache was put there `TTL` before it expires, no earlier than
its report was begun (`EntryOK`), which bounds the age of what `Overall` answers. Beyond
`CacheMax` each entry still had time to run when the last one came (`SizeOK`).

`WeightedSemaphore`. The weight taken is the sum of what callers hold or were granted,
and what a cancelled waiter lost (`SumOK`); the queue has each waiter without a grant
once (`QueueOK`); unless a waiter gave up or Release panicked, the oldest does not fit
(`HeadOK`). Every release hands out grants from the front of the queue, so `SumOK` is
about a sum over a set that changes by many elements in one step.

`RollingWindow`. In slot numbers instead of times: the newest sample is in slot t, at
`head`; a sample of slot u is in the ring exactly if u is one of the last `Buckets`
slots, at (head - (t - u)) modulo `Buckets` (`RingHas`). An Add that is late, one that
ages the ring by a few buckets and one that passes it over are the three cases.

`StopGroup`. What a Stop has run is the last part of the hooks, in reverse (`HooksOK`),
and after it has seen the WaitGroup at zero only components let in too late live
(`WaitsOK`). `SingleFlight`. A key leads to its call exactly while that is neither done
nor forgotten (`Leads`). `FakeClock`. A timer that waits is in the list and later than
the clock, and a ticker's next tick is a whole number of periods from its start.
`StringSet`. Two variables with a Set or map in common are both `spoilt`, so a change
through one cannot be seen through another that is not. `Retry`. After an odd number of
failures `lastErr` is the last of them, after an even number it is nil (`LastErrOK`); the
backoff is a recursive function of the attempt, whose values the proof bounds from both
sides.
`Pipeline`. At each stage a request has done what that stage says and nothing else
(`OnItsWay`), for the row as it is or was removed.

`Metrics`. The history `credit` is a bag: how often each amount was added under a key
since its reset. Total, sum and each bucket are sums over it (`Sums`), and an observation
adds one term to each of these sums, in the bucket with the least bound that is not below
it (`SumsAdd`, `UpToAdd`). That needs that the metric a goroutine holds is the one
its key leads to (`HandOK`), which the second look gives. The recent samples are those
counted but for the ones between the two mutexes, up to the capacity; between the halves of
a reset nothing has been counted, unless the histogram is `raced` (`RecentOK`). What a
snapshot has read of a histogram is of one moment, so its cumulated buckets end at its
total (`ReadOK`, `AnswerOK`), and order statistics of one list are in order
(`QuantilesOrdered`).

Kinds and bounds (`StandaloneTyped`, with `LogTyped` for the log). Most of `TypeOK` is in
the invariants above; the rest needs more than a variable at a time. That no more is
deleted than requests can be sent (`removals`) is because the deletions done and those
under way were each asked for by a request that was sent (`Asking`); a stamp of the window
is below its bound because samples and the callers that have a stamp are counted
together (`Stamped`).

The induction theorems of the library cannot be used with the installed provers. Where
a sum or a recursion needs one, the proof takes the least number for which the claim
fails (`LeastNat`, from `WFMin`) and refutes it from the one below: so the sums over
finite sets (`TotalAdd`, `TotalUnion`, `TotalSame`) and the powers of `Backoff`.
`Division` and `QuotientBounds` are the facts about `\div` and `%`
that the solver lacks.

### What the attempts corrected

`Promised` in `Pipeline` held in the run only because the calls of the run had no PATCH or
DELETE for another route; it now says for which route a 200 promises a change.
`RetryHonest` is false for an initial backoff below every int64, which the run
did not have and the code cannot be given; the constants now are durations.
`ran` in `StopGroup` and the queue of the semaphore were rewritten
(`Reverse`, `Oldest`, `RemoveAt`) so that they can be reasoned about; what they are is
the same. `TypeOK` of `Statistics` had the keys of the cache at periods from 7 to 90
days; the handler passes on all from 1 to 90. The run had asked for 0 and 200 only, which
become 7 and 90; it now asks for 3 and 200.
In `Metrics` the credit was a sequence, sums were folds over it and quantiles were taken
from a sorted sequence; now the credit is a bag, a bucket is the place of the least bound
that fits, and a quantile is the least sample with enough samples not above it. The
bound of `lastN`, the size of the last snapshot, is now the number of metrics made: the
number of keys bounds it only where there are finitely many.

### Only model-checked

The liveness properties, since they rest on fairness and so on `ENABLED`, which this prover
does not reason about: `ShutdownCompletes` and `StopReturns` hold in their runs;
`WrittenBack` and `ScanReturns` are the findings 2 and 4 below, refuted by TLC.

## 5. Findings

Four comments of the code do not describe what it does; each has a run that ends in
a counterexample, and an entry in `PROJECT.json`.

1. `WriteAtomic` is not atomic when two calls overlap: they share `path.tmp`
   (`url_store_overlap`).
2. The background syncer may never write a change back (`url_store_write_back`).
3. `Save` with overwrite is not the safe update its neighbour's comment promises
   (`links_stale`).
4. A line that does not parse is not skipped: a `json.Decoder` stays at its syntax
   error, and the loop of `Scan` never ends (`log_half_line`).

Modelled as the code has it, and met on the way:

- A cancelled waiter of the semaphore loses the weight it was granted (`leaked`), and
  `Submit` panics instead of returning an error when Stop comes between its test and
  its send.
- `Group.Stop` of `stopctrl` panics whenever it has an error to report
  (`group.go:177`), and lets a component in whose `Add` had tested the context before.
- `Retry` forgets every second error: after an even number of failures it says that
  nothing was attempted.
- After `Stop`, `Reset` and `Stop` a timer of the fake clock still fires; a ticker
  reset to a duration of 0 or less makes the loop of `Advance` endless (the model gives
  tickers positive durations only).
- `Union` and `Diff` of string sets share maps when an operand is nil.
- A panic in a function shared by singleflight reaches the waiters as a value with a
  nil error.
- `/metrics` as JSON always answers 500: `JSONSnapshot` overwrites its nil error. Two
  series whose names and labels concatenate to one key are one metric.
- A PATCH whose second half fails has done the
  first and answers an error; under `FlushOnWrite` a failed write leaves the change in
  the map.
- After a panic before the first byte the client gets 500 and the request log 0; the
  panic's own log line has no request id, since Recovery is outside of RequestID. The
  comment at `main.go:187` calls the rate limit the outermost layer; it is the innermost,
  so refused requests are logged and preflights are never limited.
- A body above the limit is answered by 400, where the comment of `BodyLimitMiddleware`
  says 413; a URL that `Create` refuses by 500, since `Map` does not know the error.
- A custom code that begins with `health`, `ready` and the like is accepted by Create
  and never found at the root path (route `reserved`).

## 6. Not modelled

- Parsing, formatting and validation (`iputil`, `uautil`, `netutil`, `validator`,
  `durationutil`, `cryptoutil`, `idgen`, `logger`), configuration, the web page:
  functions of one value, without steps that interleave. `handler/cors.go` is built by
  main and thrown away; `pkg/safemap` is used by nothing, and is a map under one mutex
  (its `Swap` returns the new value as the old one).
- In Statistics the breakdown of a report by day, browser and referrer. Read, and not
  in the model: the daily visitors are collected under a day that may differ from the
  one of the visits (`stats_service.go:256`).
- Start and Shutdown of the janitor: one flag under a mutex; its sweeps are in `Links`.
- In the modules above: `TokenBucket.WaitN`, whose deferred second `Unlock` ends the
  process on every return and which nothing calls; `LRU.PurgeExpired` (skips every
  other entry, nil dereference at the last) and `Clear`; `BloomFilter.Merge` (double
  `RUnlock`); `Pool.Errors`, which panics as soon as there is an error; an unbuffered
  pool; the counting semaphore `Simple`, a buffered channel; `RollingWindow.Snapshot`,
  which panics on a negative index and whose reads do not age the window; `Sleep` and
  the contexts of the fake clock, which poll or use the real one; `Set`, `Add`, `Dec`
  of counters and gauges, minimum, maximum and deviation of histograms.

## 7. Plan

The models of sections 2 and 3 are complete as far as section 6 says, and every safety
property that a passing run checks is a theorem. Next would be the proofs' length
(`Pipeline`, `Metrics` and `LinksProofs` repeat what lemmas about `EXCEPT` could say
once), and an abstract specification for the log like `DurableMap` for the store.
