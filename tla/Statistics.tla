----------------------------- MODULE Statistics -----------------------------
(***************************************************************************)
(* StatsService of internal/service/stats_service.go over the access log:  *)
(* reports on one link, computed by two scans of the log and kept for TTL  *)
(* in a cache.  The service's mutex is held only to look into the cache    *)
(* and to store in it; lines are appended meanwhile.                       *)
(*                                                                         *)
(* A report is how many lines it counts, with, as history, what it counted *)
(* them from.  Its breakdown by day, browser and referrer is left out.     *)
(***************************************************************************)
EXTENDS AccessLog, Integers, Functions

CONSTANTS
    Asked,     \* values of the days parameter in requests
    MaxRec,    \* lines that a scan reads at most
    CacheMax,  \* reports above which old ones are looked for (256)
    TTL,       \* how long a report is kept
    MaxTime,   \* bound: ticks
    MaxReports \* bound: reports that are computed

ASSUME StatsConstantsOK ==
    /\ Asked \subseteq Int /\ MaxRec \in Nat \ {0}
    /\ CacheMax \in Nat /\ TTL \in Nat
    /\ MaxTime \in Nat /\ MaxReports \in Nat

VARIABLES
    now,      \* the clock
    cache,    \* reports by key, with the time they expire
    request,  \* what each reader is asked for, and how far it is
    report,   \* the report it is computing
    begun,    \* reports begun so far
    lenAt     \* history: what a scan would have read when each tick began

statsVars == <<now, cache, request, report, begun, lenAt>>

\* Overall of the handler: what a request may ask for.
Normal(days) == IF days <= 0 THEN 7 ELSE IF days > 90 THEN 90 ELSE days

\* Mutant: one key for all periods.
CodeOnly(code, days) == <<code, 0>>
Key(code, days) == <<code, days>>

Fresh(key) == key \in DOMAIN cache /\ now < cache[key].exp

Least(m, n) == IF m < n THEN m ELSE n

\* What a scan that begins now reads at least.
Readable == Least(MaxRec, Len(file))

NoRequest == [step |-> "none"]
NoReport == [pv |-> 0, upTo |-> 0, daily |-> 0, dailyUpTo |-> 0, least |-> 0, began |-> 0, cut |-> FALSE]

StatsInit ==
    /\ now = 0
    /\ cache = [k \in {} |-> NoReport]
    /\ request = [r \in Readers |-> NoRequest] /\ report = [r \in Readers |-> NoReport]
    /\ begun = 0 /\ lenAt = <<>>

Asks(r, step) == request[r].step = step
GoTo(r, step) == request' = [request EXCEPT ![r].step = step]
Leave(r) == request' = [request EXCEPT ![r] = NoRequest] /\ report' = [report EXCEPT ![r] = NoReport]

-----------------------------------------------------------------------------
(* Overall *)

\* The cache has no answer and the link exists: the first scan of aggregate begins.
\* (An answer from the cache, and the errors for a link that does not exist and a
\* log that is not open, change nothing.  What happens between the look into the
\* cache and the scan is seen by the scan.)
Miss(r, code, asked) ==
    /\ Asks(r, "none") /\ ~Fresh(Key(code, Normal(asked)))
    /\ begun < MaxReports /\ begun' = begun + 1
    /\ request' = [request EXCEPT ![r] = [step |-> "first", code |-> code, asked |-> asked]]
    /\ ScanBegins(r, "first")
    /\ report' = [report EXCEPT ![r].least = Readable, ![r].began = now]
    /\ UNCHANGED <<notReaders, now, cache, lenAt>>

\* Mutant: lines of every code are counted.
AllCodes(r) == 1
Matches(r) == IF LineOf(r).code = request[r].code THEN 1 ELSE 0

Limit(r) == reader[r].pos >= MaxRec

CountLine(r) ==
    /\ reader[r].goal = "first" /\ ~Limit(r) /\ OnLine(r) /\ Advance(r)
    /\ report' = [report EXCEPT ![r].pv = @ + Matches(r)]
    /\ UNCHANGED <<notReaders, now, cache, request, begun, lenAt>>

\* The client has gone: noticed at a line of the code.
Canceled(r) ==
    /\ reader[r].goal = "first" /\ OnLine(r) /\ Matches(r) = 1
    /\ ScanEnds(r) /\ Leave(r)
    /\ UNCHANGED <<notReaders, now, cache, begun, lenAt>>

FirstDone(r) ==
    /\ reader[r].goal = "first" /\ (Limit(r) \/ AtEnd(r))
    /\ report' = [report EXCEPT ![r].upTo = reader[r].pos]
    /\ GoTo(r, "second") /\ ScanEnds(r)
    /\ UNCHANGED <<notReaders, now, cache, begun, lenAt>>

\* fillDailyUV: the second scan.
SecondScan(r) ==
    /\ Asks(r, "second") /\ reader[r].goal = "none"
    /\ ScanBegins(r, "second")
    /\ UNCHANGED <<notReaders, now, cache, request, report, begun, lenAt>>

DailyLine(r) ==
    /\ reader[r].goal = "second" /\ ~Limit(r) /\ OnLine(r) /\ Advance(r)
    /\ report' = [report EXCEPT ![r].daily = @ + Matches(r)]
    /\ UNCHANGED <<notReaders, now, cache, request, begun, lenAt>>

SecondDone(r) ==
    /\ reader[r].goal = "second" /\ (Limit(r) \/ AtEnd(r))
    /\ report' = [report EXCEPT ![r].dailyUpTo = reader[r].pos]
    /\ GoTo(r, "store") /\ ScanEnds(r)
    /\ UNCHANGED <<notReaders, now, cache, begun, lenAt>>

\* Its error is ignored: the daily visitors stay 0.
SecondRefused(r) ==
    /\ Asks(r, "second") /\ reader[r].goal = "none" /\ ~ready
    /\ report' = [report EXCEPT ![r].cut = TRUE]
    /\ GoTo(r, "store")
    /\ UNCHANGED <<logVars, now, cache, begun, lenAt>>

\* Mutant: nothing is evicted.
KeepAll(reports) == reports
Evicted(reports) ==
    IF Cardinality(DOMAIN reports) <= CacheMax THEN reports
    ELSE Restrict(reports, {k \in DOMAIN reports : now <= reports[k].exp})

Store(r) ==
    LET q == request[r]
        value == [code |-> q.code, days |-> Normal(q.asked), exp |-> now + TTL, data |-> report[r]]
        put == [k \in DOMAIN cache \cup {Key(q.code, value.days)} |->
                    IF k = Key(q.code, value.days) THEN value ELSE cache[k]]
    IN  /\ Asks(r, "store")
        /\ cache' = Evicted(put)
        /\ Leave(r)
        /\ UNCHANGED <<logVars, now, begun, lenAt>>

-----------------------------------------------------------------------------
(* Around it *)

Tick ==
    /\ now < MaxTime /\ now' = now + 1
    /\ lenAt' = Append(lenAt, Readable)
    /\ UNCHANGED <<logVars, cache, request, report, begun>>

\* Close, as a reader can notice it: the moment in which ready is cleared.
Closed ==
    /\ open /\ holder = None
    /\ open' = FALSE /\ ready' = FALSE /\ closer' = "closed"
    /\ UNCHANGED <<file, synced, syncer, ended, writing, reader, made, faults, logHistory>>

\* The steps of the log that a reader can notice: it does not see what is on the
\* disk and what is not, and a crash ends the service with all its memory.
LogStep ==
    \/ Open \/ AppendStep \/ Closed
    \/ \E r \in Readers : BadLine(r)

Next ==
    \/ LogStep /\ UNCHANGED statsVars
    \/ Tick
    \/ \E r \in Readers :
        \/ \E code \in Codes, asked \in Asked : Miss(r, code, asked)
        \/ CountLine(r) \/ Canceled(r) \/ FirstDone(r)
        \/ SecondScan(r) \/ DailyLine(r) \/ SecondDone(r) \/ SecondRefused(r) \/ Store(r)

Init == LogInit /\ StatsInit

Spec == Init /\ [][Next]_<<logVars, statsVars>>

-----------------------------------------------------------------------------
(* Properties *)

\* Every variable has a value of its kind; in particular nobody computes a
\* report on a log he is not reading, and the cache holds more than CacheMax
\* reports only while the ones that expired are those that expired since the
\* last was stored.
TypeOK ==
    /\ LogTypeOK
    /\ now \in 0..MaxTime /\ Len(lenAt) = now
    /\ begun \in 0..MaxReports
    /\ DOMAIN cache \subseteq Codes \X (1..90)
    /\ \A r \in Readers :
        /\ request[r].step \in {"none", "first", "second", "store"}
        /\ reader[r].goal \in {"first", "second"} => Asks(r, reader[r].goal)
        /\ report[r].pv \in 0..MaxRec /\ report[r].daily \in 0..MaxRec
    /\ Cardinality(DOMAIN cache) > CacheMax =>
        \A k, last \in DOMAIN cache : cache[k].exp >= cache[last].exp - TTL

LinesOf(code, n) == Cardinality({i \in 1..n : file[i].code = code})

\* Appends, a Close and other requests during its two scans: a report counts
\* each line of its code once, in a prefix of the log that has at least what
\* was in it when the report was begun, up to MaxRec; its days count no fewer
\* than its total, unless the log was closed between the scans (the error of
\* the second is ignored) and they are all 0.
ReportsCount ==
    \A k \in DOMAIN cache :
        LET v == cache[k] d == v.data IN
        /\ d.upTo \in d.least..MaxRec
        /\ d.pv = LinesOf(v.code, d.upTo)
        /\ IF d.cut THEN d.daily = 0 /\ ~ready
           ELSE d.dailyUpTo >= d.upTo /\ d.daily = LinesOf(v.code, d.dailyUpTo)

\* What the cache answers is for the code and the period of the question, and
\* counts every line that was in the log TTL, and the time its own scans took,
\* before the question, as far as a scan reads, whoever computed it.
AnswersFresh ==
    \A code \in Codes, asked \in Asked :
        LET key == Key(code, Normal(asked)) v == cache[key]
            sure == (now - TTL + 1) - ((v.exp - TTL) - v.data.began)
        IN  Fresh(key) =>
            /\ v.code = code /\ v.days = Normal(asked)
            /\ sure \in DOMAIN lenAt => v.data.upTo >= lenAt[sure]
=============================================================================
