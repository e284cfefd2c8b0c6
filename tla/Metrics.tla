------------------------------ MODULE Metrics ------------------------------
(***************************************************************************)
(* Registry of internal/metrics/registry.go and the /metrics answer of     *)
(* internal/metrics/metrics_service.go: metrics found or created under a   *)
(* key, added to by many goroutines while others take snapshots or reset.  *)
(*                                                                         *)
(* A gauge is found and read as a counter is; both are kind "counter"      *)
(* here.  A histogram has two mutexes, and each of its methods takes one   *)
(* after the other.  Minimum, maximum, mean and deviation are left out.    *)
(* A snapshot and a reset hold the read lock of the registry throughout:   *)
(* metrics are found meanwhile, but none is created.                       *)
(***************************************************************************)
EXTENDS Integers, Sequences, SequencesExt, FiniteSets, FiniteSetsExt, Functions

CONSTANTS
    Users,      \* goroutines
    Labelled,   \* <<name, labels>> they ask for, each a sequence
    Kinds,      \* kinds of metric they use, of "counter" and "histogram"
    Bounds,     \* the bounds a histogram is given
    Inf,        \* infinity: the bound of its last bucket
    Values,     \* milliseconds that are observed
    RecentCap,  \* recentCap
    MaxObserved, \* bound: samples and increments
    MaxVisits   \* bound: snapshots and resets

ASSUME MetricsConstantsOK ==
    /\ Kinds \subseteq {"counter", "histogram"} /\ Bounds \subseteq Int /\ Values \subseteq Nat
    /\ Inf \in Nat /\ \A x \in Bounds \cup Values \cup {1} : x < Inf
    /\ IsFiniteSet(Users)
    /\ RecentCap \in Nat \ {0} /\ MaxObserved \in Nat /\ MaxVisits \in Nat

VARIABLES
    metric,    \* the metrics that were made, in order
    registry,  \* the metric under each key
    user,      \* what each goroutine does, for which key, with which metric
    visiting,  \* the keys a snapshot or reset has yet to visit
    report,    \* what a snapshot has read so far
    lastN,     \* lastN
    answer,    \* the metrics in the last answer each goroutine got
    observed,  \* samples and increments so far
    visits,    \* snapshots and resets so far
    credit,    \* history: how often each amount was added under each key since its reset
    raced      \* history: histograms that were reset beside an observation

metricsVars == <<metric, registry, user, visiting, report, lastN,
                 answer, observed, visits, credit, raced>>

\* Two series whose keys agree share a metric.
makeKey(series) == IF series[2] = <<>> THEN series[1] ELSE series[1] \o <<"|">> \o series[2]
Keys == {<<kind, makeKey(series)>> : kind \in Kinds, series \in Labelled}
KindOf(i) == metric[i].kind

\* NewHistogram: the buckets have the bounds that are positive, each once.
Places == {b \in Bounds : b > 0} \cup {Inf}
NewMetric(kind) == [kind |-> kind, total |-> 0, sum |-> 0, counts |-> [b \in Places |-> 0], recent |-> <<>>]

Amounts == Values \cup {1}
NoCredit == [v \in Amounts |-> 0]
NoMetrics == [k \in {} |-> 0]
Idle == [does |-> "nothing", key |-> <<>>, of |-> 0, ms |-> 0]

MetricsInit ==
    /\ metric = <<>> /\ registry = NoMetrics
    /\ user = [u \in Users |-> Idle]
    /\ visiting = [u \in Users |-> {}] /\ report = [u \in Users |-> NoMetrics]
    /\ lastN = 0 /\ answer = [u \in Users |-> NoMetrics]
    /\ observed = 0 /\ visits = 0
    /\ credit = [k \in Keys |-> NoCredit] /\ raced = {}

Becomes(u, fields) == user' = [user EXCEPT ![u] = fields]
ReadLocked == \E u \in Users : user[u].does \in {"snapshot", "quantiles", "reset", "forget"}

-----------------------------------------------------------------------------
(* GetOrCreateCounter, GetOrCreateGauge and GetOrCreateHistogram *)

\* The lookup under the read lock; what is found is kept by the caller.
Find(u, key) ==
    /\ user[u].does = "nothing"
    /\ Becomes(u, IF key \in DOMAIN registry
                  THEN [Idle EXCEPT !.does = "has", !.key = key, !.of = registry[key]]
                  ELSE [Idle EXCEPT !.does = "missed", !.key = key])
    /\ UNCHANGED <<metric, registry, visiting, report, lastN, answer, observed, visits, credit, raced>>

\* Mutant: what the lookup found, or did not, is believed.
FirstLook(key) == FALSE
SecondLook(key) == key \in DOMAIN registry

\* Under the write lock, after a second look.
CreateMetric(u) ==
    LET key == user[u].key IN
    /\ user[u].does = "missed" /\ ~ReadLocked
    /\ IF SecondLook(key)
       THEN /\ Becomes(u, [user[u] EXCEPT !.does = "has", !.of = registry[key]])
            /\ UNCHANGED <<metric, registry>>
       ELSE /\ metric' = Append(metric, NewMetric(key[1]))
            /\ registry' = [k \in DOMAIN registry \cup {key} |-> IF k = key THEN Len(metric') ELSE registry[k]]
            /\ Becomes(u, [user[u] EXCEPT !.does = "has", !.of = Len(metric')])
    /\ UNCHANGED <<visiting, report, lastN, answer, observed, visits, credit, raced>>

-----------------------------------------------------------------------------
(* Inc and ObserveMs *)

Credited(key, ms) == credit' = [credit EXCEPT ![key][ms] = @ + 1]

Inc(u) ==
    /\ user[u].does = "has" /\ KindOf(user[u].of) = "counter" /\ observed < MaxObserved
    /\ metric' = [metric EXCEPT ![user[u].of].total = @ + 1]
    /\ Credited(user[u].key, 1)
    /\ Becomes(u, Idle)
    /\ observed' = observed + 1
    /\ UNCHANGED <<registry, visiting, report, lastN, answer, visits, raced>>

\* The first bucket whose bound is not below ms.
BucketOf(ms) == Min({b \in Places : ms <= b})

\* ObserveMs: the histogram under mu ...
Observe(u, ms) ==
    /\ user[u].does = "has" /\ KindOf(user[u].of) = "histogram" /\ observed < MaxObserved
    /\ metric' = [metric EXCEPT ![user[u].of] =
            [metric[user[u].of] EXCEPT !.total = @ + 1, !.sum = @ + ms, !.counts[BucketOf(ms)] = @ + 1]]
    /\ Credited(user[u].key, ms)
    /\ Becomes(u, [user[u] EXCEPT !.does = "observed", !.ms = ms])
    /\ raced' = IF \E v \in Users : user[v].does = "forget" /\ user[v].of = user[u].of
                THEN raced \cup {user[u].of} ELSE raced
    /\ observed' = observed + 1
    /\ UNCHANGED <<registry, visiting, report, lastN, answer, visits>>

\* ... and the recent samples under recentMu.
Recall(u) ==
    /\ user[u].does = "observed"
    /\ metric' = [metric EXCEPT ![user[u].of].recent =
                    Append(IF Len(@) < RecentCap THEN @ ELSE Tail(@), user[u].ms)]
    /\ Becomes(u, Idle)
    /\ UNCHANGED <<registry, visiting, report, lastN, answer, observed, visits, credit, raced>>

-----------------------------------------------------------------------------
(* Snapshot and ResetAll: the read lock, then one metric after the other *)

Visit(u, purpose) ==
    /\ user[u].does = "nothing" /\ visits < MaxVisits
    /\ Becomes(u, [Idle EXCEPT !.does = purpose])
    /\ visiting' = [visiting EXCEPT ![u] = DOMAIN registry]
    /\ report' = [report EXCEPT ![u] = NoMetrics]
    /\ visits' = visits + 1
    /\ UNCHANGED <<metric, registry, lastN, answer, observed, credit, raced>>

Visited(u, key) == visiting' = [visiting EXCEPT ![u] = @ \ {key}]
Noted(u, key, value) ==
    report' = [report EXCEPT ![u] = [k \in DOMAIN @ \cup {key} |-> IF k = key THEN value ELSE @[k]]]

\* A counter is read at once, a histogram under mu ...
ReadMetric(u, key) ==
    LET i == registry[key] IN
    /\ user[u].does = "snapshot" /\ key \in visiting[u]
    /\ Noted(u, key, [total |-> metric[i].total, counts |-> metric[i].counts, quantiles |-> <<>>])
    /\ Visited(u, key)
    /\ user' = IF KindOf(i) = "counter" THEN user
               ELSE [user EXCEPT ![u].does = "quantiles", ![u].key = key, ![u].of = i]
    /\ UNCHANGED <<metric, registry, lastN, answer, observed, visits, credit, raced>>

\* The n-th sample in order, and the one at share p (in percent), rounded half up.
NotAbove(samples, v) == Cardinality({i \in DOMAIN samples : samples[i] <= v})
Nth(samples, n) == Min({v \in Range(samples) : NotAbove(samples, v) >= n})
Quantile(samples, p) == Nth(samples, (2 * p * (Len(samples) - 1) + 100) \div 200 + 1)
Quantiles(samples) ==
    IF samples = <<>> THEN <<0, 0, 0>>
    ELSE <<Quantile(samples, 50), Quantile(samples, 90), Quantile(samples, 99)>>

\* ... and its quantiles under recentMu.
ReadQuantiles(u) ==
    /\ user[u].does = "quantiles"
    /\ Noted(u, user[u].key, [report[u][user[u].key] EXCEPT !.quantiles = Quantiles(metric[user[u].of].recent)])
    /\ Becomes(u, [Idle EXCEPT !.does = "snapshot"])
    /\ UNCHANGED <<metric, registry, visiting, lastN, answer, observed, visits, credit, raced>>

\* A counter is set to zero, a histogram emptied under mu ...
ResetMetric(u, key) ==
    LET i == registry[key] IN
    /\ user[u].does = "reset" /\ key \in visiting[u]
    /\ metric' = [metric EXCEPT ![i] = [NewMetric(metric[i].kind) EXCEPT !.recent = metric[i].recent]]
    /\ credit' = [credit EXCEPT ![key] = NoCredit]
    /\ Visited(u, key)
    /\ user' = IF KindOf(i) = "counter" THEN user ELSE [user EXCEPT ![u].does = "forget", ![u].of = i]
    /\ raced' = IF \E v \in Users : user[v].does = "observed" /\ user[v].of = i THEN raced \cup {i} ELSE raced
    /\ UNCHANGED <<registry, report, lastN, answer, observed, visits>>

\* ... and its recent samples under recentMu.
Forget(u) ==
    /\ user[u].does = "forget"
    /\ metric' = [metric EXCEPT ![user[u].of].recent = <<>>]
    /\ Becomes(u, [Idle EXCEPT !.does = "reset"])
    /\ UNCHANGED <<registry, visiting, report, lastN, answer, observed, visits, credit, raced>>

ResetEnds(u) ==
    /\ user[u].does = "reset" /\ visiting[u] = {}
    /\ Becomes(u, Idle)
    /\ UNCHANGED <<metric, registry, visiting, report, lastN, answer, observed, visits, credit, raced>>

-----------------------------------------------------------------------------
(* ServeHTTP *)

\* The _bucket lines: each counts the samples up to its bound, the last all.
UpTo(f, b) == MapThenSumSet(LAMBDA x : f[x], {x \in DOMAIN f : x <= b})
Cumulative(counts) == [b \in Places |-> UpTo(counts, b)]

\* The text format.  (A histogram that was never observed is written as well.)
AnswerText(u) ==
    /\ user[u].does = "snapshot" /\ visiting[u] = {}
    /\ answer' = [answer EXCEPT ![u] =
            [k \in DOMAIN report[u] |-> [report[u][k] EXCEPT !.counts = Cumulative(@)]]]
    /\ Becomes(u, Idle)
    /\ UNCHANGED <<metric, registry, visiting, report, lastN, observed, visits, credit, raced>>

\* The JSON format: JSONSnapshot reports an error although it succeeded, so the
\* answer is 500 and has no metrics in it.
AnswerJSON(u) ==
    /\ user[u].does = "snapshot" /\ visiting[u] = {}
    /\ lastN' = Cardinality(DOMAIN report[u])
    /\ answer' = [answer EXCEPT ![u] = NoMetrics]
    /\ Becomes(u, Idle)
    /\ UNCHANGED <<metric, registry, visiting, report, observed, visits, credit, raced>>

MetricsNext ==
    \E u \in Users :
        \/ \E key \in Keys : Find(u, key)
        \/ CreateMetric(u) \/ Inc(u) \/ Recall(u)
        \/ \E ms \in Values : Observe(u, ms)
        \/ \E purpose \in {"snapshot", "reset"} : Visit(u, purpose)
        \/ \E key \in visiting[u] : ReadMetric(u, key) \/ ResetMetric(u, key)
        \/ ReadQuantiles(u) \/ Forget(u) \/ ResetEnds(u) \/ AnswerText(u) \/ AnswerJSON(u)

-----------------------------------------------------------------------------

Between(does, i) == {u \in Users : user[u].does = does /\ user[u].of = i}

MetricsTypeOK ==
    /\ DOMAIN registry \subseteq Keys /\ IsInjective(registry)
    /\ \A k \in DOMAIN registry : registry[k] \in DOMAIN metric /\ KindOf(registry[k]) = k[1]
    /\ \A i \in DOMAIN metric : Len(metric[i].recent) <= RecentCap
    /\ \A u \in Users : visiting[u] \cup DOMAIN report[u] \subseteq DOMAIN registry
    /\ lastN \in 0..Len(metric) /\ observed \in 0..MaxObserved /\ visits \in 0..MaxVisits

\* Goroutines that find, create, add, reset and read at once: a key never gets a
\* second metric, and nothing added under it is lost, until its reset; a
\* histogram counts each sample in one bucket, and keeps the recent ones but for
\* those on their way, unless a reset ran beside an observation; a text answer
\* gives for each histogram buckets that grow to its count, and quantiles in
\* order.
MetricsAddUp ==
    /\ Len(metric) = Cardinality(DOMAIN registry)
    /\ \A k \in DOMAIN registry :
        LET h == metric[registry[k]] added == credit[k] IN
        /\ h.total = UpTo(added, Inf)
        /\ KindOf(registry[k]) = "histogram" =>
            /\ h.sum = UpTo([ms \in Amounts |-> ms * added[ms]], Inf)
            /\ \A b \in Places : UpTo(h.counts, b) = UpTo(added, b)
            /\ registry[k] \notin raced /\ Between("forget", registry[k]) = {} =>
                Len(h.recent) = Min({RecentCap, h.total - Cardinality(Between("observed", registry[k]))})
    /\ \A u \in Users : \A k \in DOMAIN answer[u] :
        LET h == answer[u][k] IN
        k[1] = "histogram" =>
            /\ h.counts[Inf] = h.total /\ \A b, c \in Places : b <= c => h.counts[b] <= h.counts[c]
            /\ h.quantiles[1] <= h.quantiles[2] /\ h.quantiles[2] <= h.quantiles[3]
=============================================================================
