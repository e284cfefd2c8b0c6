---------------------------- MODULE RateLimiter ----------------------------
(***************************************************************************)
(* RateLimiter of internal/rate/rate_service.go over the TokenBucket of    *)
(* pkg/ratelimit/tokenbucket.go: one bucket for all requests and one for   *)
(* each client address, of which PerIPMax are remembered.                  *)
(*                                                                         *)
(* Allow asks the global bucket, fetches the bucket of the address under   *)
(* the mutex and asks it after it has released the mutex, so a request may *)
(* hold a bucket that another has evicted.  Time is counted in ticks.      *)
(***************************************************************************)
EXTENDS Integers, FiniteSets, Functions

CONSTANTS
    IPs,         \* client addresses
    NoIP,        \* a request whose address is not known
    Callers,     \* goroutines that serve requests
    PerIPMax,    \* addresses that are remembered
    GlobalCap, GlobalPer,  \* burst of the global bucket, ticks for one token
    IPCap, IPPer,          \* burst of the bucket of an address, ticks for one token
    Second,      \* ticks in a second of lastHit
    MaxTime      \* bound: ticks

ASSUME LimiterOK ==
    /\ PerIPMax \in Nat \ {0}
    /\ GlobalCap \in Nat \ {0} /\ GlobalPer \in Nat \ {0}
    /\ IPCap \in Nat \ {0} /\ IPPer \in Nat \ {0}
    /\ Second \in Nat \ {0} /\ MaxTime \in Nat
    /\ NoIP \notin IPs

VARIABLES
    now,        \* the clock
    global,     \* the global bucket
    buckets,    \* the heap: buckets of addresses, by number
    perIP,      \* the table: address to [bucket, lastHit]
    pc,         \* where each request is
    ip,         \* its address
    hold,       \* the bucket it has fetched
    passed,     \* history: requests that each address's buckets let pass
    known,      \* history: addresses that have had a bucket
    evicted     \* history: addresses that have lost theirs

requests == <<pc, ip, hold>>
history == <<passed, known, evicted>>
vars == <<now, global, buckets, perIP, pc, ip, hold, passed, known, evicted>>

-----------------------------------------------------------------------------
(* TokenBucket.  ideal is history: the level, in ticks' worth, of a bucket that *)
(* is filled without rounding.                                                  *)

NewBucket(cap, per) ==
    [cap |-> cap, per |-> per, tokens |-> cap, last |-> now, ideal |-> cap * per]

Least(m, n) == IF m < n THEN m ELSE n

\* Mutant: what is left of the elapsed time is dropped.
SinceNow(b, add) == now
\* It is kept for the next refill.
Credited(b, add) == b.last + add * b.per

\* refillLocked
Refill(b) ==
    LET add == (now - b.last) \div b.per IN
    IF add <= 0 THEN b
    ELSE [b EXCEPT !.tokens = Least(b.cap, b.tokens + add), !.last = Credited(b, add)]

Has(b) == Refill(b).tokens >= 1
Taken(b) ==
    LET r == Refill(b) IN
    IF Has(b) THEN [r EXCEPT !.tokens = @ - 1, !.ideal = @ - b.per] ELSE r

Later(b) == [b EXCEPT !.ideal = Least(b.cap * b.per, @ + 1)]

-----------------------------------------------------------------------------

\* Buckets that are in the table or in the hands of a request; the others are
\* collected, and their numbers used again.
Ids == 1..(PerIPMax + Cardinality(Callers))
InUse == {perIP[a].bucket : a \in DOMAIN perIP} \cup {hold[p] : p \in Callers}

Init ==
    /\ now = 0
    /\ global = NewBucket(GlobalCap, GlobalPer)
    /\ buckets = [i \in {} |-> 0] /\ perIP = [a \in {} |-> 0]
    /\ pc = [p \in Callers |-> "idle"]
    /\ ip = [p \in Callers |-> NoIP] /\ hold = [p \in Callers |-> 0]
    /\ passed = [a \in IPs |-> 0] /\ known = {} /\ evicted = {}

Tick ==
    /\ now < MaxTime
    /\ now' = now + 1
    /\ global' = Later(global)
    /\ buckets' = [i \in DOMAIN buckets |-> Later(buckets[i])]
    /\ UNCHANGED <<perIP, requests, history>>

\* Allow: the global bucket.  Its token is spent whatever the address's bucket says.
AskGlobal(p, a) ==
    /\ pc[p] = "idle"
    /\ global' = Taken(global)
    /\ IF Has(global) /\ a # NoIP
       THEN pc' = [pc EXCEPT ![p] = "fetch"] /\ ip' = [ip EXCEPT ![p] = a]
       ELSE UNCHANGED <<pc, ip>>
    /\ UNCHANGED <<now, buckets, perIP, hold, history>>

\* Mutant: a bucket is made for every request.
NeverKnown(a) == FALSE
Known(a) == a \in DOMAIN perIP

\* Mutant: the table may hold one more.
OneTooMany == Cardinality(DOMAIN perIP) > PerIPMax
Full == Cardinality(DOMAIN perIP) >= PerIPMax

\* Those hit longest ago, in whole seconds; the loop over the map takes any of them.
Oldest == {a \in DOMAIN perIP : \A other \in DOMAIN perIP : perIP[a].lastHit <= perIP[other].lastHit}

Hit(i) == [bucket |-> i, lastHit |-> now \div Second]

\* acquireIPBucket: the bucket that the table has, ...
Fetch(p) ==
    LET a == ip[p] IN
    /\ pc[p] = "fetch" /\ Known(a)
    /\ perIP' = [perIP EXCEPT ![a] = Hit(perIP[a].bucket)]
    /\ hold' = [hold EXCEPT ![p] = perIP[a].bucket]
    /\ pc' = [pc EXCEPT ![p] = "ask"]
    /\ UNCHANGED <<now, global, buckets, ip, history>>

\* ... or a new one, for which a victim goes when the table is full.
FetchNew(p) ==
    LET a == ip[p] IN
    /\ pc[p] = "fetch" /\ ~Known(a)
    /\ \E gone \in IF Full THEN {{v} : v \in Oldest} ELSE {{}} :
       \E i \in Ids :
        /\ i \notin InUse /\ \A j \in Ids : j < i => j \in InUse
        /\ perIP' = [b \in (DOMAIN perIP \ gone) \cup {a} |-> IF b = a THEN Hit(i) ELSE perIP[b]]
        /\ buckets' = [j \in {perIP[b].bucket : b \in DOMAIN perIP \ gone}
                               \cup ({hold[q] : q \in Callers} \ {0}) \cup {i} |->
                          IF j = i THEN NewBucket(IPCap, IPPer) ELSE buckets[j]]
        /\ hold' = [hold EXCEPT ![p] = i]
        /\ evicted' = evicted \cup gone
    /\ known' = known \cup {a}
    /\ pc' = [pc EXCEPT ![p] = "ask"]
    /\ UNCHANGED <<now, global, ip, passed>>

\* The bucket of the address, evicted or not.
Ask(p) ==
    LET b == buckets[hold[p]] IN
    /\ pc[p] = "ask"
    /\ buckets' = [buckets EXCEPT ![hold[p]] = Taken(b)]
    /\ passed' = IF Has(b) THEN [passed EXCEPT ![ip[p]] = @ + 1] ELSE passed
    /\ pc' = [pc EXCEPT ![p] = "idle"]
    /\ ip' = [ip EXCEPT ![p] = NoIP] /\ hold' = [hold EXCEPT ![p] = 0]
    /\ UNCHANGED <<now, global, perIP, known, evicted>>

\* Stats, and the log of a refusal: Tokens refills.
Stats ==
    /\ global' = Refill(global)
    /\ UNCHANGED <<now, buckets, perIP, requests, history>>

Next ==
    \/ Tick \/ Stats
    \/ \E p \in Callers :
        \/ \E a \in IPs \cup {NoIP} : AskGlobal(p, a)
        \/ Fetch(p) \/ FetchNew(p) \/ Ask(p)

Spec == Init /\ [][Next]_vars

-----------------------------------------------------------------------------
(* Properties *)

Bucket == [cap : Nat, per : Nat, tokens : Nat, last : Nat, ideal : Int]

\* Every variable has a value of its kind; in particular the table holds at most
\* PerIPMax addresses, each with a bucket of its own, and every bucket at most
\* its burst.
TypeOK ==
    /\ now \in 0..MaxTime
    /\ global \in Bucket /\ Range(buckets) \subseteq Bucket
    /\ \A b \in {global} \cup Range(buckets) : b.tokens <= b.cap /\ b.last <= now
    /\ DOMAIN perIP \subseteq IPs /\ Cardinality(DOMAIN perIP) <= PerIPMax
    /\ \A a \in DOMAIN perIP : perIP[a].bucket \in DOMAIN buckets
    /\ \A a, c \in DOMAIN perIP : perIP[a].bucket = perIP[c].bucket => a = c
    /\ pc \in [Callers -> {"idle", "fetch", "ask"}]
    /\ ip \in [Callers -> IPs \cup {NoIP}]
    /\ hold \in [Callers -> DOMAIN buckets \cup {0}]
    /\ passed \in [IPs -> Nat] /\ known \subseteq IPs /\ evicted \subseteq known

\* What a bucket can give, in ticks' worth.
Level(b) == LET r == Refill(b) IN r.tokens * b.per + (now - r.last)

\* However requests, refusals and reads are spaced, rounding to whole tokens
\* neither loses credit nor gives away a token: the bucket is the ideal one, less
\* than one token above it.
NearIdeal ==
    \A b \in {global} \cup Range(buckets) : b.ideal <= Level(b) /\ Level(b) < b.ideal + b.per

\* An address that was not evicted passes no more requests than its burst and its
\* rate allow, whoever races for its bucket; and none is evicted before more
\* addresses have come than the table holds.
PerIPBudget ==
    /\ \A a \in IPs \ evicted : passed[a] <= IPCap + now \div IPPer
    /\ evicted # {} => Cardinality(known) > PerIPMax
=============================================================================
