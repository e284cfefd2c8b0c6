------------------------------ MODULE Resolver ------------------------------
(***************************************************************************)
(* Resolver of internal/resolver/resolver.go: a bloom filter, an LRU cache *)
(* and a singleflight group in front of the URL store.                     *)
(*                                                                         *)
(* Each of the four is safe by itself; Resolve goes through them one after *)
(* the other and holds no lock across.  Owners change the store and then   *)
(* tell the resolver, as the comments of ObserveCreated and                *)
(* ObserveInvalidated ask of them.  A record is a version number: each     *)
(* creation makes a new one, and 0 is no record.                           *)
(***************************************************************************)
EXTENDS Naturals, Sequences, SequencesExt, Functions, FiniteSets

CONSTANTS
    Codes,       \* short codes
    Callers,     \* goroutines that call Resolve
    Owners,      \* goroutines that create and delete links
    Warmer,      \* the goroutine that runs New, and later Warm
    Cap,         \* capacity of the LRU
    Locations,   \* the bits that the bloom filter sets for each code
    MaxMade,     \* bound: versions made
    MaxWarms     \* bound: calls of Warm

Nobody == "nobody"

ASSUME ResolverOK ==
    /\ Cap \in Nat \ {0} /\ MaxMade \in Nat /\ MaxWarms \in Nat
    /\ IsFiniteSet(Codes) /\ Codes # {}
    /\ DOMAIN Locations = Codes /\ \A c \in Codes : Locations[c] # {}
    /\ Warmer \notin Owners /\ Nobody \notin Callers

VARIABLES
    store,     \* the version of each code in the URL store
    made,      \* versions made so far
    bloom,     \* bits that are set
    cache,     \* entries of the LRU, most recently used first
    flight,    \* g.m: the caller that leads the call for a code, or Nobody
    pc,        \* where each caller is
    arg,       \* the code it resolves
    leader,    \* the caller whose call it waits for
    val,       \* what its own call has got from the store
    stage,     \* where each owner and the warmer is
    todo,      \* what it has still to tell: a sequence of [code, ver, keep]
    booted,    \* New has returned
    warms,     \* calls of Warm so far
    live,      \* history: versions whose deletion the resolver has not been told
    seen,      \* history: what each active caller may return
    stale,     \* history: codes answered otherwise, and not raced
    raced      \* history: codes observed while somebody had an older answer

told == <<stage, todo, booted, warms>>
callers == <<flight, pc, arg, leader, val>>
vars == <<store, made, bloom, cache, flight, pc, arg, leader, val, stage, todo, booted,
          warms, live, seen, stale, raced>>

Publishers == Owners \cup {Warmer}
Versions == 1..MaxMade

\* ListCodes: all codes that the store has, newest first.
Stored == {c \in Codes : store[c] # 0}
Listings ==
    {list \in [1..Cardinality(Stored) -> Stored] :
        /\ Range(list) = Stored
        /\ \A i, j \in DOMAIN list : i < j => store[list[i]] > store[list[j]]}

\* What is done with a listing; the first Cap of its codes go to the cache.
Snapshot(list) == [i \in DOMAIN list |-> [code |-> list[i], ver |-> store[list[i]], keep |-> i <= Cap]]

SomeCode == CHOOSE c \in Codes : TRUE

\* The server starts on what the file holds, and New warms up.
Init ==
    /\ store \in [Codes -> 0..MaxMade] /\ made = Cardinality(Stored)
    /\ {store[c] : c \in Stored} = 1..made
    /\ bloom = {} /\ cache = <<>>
    /\ flight = [c \in Codes |-> Nobody]
    /\ pc = [p \in Callers |-> "idle"]
    /\ arg = [p \in Callers |-> SomeCode]
    /\ leader = [p \in Callers |-> Nobody]
    /\ val = [p \in Callers |-> 0]
    /\ \E list \in Listings : todo = [q \in Publishers |-> IF q = Warmer THEN Snapshot(list) ELSE <<>>]
    /\ stage = [q \in Publishers |-> IF q = Warmer THEN "bits" ELSE "idle"]
    /\ booted = FALSE /\ warms = 0
    /\ live = [c \in Codes |-> {store[c]} \ {0}]
    /\ seen = [p \in Callers |-> {}]
    /\ stale = {} /\ raced = {}

-----------------------------------------------------------------------------
(* Bloom filter and LRU *)

MayContain(c) == Locations[c] \subseteq bloom

\* Mutant: Add sets the first of the bits only.
OneBit(c) == {CHOOSE b \in Locations[c] : TRUE}
Added(c) == Locations[c]

Entries == Range(cache)
Cached(c) == \E e \in Entries : e.code = c
Place(c) == CHOOSE i \in DOMAIN cache : cache[i].code = c
Entry(c) == cache[Place(c)]
Without(c) == IF Cached(c) THEN RemoveAt(cache, Place(c)) ELSE cache

\* Mutant: Set does not evict.
Unbounded(s) == s
Evicted(s) == SubSeq(s, 1, IF Len(s) > Cap THEN Cap ELSE Len(s))

Put(c, v) == Evicted(<<[code |-> c, ver |-> v, expired |-> FALSE]>> \o Without(c))

\* expireAt of an entry passes.
Expire(c) ==
    /\ Cached(c) /\ ~Entry(c).expired
    /\ cache' = [i \in DOMAIN cache |->
                    IF cache[i].code = c THEN [cache[i] EXCEPT !.expired = TRUE] ELSE cache[i]]
    /\ UNCHANGED <<store, made, bloom, callers, told, live, seen, stale, raced>>

-----------------------------------------------------------------------------
(* Resolve *)

Goto(p, label) == pc' = [pc EXCEPT ![p] = label]

\* No version is there, or the one that is has not been announced to its end.
Unannounced(c) ==
    \/ store[c] = 0
    \/ \E q \in Owners : stage[q] \in {"bits", "set"} /\ Head(todo[q]).code = c

\* What a Resolve may return at this moment.
Current(c) == live[c] \cup (IF Unannounced(c) THEN {0} ELSE {})

\* Those of ps return v: they are as they were, and the answer is judged.
Answer(ps, v) ==
    /\ stale' = stale \cup {arg[p] : p \in {r \in ps : v \notin seen[r] /\ arg[r] \notin raced}}
    /\ pc' = [p \in Callers |-> IF p \in ps THEN "idle" ELSE pc[p]]
    /\ arg' = [p \in Callers |-> IF p \in ps THEN SomeCode ELSE arg[p]]
    /\ leader' = [p \in Callers |-> IF p \in ps THEN Nobody ELSE leader[p]]
    /\ val' = [p \in Callers |-> IF p \in ps THEN 0 ELSE val[p]]
    /\ seen' = [p \in Callers |-> IF p \in ps THEN {} ELSE seen[p]]

\* Resolve begins, and asks the bloom filter.
Begin(p, c) ==
    /\ booted /\ pc[p] = "idle" /\ MayContain(c)
    /\ arg' = [arg EXCEPT ![p] = c]
    /\ seen' = [seen EXCEPT ![p] = Current(c)]
    /\ Goto(p, "lookup")
    /\ UNCHANGED <<store, made, bloom, cache, flight, leader, val, told, live, stale, raced>>

\* Resolve begins and ends: the filter says that the code is not there.
Deny(c) ==
    /\ booted /\ ~MayContain(c)
    /\ stale' = IF 0 \in Current(c) THEN stale ELSE stale \cup {c}
    /\ UNCHANGED <<store, made, bloom, cache, callers, told, live, seen, raced>>

\* cache.Get: a hit is returned and moved to the front, an expired entry removed.
Lookup(p) ==
    LET c == arg[p] IN
    /\ pc[p] = "lookup"
    /\ IF Cached(c) /\ ~Entry(c).expired
       THEN cache' = <<Entry(c)>> \o Without(c) /\ Answer({p}, Entry(c).ver)
       ELSE /\ cache' = Without(c)
            /\ Goto(p, "join")
            /\ UNCHANGED <<arg, leader, val, seen, stale>>
    /\ UNCHANGED <<store, made, bloom, flight, told, live, raced>>

\* Mutant: a call in flight is not joined.
NeverJoins(c) == FALSE
InFlight(c) == flight[c] # Nobody

\* singleflight.Do: wait for the call in flight, or start one.
Join(p) ==
    LET c == arg[p] IN
    /\ pc[p] = "join"
    /\ IF InFlight(c)
       THEN Goto(p, "wait") /\ leader' = [leader EXCEPT ![p] = flight[c]] /\ UNCHANGED flight
       ELSE Goto(p, "fetch") /\ flight' = [flight EXCEPT ![c] = p] /\ UNCHANGED leader
    /\ UNCHANGED <<store, made, bloom, cache, arg, val, told, live, seen, stale, raced>>

\* store.Get
Fetch(p) ==
    /\ pc[p] = "fetch"
    /\ val' = [val EXCEPT ![p] = store[arg[p]]]
    /\ Goto(p, IF store[arg[p]] = 0 THEN "leave" ELSE "fill")
    /\ UNCHANGED <<store, made, bloom, cache, flight, arg, leader, told, live, seen, stale, raced>>

\* cache.Set, of what Fetch got earlier
Fill(p) ==
    /\ pc[p] = "fill"
    /\ cache' = Put(arg[p], val[p])
    /\ Goto(p, "leave")
    /\ UNCHANGED <<store, made, bloom, flight, arg, leader, val, told, live, seen, stale, raced>>

Removed(p) == IF flight[arg[p]] = p THEN [flight EXCEPT ![arg[p]] = Nobody] ELSE flight

\* doCall takes the call out of the map ...
Leave(p) ==
    /\ pc[p] = "leave"
    /\ flight' = Removed(p)
    /\ Goto(p, "done")
    /\ UNCHANGED <<store, made, bloom, cache, arg, leader, val, told, live, seen, stale, raced>>

\* ... and then wakes those that wait for it.
Sharing(p) == {p} \cup {r \in Callers : pc[r] = "wait" /\ leader[r] = p}

Done(p) ==
    /\ pc[p] = "done"
    /\ Answer(Sharing(p), val[p])
    /\ UNCHANGED <<store, made, bloom, cache, flight, told, live, raced>>

-----------------------------------------------------------------------------
(* Owners and the warmer *)

\* A call for c has asked the store and has not returned yet.
Answered(c) == \E p \in Callers : pc[p] \in {"fill", "leave", "done"} /\ arg[p] = c
\* Somebody else is about to put c into the cache.
Publishing(c, but) ==
    \E q \in Publishers \ {but} :
        stage[q] \in {"bits", "set"} /\ \E i \in DOMAIN todo[q] : todo[q][i].code = c

Active(p) == pc[p] # "idle"
MayReturn(c, v) ==
    seen' = [p \in Callers |-> IF Active(p) /\ arg[p] = c THEN seen[p] \cup {v} ELSE seen[p]]

Tell(q, label, c, v) ==
    /\ stage' = [stage EXCEPT ![q] = label]
    /\ todo' = [todo EXCEPT ![q] = <<[code |-> c, ver |-> v, keep |-> TRUE]>>]

\* store.Save of a new link
Create(q, c) ==
    /\ booted /\ stage[q] = "idle" /\ store[c] = 0 /\ made < MaxMade
    /\ made' = made + 1
    /\ store' = [store EXCEPT ![c] = made + 1]
    /\ live' = [live EXCEPT ![c] = @ \cup {made + 1}]
    /\ MayReturn(c, made + 1)
    /\ Tell(q, "bits", c, made + 1)
    /\ UNCHANGED <<bloom, cache, callers, booted, warms, stale, raced>>

\* store.Delete
Delete(q, c) ==
    /\ booted /\ stage[q] = "idle" /\ store[c] # 0
    /\ store' = [store EXCEPT ![c] = 0]
    /\ MayReturn(c, 0)
    /\ Tell(q, "withdraw", c, store[c])
    /\ UNCHANGED <<made, bloom, cache, callers, booted, warms, live, stale, raced>>

\* ObserveCreated, and each turn of warmOnce: the bloom filter first ...
PublishBits(q) ==
    /\ stage[q] = "bits" /\ todo[q] # <<>>
    /\ bloom' = bloom \cup Added(Head(todo[q]).code)
    /\ stage' = [stage EXCEPT ![q] = "set"]
    /\ UNCHANGED <<store, made, cache, callers, todo, booted, warms, live, seen, stale, raced>>

\* ... then the cache.
PublishSet(q) ==
    LET item == Head(todo[q]) IN
    /\ stage[q] = "set"
    /\ cache' = IF item.keep THEN Put(item.code, item.ver) ELSE cache
    /\ todo' = [todo EXCEPT ![q] = Tail(@)]
    /\ stage' = [stage EXCEPT ![q] = IF q = Warmer THEN "bits" ELSE "idle"]
    /\ raced' = IF Answered(item.code) THEN raced \cup {item.code} ELSE raced
    /\ UNCHANGED <<store, made, bloom, callers, booted, warms, live, seen, stale>>

\* Mutant: the entry stays in the cache.
StaysCached(c) == cache
Invalidated(c) == Without(c)

\* ObserveInvalidated
Withdraw(q) ==
    LET item == Head(todo[q]) IN
    /\ stage[q] = "withdraw"
    /\ cache' = Invalidated(item.code)
    /\ live' = [live EXCEPT ![item.code] = @ \ {item.ver}]
    /\ raced' = IF Answered(item.code) \/ Publishing(item.code, q)
                THEN raced \cup {item.code} ELSE raced
    /\ stage' = [stage EXCEPT ![q] = "idle"] /\ todo' = [todo EXCEPT ![q] = <<>>]
    /\ UNCHANGED <<store, made, bloom, callers, booted, warms, seen, stale>>

\* warmOnce has gone through the list.
Warmed ==
    /\ stage[Warmer] = "bits" /\ todo[Warmer] = <<>>
    /\ booted' = TRUE
    /\ stage' = [stage EXCEPT ![Warmer] = "idle"]
    /\ UNCHANGED <<store, made, bloom, cache, callers, todo, warms, live, seen, stale, raced>>

\* Warm, while the resolver is in use.
Warm ==
    /\ stage[Warmer] = "idle" /\ warms < MaxWarms
    /\ warms' = warms + 1
    /\ stage' = [stage EXCEPT ![Warmer] = "bits"]
    /\ \E list \in Listings : todo' = [todo EXCEPT ![Warmer] = Snapshot(list)]
    /\ UNCHANGED <<store, made, bloom, cache, callers, booted, live, seen, stale, raced>>

Next ==
    \/ \E c \in Codes : Expire(c) \/ Deny(c)
    \/ \E p \in Callers :
        \/ \E c \in Codes : Begin(p, c)
        \/ Lookup(p) \/ Join(p) \/ Fetch(p) \/ Fill(p) \/ Leave(p) \/ Done(p)
    \/ \E q \in Owners : Withdraw(q) \/ \E c \in Codes : Create(q, c) \/ Delete(q, c)
    \/ \E q \in Publishers : PublishBits(q) \/ PublishSet(q)
    \/ Warmed \/ Warm

Spec == Init /\ [][Next]_vars

-----------------------------------------------------------------------------
(* Properties *)

\* Every variable has a value of its kind; in particular the cache holds at most
\* Cap entries, one for each code.
TypeOK ==
    /\ store \in [Codes -> 0..MaxMade] /\ made \in 0..MaxMade
    /\ bloom \subseteq UNION Range(Locations)
    /\ Entries \subseteq [code : Codes, ver : Versions, expired : BOOLEAN]
    /\ Len(cache) <= Cap
    /\ \A i, j \in DOMAIN cache : cache[i].code = cache[j].code => i = j
    /\ flight \in [Codes -> Callers \cup {Nobody}]
    /\ pc \in [Callers -> {"idle", "lookup", "join", "wait", "fetch", "fill", "leave", "done"}]
    /\ arg \in [Callers -> Codes]
    /\ leader \in [Callers -> Callers \cup {Nobody}]
    /\ val \in [Callers -> 0..MaxMade]
    /\ stage \in [Publishers -> {"idle", "bits", "set", "withdraw"}]
    /\ \A q \in Publishers :
        todo[q] \in Seq([code : Codes, ver : Versions, keep : BOOLEAN])
    /\ booted \in BOOLEAN /\ warms \in 0..MaxWarms
    /\ live \in [Codes -> SUBSET Versions]
    /\ seen \in [Callers -> SUBSET (0..MaxMade)]
    /\ stale \subseteq Codes /\ raced \subseteq Codes

\* The filter never denies a link that exists and whose ObserveCreated has
\* returned, or that the store had at start: by the promise of MayContain
\* ("false: absolutely not there") Resolve then asks no further.
BloomComplete == \A c \in Codes : booted /\ ~Unannounced(c) => MayContain(c)

\* The cache holds no version that the store has dropped, except until the
\* ObserveInvalidated of that code, or when that call overtook a fill, an
\* ObserveCreated or a warm-up which had got the version before.
CacheFresh ==
    \A e \in Entries :
        \/ e.ver = store[e.code]
        \/ e.code \in raced
        \/ \E q \in Owners : stage[q] = "withdraw" /\ Head(todo[q]).code = e.code

\* Part of the next: at most one call per code asks the store at a time, it is
\* the one in the map, and whoever waits, waits for a call that has not ended, of
\* its own code.
OneFlight ==
    /\ \A c \in Codes :
        {p \in Callers : pc[p] \in {"fetch", "fill", "leave"} /\ arg[p] = c}
            = {flight[c]} \ {Nobody}
    /\ \A p \in Callers : pc[p] = "wait" =>
        /\ leader[p] # Nobody /\ arg[leader[p]] = arg[p]
        /\ pc[leader[p]] \in {"fetch", "fill", "leave", "done"}

\* A Resolve returns what the code had at some moment since it was called, where
\* a deletion counts from its ObserveInvalidated and a creation until its
\* ObserveCreated; a call in flight that a later Resolve joins may be older than
\* that, and is the exception that raced records.  It joins the one call there is.
ResultFresh == OneFlight /\ stale = {}
=============================================================================
