------------------------------- MODULE Links -------------------------------
(***************************************************************************)
(* The life of a short link: URLService.Create, Disable, UpdateRemark and  *)
(* Delete, RedirectService.HandleRedirect, and the sweeps of the janitor,  *)
(* over the map of internal/store/url_store.go.                            *)
(*                                                                         *)
(* The map holds pointers.  Get hands the pointer out, Save installs a     *)
(* clone of what its caller points to, IncrementVisits changes the record  *)
(* in place, and Disable and the janitor set a field through the pointer   *)
(* with no lock.  The model therefore keeps a heap of records, and each    *)
(* request is a sequence of steps that others interleave with: one per     *)
(* critical section, and one per access outside of them.                   *)
(*                                                                         *)
(* The write lock is explicit because IncrementVisits unlocks it twice     *)
(* when the count is a multiple of 100: the second Unlock may release      *)
(* somebody else's lock, and ends the process when nobody holds it.        *)
(*                                                                         *)
(* What the store does with the file is in module URLStore.                *)
(***************************************************************************)
EXTENDS Naturals, FiniteSets

CONSTANTS
    Codes,        \* the short codes
    Creators,     \* requests POST /api/urls
    Redirectors,  \* requests GET /{code}
    Updaters,     \* requests PATCH /api/urls/{code}
    Deleters,     \* requests DELETE /api/urls/{code}
    Janitor,      \* the goroutine of JanitorService.Start
    None,         \* no record
    Objs,         \* addresses of records: a set of numbers
    Limit,        \* MaxVisits of a link that has a limit
    Retries,      \* ShortCode.MaxRetries
    Batch,        \* Janitor.Batch
    UnlockEvery,  \* the 100 of IncrementVisits
    MaxLinks,     \* bound: links created
    MaxMade       \* bound: visits of one link

Requests == Creators \cup Redirectors \cup Updaters \cup Deleters
Procs == Requests \cup {Janitor}
LinkIds == 1..MaxLinks

ASSUME RolesDistinct ==
    /\ Creators \cap (Redirectors \cup Updaters \cup Deleters) = {}
    /\ Redirectors \cap (Updaters \cup Deleters) = {}
    /\ Updaters \cap Deleters = {}
    /\ Janitor \notin Requests
    /\ None \notin Objs

ASSUME SomeCode == Codes # {}

ASSUME NumbersOK ==
    /\ Objs \subseteq Nat
    /\ {Limit, Retries, Batch, UnlockEvery} \subseteq Nat \ {0}
    /\ MaxLinks \in Nat /\ MaxMade \in Nat

VARIABLES
    rec,     \* the heap: the record at each address
    urls,    \* the map: an address for each code, or None
    locked,  \* the write lock is held
    alive,   \* the process has not been ended by an Unlock of a free lock
    late,    \* the links that expire have expired
    pc,      \* where a request, or the janitor, is
    code,    \* the code its request is about
    ptr,     \* the pointer it works on
    left,    \* attempts of generateUnique that are left
    ontime,  \* its Timestamp was taken before the expiry
    cands,   \* what the janitor has still to disable
    links,   \* links created so far
    gone,    \* history: links whose Delete has succeeded
    stopped, \* history: links whose disabling has been saved
    made,    \* history: how often each link was visited
    served,  \* history: how often each link was answered by 302
    raced    \* history: a Save has put back a copy of a record that the map
             \* no longer held

locals == <<pc, code, ptr, left, ontime, cands>>
history == <<links, gone, stopped, made, served, raced>>
vars == <<rec, urls, locked, alive, late, pc, code, ptr, left, ontime, cands,
          links, gone, stopped, made, served, raced>>

-----------------------------------------------------------------------------
(* Records *)

Blank == [link |-> 0, code |-> None, visits |-> 0, limited |-> FALSE,
          expires |-> FALSE, disabled |-> FALSE]
Records == [link : 0..MaxLinks, code : Codes \cup {None}, visits : 0..MaxMade,
            limited : BOOLEAN, expires : BOOLEAN, disabled : BOOLEAN]

Installed == {urls[c] : c \in Codes} \ {None}

\* An address no pointer refers to.
Unused(o) ==
    LET Live == Installed \cup {ptr[p] : p \in Procs} \cup cands
    IN o \in Objs \ Live /\ \A q \in Objs \ Live : o <= q

\* A record that nothing points to any more is garbage.
Collected(heap) ==
    [o \in Objs |->
        IF o \in {urls'[c] : c \in Codes} \cup {ptr'[p] : p \in Procs} \cup cands'
        THEN heap[o] ELSE Blank]

IsExpired(r, past) == r.expires /\ past
\* Mutant: the limit is one too many.
ExceedsByOne(r) == r.limited /\ r.visits > Limit
ExceedsMaxVisits(r) == r.limited /\ r.visits >= Limit

Init ==
    /\ rec = [o \in Objs |-> Blank] /\ urls = [c \in Codes |-> None]
    /\ locked = FALSE /\ alive = TRUE /\ late = FALSE
    /\ pc = [p \in Procs |-> "idle"]
    /\ code \in [Procs -> {CHOOSE c \in Codes : TRUE}]
    /\ ptr = [p \in Procs |-> None]
    /\ left = [p \in Procs |-> 0] /\ ontime = [p \in Procs |-> TRUE]
    /\ cands = {}
    /\ links = 0 /\ gone = {} /\ stopped = {}
    /\ made = [l \in LinkIds |-> 0] /\ served = [l \in LinkIds |-> 0]
    /\ raced = FALSE

-----------------------------------------------------------------------------
(* The write lock *)

Goto(p, label) == pc' = [pc EXCEPT ![p] = label]

\* A critical section is entered, and its body executed, in one step; the
\* deferred Unlock is the step Leave.
Enter(p) == alive /\ ~locked /\ Goto(p, "leave")

\* Mutant: a lock that is never released.
Keep(held) == held
Unlocked(held) == FALSE

\* Where a goroutine goes on after its critical section.
After(p) == IF p = Janitor /\ cands # {} THEN "sweep" ELSE "idle"

Leave(p) ==
    /\ alive /\ pc[p] = "leave"
    /\ locked' = Unlocked(locked)
    /\ alive' = locked
    /\ Goto(p, After(p))
    /\ ptr' = [ptr EXCEPT ![p] = None]
    /\ UNCHANGED <<urls, late, code, left, ontime, cands, history>>
    /\ rec' = Collected(rec)

-----------------------------------------------------------------------------
(* Create *)

\* A custom code is tried once, a generated one Retries times.
Create(p, custom) ==
    /\ alive /\ pc[p] = "idle"
    /\ links + Cardinality({q \in Creators : pc[q] \in {"exists", "insert"}}) < MaxLinks
    /\ left' = [left EXCEPT ![p] = IF custom THEN 1 ELSE Retries]
    /\ Goto(p, "exists")
    /\ UNCHANGED <<rec, urls, locked, alive, late, code, ptr, ontime, cands, history>>

\* Mutant: one attempt too many.
OneMore(n) == n >= 1
TryAgain(n) == n > 1

\* Exists, under the read lock; when the code is taken, try another or give up.
CheckExists(p, c) ==
    /\ alive /\ pc[p] = "exists" /\ ~locked
    /\ IF urls[c] = None
       THEN /\ code' = [code EXCEPT ![p] = c] /\ Goto(p, "insert")
            /\ left' = [left EXCEPT ![p] = 0]
       ELSE /\ left' = [left EXCEPT ![p] = @ - 1] /\ UNCHANGED code
            /\ Goto(p, IF TryAgain(left[p]) THEN "exists" ELSE "idle")
    /\ UNCHANGED <<rec, urls, locked, alive, late, ptr, ontime, cands, history>>

\* Mutant: only Exists, some time ago, has looked whether the code is free.
Unchecked(c) == TRUE
Vacant(c) == urls[c] = None

\* Save(u, false): it looks again, and installs a clone of the new record.
Insert(p, limited, expires) ==
    /\ pc[p] = "insert" /\ Enter(p)
    /\ locked' = TRUE
    /\ UNCHANGED <<alive, late, code, ptr, left, ontime, cands, gone, stopped, made,
                   served, raced>>
    /\ IF Vacant(code[p])
       THEN \E o \in Objs :
            /\ Unused(o)
            /\ urls' = [urls EXCEPT ![code[p]] = o]
            /\ rec' = Collected([rec EXCEPT ![o] =
                [link |-> links + 1, code |-> code[p], visits |-> 0, limited |-> limited,
                 expires |-> expires, disabled |-> FALSE]])
            /\ links' = links + 1
       ELSE UNCHANGED <<urls, rec, links>>

-----------------------------------------------------------------------------
(* Disable, UpdateRemark, Delete *)

\* Get, under the read lock.  A missing code is ErrCodeNotFound and the request ends.
Fetch(p, c, label) ==
    /\ alive /\ pc[p] = "idle" /\ ~locked
    /\ urls[c] # None
    /\ ptr' = [ptr EXCEPT ![p] = urls[c]]
    /\ code' = [code EXCEPT ![p] = c]
    /\ Goto(p, label)
    /\ UNCHANGED <<rec, urls, locked, alive, late, left, cands, history>>

Disable(p, c) == Fetch(p, c, "disable") /\ UNCHANGED ontime
\* The remark itself is not modelled: the request saves the record it has got.
UpdateRemark(p, c) == Fetch(p, c, "save") /\ UNCHANGED ontime

\* u.Disabled = true, through the pointer and outside any lock.
SetDisabled(p) ==
    /\ alive /\ pc[p] = "disable"
    /\ rec' = [rec EXCEPT ![ptr[p]].disabled = TRUE]
    /\ Goto(p, "save")
    /\ UNCHANGED <<urls, locked, alive, late, code, ptr, left, ontime, cands, history>>

\* Mutant: the clone is made without the field that was set.
Enabled(r) == [r EXCEPT !.disabled = FALSE]
\* Mutant: the clone starts counting again.
Unvisited(r) == [r EXCEPT !.visits = 0]
Clone(r) == r

\* Save(u, true): a clone of what the pointer refers to now, whatever the map holds.
Overwrite(p) ==
    LET u == rec[ptr[p]] IN
    /\ pc[p] = "save" /\ Enter(p)
    /\ locked' = TRUE
    /\ UNCHANGED <<alive, late, code, ptr, left, ontime, cands, links, gone, made, served>>
    /\ \E o \in Objs :
        /\ Unused(o)
        /\ urls' = [urls EXCEPT ![u.code] = o]
        /\ rec' = Collected([rec EXCEPT ![o] = Clone(u)])
    /\ stopped' = IF u.disabled THEN stopped \cup {u.link} ELSE stopped
    /\ raced' = (raced \/ urls[u.code] # ptr[p])

Without(c) == [urls EXCEPT ![c] = None]

Delete(p, c) ==
    /\ pc[p] = "idle" /\ Enter(p)
    /\ urls[c] # None
    /\ locked' = TRUE
    /\ gone' = gone \cup {rec[urls[c]].link}
    /\ urls' = Without(c)
    /\ UNCHANGED <<alive, late, code, ptr, left, ontime, cands, links, stopped, made,
                   served, raced>>
    /\ rec' = Collected(rec)

-----------------------------------------------------------------------------
(* HandleRedirect *)

\* The timestamp of the request, then Get.  A missing code is answered by 404.
Redirect(p, c) ==
    /\ \A l \in LinkIds :
        made[l] + Cardinality({q \in Redirectors : pc[q] \in {"check", "visit"}}) < MaxMade
    /\ Fetch(p, c, "check")
    /\ ontime' = [ontime EXCEPT ![p] = ~late]

\* Disabled and IsExpired are read through the pointer: 410, or go on.
CheckState(p) ==
    LET u == rec[ptr[p]] IN
    /\ alive /\ pc[p] = "check"
    /\ Goto(p, IF u.disabled \/ IsExpired(u, ~ontime[p]) THEN "idle" ELSE "visit")
    /\ ptr' = [ptr EXCEPT ![p] = None]
    /\ ontime' = [ontime EXCEPT ![p] = TRUE]
    /\ UNCHANGED <<urls, locked, alive, late, code, left, cands, history>>
    /\ rec' = Collected(rec)

\* IncrementVisits looks the code up again; a link that is gone by now is an
\* error.  302 unless the limit is reached, 410 otherwise.
Visit(p) ==
    LET o == urls[code[p]]
        visited == [rec[o] EXCEPT !.visits = @ + 1]
        l == rec[o].link
    IN
    /\ pc[p] = "visit" /\ Enter(p)
    /\ IF o = None
       THEN locked' = TRUE /\ UNCHANGED <<rec, made, served>>
       ELSE /\ rec' = [rec EXCEPT ![o] = visited]
            /\ made' = [made EXCEPT ![l] = @ + 1]
            /\ served' = IF ExceedsMaxVisits(visited) THEN served
                                                      ELSE [served EXCEPT ![l] = @ + 1]
            /\ locked' = (visited.visits % UnlockEvery # 0)
    /\ UNCHANGED <<urls, alive, late, code, ptr, left, ontime, cands, links, gone, stopped,
                   raced>>

-----------------------------------------------------------------------------
(* The janitor *)

Pending == {o \in Installed : ~rec[o].disabled}

\* ForEach, under the read lock: of the first Batch records that are not
\* disabled, in the order of the map, those that are expired or used up.
Sweep ==
    /\ alive /\ pc[Janitor] = "idle" /\ ~locked
    /\ \E seen \in SUBSET Pending :
        /\ Cardinality(seen) = IF Cardinality(Pending) < Batch THEN Cardinality(Pending)
                                                               ELSE Batch
        /\ cands' = {o \in seen : IsExpired(rec[o], late) \/ ExceedsMaxVisits(rec[o])}
    /\ cands' # {}
    /\ Goto(Janitor, "sweep")
    /\ UNCHANGED <<rec, urls, locked, alive, late, code, ptr, left, ontime, history>>

\* u.Disabled = true for the next candidate, outside any lock.
Mark ==
    /\ alive /\ pc[Janitor] = "sweep"
    /\ \E o \in cands :
        /\ rec' = [rec EXCEPT ![o].disabled = TRUE]
        /\ ptr' = [ptr EXCEPT ![Janitor] = o]
        /\ cands' = cands \ {o}
    /\ Goto(Janitor, "save")
    /\ UNCHANGED <<urls, locked, alive, late, code, left, ontime, history>>

\* Time passes.
Expire ==
    /\ alive /\ ~late
    /\ late' = TRUE
    /\ UNCHANGED <<rec, urls, locked, alive, locals, history>>

-----------------------------------------------------------------------------

\* What a request that has begun, or the janitor in a sweep, does next.
Step(p) ==
    \/ \E c \in Codes : CheckExists(p, c)
    \/ \E limited, expires \in BOOLEAN : Insert(p, limited, expires)
    \/ SetDisabled(p) \/ Overwrite(p)
    \/ CheckState(p) \/ Visit(p)
    \/ Leave(p)
    \/ p = Janitor /\ Mark

Next ==
    \/ \E p \in Creators, custom \in BOOLEAN : Create(p, custom)
    \/ \E p \in Updaters, c \in Codes : Disable(p, c) \/ UpdateRemark(p, c)
    \/ \E p \in Deleters, c \in Codes : Delete(p, c)
    \/ \E p \in Redirectors, c \in Codes : Redirect(p, c)
    \/ Sweep
    \/ Expire
    \/ \E p \in Procs : Step(p)

Spec == Init /\ [][Next]_vars

\* The executions in which no stale copy of a record is saved.
CleanSpec == Init /\ [][Next /\ ~raced']_vars

-----------------------------------------------------------------------------
(* Properties *)

\* Every variable has a value of its kind, and a request that has got past Get
\* always works on a record.
TypeOK ==
    /\ rec \in [Objs -> Records]
    /\ urls \in [Codes -> Objs \cup {None}]
    /\ locked \in BOOLEAN /\ alive \in BOOLEAN /\ late \in BOOLEAN
    /\ pc \in [Procs -> {"idle", "exists", "insert", "disable", "save", "check", "visit",
                         "sweep", "leave"}]
    /\ code \in [Procs -> Codes]
    /\ ptr \in [Procs -> Objs \cup {None}]
    /\ left \in [Procs -> 0..Retries] /\ ontime \in [Procs -> BOOLEAN]
    /\ cands \subseteq Objs
    /\ links \in 0..MaxLinks /\ gone \subseteq LinkIds /\ stopped \subseteq LinkIds
    /\ made \in [LinkIds -> 0..MaxMade] /\ served \in [LinkIds -> 0..MaxMade]
    /\ raced \in BOOLEAN
    /\ \A p \in Procs : pc[p] \in {"disable", "save", "check"} =>
            ptr[p] # None /\ rec[ptr[p]].link # 0

\* The record of a link, when the map holds one.
Holds(l) == \E c \in Codes : urls[c] # None /\ rec[urls[c]].link = l
RecordOf(l) == rec[CHOOSE o \in Installed : rec[o].link = l]

\* The map holds exactly the links that were created and not deleted: no Create
\* overwrites one (Exists and Save are two critical sections, url_service.go:91
\* and 114), nothing but Delete removes one, and a deleted link does not come back
\* from a copy that a Disable, an UpdateRemark or a sweep still has, unless a
\* stale copy is saved.
LinksExact == ~raced => \A l \in 1..links : Holds(l) <=> l \notin gone

\* A link that was disabled stays so, unless a stale copy is saved.
DisabledStaysDisabled ==
    ~raced => \A l \in stopped : Holds(l) => RecordOf(l).disabled

\* Every visit counts, even those made while a record is being replaced by a
\* clone, unless a stale copy is saved.
VisitsKept == \A l \in 1..links : Holds(l) => RecordOf(l).visits = made[l]
VisitsKeptUnlessRaced == ~raced => VisitsKept

\* However redirects interleave with each other and with updates, a link with a
\* limit is answered by 302 fewer than Limit times, unless a stale copy is saved.
BudgetKept ==
    ~raced => \A l \in 1..links : Holds(l) /\ RecordOf(l).limited => served[l] < Limit

\* The write lock is never held by nobody, and until some link reaches the
\* visit at which IncrementVisits unlocks twice it excludes, and never ends the
\* process.
InSection == {p \in Procs : pc[p] = "leave"}
LockOK ==
    /\ locked => InSection # {}
    /\ (\A l \in LinkIds : made[l] < UnlockEvery) =>
            /\ alive
            /\ Cardinality(InSection) = IF locked THEN 1 ELSE 0
=============================================================================
