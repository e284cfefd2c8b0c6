------------------------- MODULE WeightedSemaphore -------------------------
(***************************************************************************)
(* Weighted of pkg/semaphore/semaphore.go: permits handed to a FIFO queue  *)
(* of waiters, each of which may be cancelled by its context.              *)
(*                                                                         *)
(* Every access to cur and waiters is under the mutex, so an action is one *)
(* critical section.  What lies between two of them is modelled as such: a *)
(* waiter whose channel Release has filled, but which has not run yet, and *)
(* may be cancelled in that moment.                                        *)
(***************************************************************************)
EXTENDS Naturals, Sequences, SequencesExt, Functions, FiniteSetsExt

CONSTANTS
    Callers,     \* goroutines that call Acquire, TryAcquire and Release
    Capacity,    \* the size given to NewWeighted
    Weights,     \* weights they ask for
    MaxCancels   \* bound: contexts that are cancelled

ASSUME SizesOK ==
    /\ Capacity \in Nat \ {0} /\ Weights \subseteq 1..Capacity
    /\ IsFiniteSet(Callers) /\ MaxCancels \in Nat

VARIABLES
    cur,       \* weight taken
    waiters,   \* the callers in the queue, oldest first
    pc,        \* what a caller does
    n,         \* the weight it asks for or holds
    signal,    \* its channel has been filled
    done,      \* its context has been cancelled
    leaked,    \* history: weight granted to callers that had given up
    missed,    \* history: since the last Release that served the queue, the head
               \* gave up or a Release panicked
    cancels    \* contexts cancelled so far

semVars == <<cur, waiters, pc, n, signal, done, leaked, missed, cancels>>

SemInit ==
    /\ cur = 0 /\ waiters = <<>>
    /\ pc = [p \in Callers |-> "idle"]
    /\ n \in [Callers -> {Capacity}]
    /\ signal = [p \in Callers |-> FALSE] /\ done = [p \in Callers |-> FALSE]
    /\ leaked = 0 /\ missed = FALSE /\ cancels = 0

Goto(p, label) == pc' = [pc EXCEPT ![p] = label]
Fits(w) == cur + w <= Capacity

-----------------------------------------------------------------------------
(* Acquire and TryAcquire *)

\* There is room: take it, whoever is in the queue.
Take(p, w) ==
    /\ pc[p] = "idle" /\ Fits(w)
    /\ cur' = cur + w
    /\ n' = [n EXCEPT ![p] = w]
    /\ Goto(p, "holds")
    /\ UNCHANGED <<waiters, signal, done, leaked, missed, cancels>>

\* There is none: join the queue.  (TryAcquire returns false and changes nothing.)
Wait(p, w) ==
    /\ pc[p] = "idle" /\ ~Fits(w)
    /\ n' = [n EXCEPT ![p] = w]
    /\ waiters' = Append(waiters, p)
    /\ Goto(p, "waits")
    /\ UNCHANGED <<cur, signal, done, leaked, missed, cancels>>

\* <-wt.ch
Granted(p) ==
    /\ pc[p] = "waits" /\ signal[p]
    /\ signal' = [signal EXCEPT ![p] = FALSE]
    /\ done' = [done EXCEPT ![p] = FALSE]
    /\ Goto(p, "holds")
    /\ UNCHANGED <<cur, waiters, n, leaked, missed, cancels>>

\* The context of a caller that waits ends, at any time.
Cancel(p) ==
    /\ pc[p] = "waits" /\ ~done[p] /\ cancels < MaxCancels
    /\ done' = [done EXCEPT ![p] = TRUE]
    /\ cancels' = cancels + 1
    /\ UNCHANGED <<cur, waiters, pc, n, signal, leaked, missed>>

Removed(p) ==
    IF p \in Range(waiters) THEN RemoveAt(waiters, CHOOSE i \in DOMAIN waiters : waiters[i] = p) ELSE waiters

\* <-ctx.Done(), which select may choose although the channel is filled too.
\* The waiter removes itself; a grant that it already got is never returned.
GiveUp(p) ==
    /\ pc[p] = "waits" /\ done[p]
    /\ waiters' = Removed(p)
    /\ leaked' = IF signal[p] THEN leaked + n[p] ELSE leaked
    /\ missed' = (missed \/ (waiters # <<>> /\ Head(waiters) = p))
    /\ signal' = [signal EXCEPT ![p] = FALSE] /\ done' = [done EXCEPT ![p] = FALSE]
    /\ Goto(p, "idle")
    /\ UNCHANGED <<cur, n, cancels>>

-----------------------------------------------------------------------------
(* Release *)

\* Mutant: every waiter is taken for one permit.
CountOf(k) == k
Oldest(k) == {waiters[i] : i \in 1..k}
Weight(callers) == MapThenSumSet(LAMBDA p : n[p], callers)
\* Weight of the first k waiters.
WeightOf(k) == Weight(Oldest(k))

\* Mutant: the loop ends after one waiter.
OnlyOne(free) == IF waiters # <<>> /\ n[waiters[1]] <= free THEN 1 ELSE 0
\* Mutant: what is free is not compared.
AllOfThem(free) == Len(waiters)
\* How many waiters, oldest first and none skipped, fit into what is free.
Admitted(free) == Max({k \in 0..Len(waiters) : WeightOf(k) <= free})

\* waiters[int(n)] is evaluated when nothing is taken any more, and is out of
\* range unless more than n callers wait.
OutOfRange(p) == cur = n[p] /\ waiters # <<>> /\ n[p] >= Len(waiters)

\* The weight goes back, then the queue is served.  After the panic the weight
\* is back and the mutex unlocked, but nobody has been woken; the caller is
\* taken to recover (the handlers of the server do).
Release(p) ==
    /\ pc[p] = "holds"
    /\ IF OutOfRange(p)
       THEN /\ cur' = cur - n[p] /\ missed' = TRUE
            /\ UNCHANGED <<waiters, signal>>
       ELSE LET k == Admitted(Capacity - (cur - n[p])) IN
            /\ cur' = cur - n[p] + WeightOf(k)
            /\ waiters' = SubSeq(waiters, k + 1, Len(waiters))
            /\ signal' = [q \in Callers |-> signal[q] \/ q \in Oldest(k)]
            /\ missed' = FALSE
    /\ Goto(p, "idle")
    /\ UNCHANGED <<n, done, leaked, cancels>>

SemNext ==
    \E p \in Callers :
        \/ \E w \in Weights : Take(p, w) \/ Wait(p, w)
        \/ Granted(p) \/ Cancel(p) \/ GiveUp(p) \/ Release(p)

-----------------------------------------------------------------------------
(* Properties *)

\* Every variable has a value of its kind; in particular no sequence of
\* acquires, cancellations and releases takes more than the capacity.
SemTypeOK ==
    /\ cur \in 0..Capacity
    /\ waiters \in Seq(Callers)
    /\ pc \in [Callers -> {"idle", "waits", "holds"}]
    /\ n \in [Callers -> 1..Capacity]
    /\ signal \in [Callers -> BOOLEAN] /\ done \in [Callers -> BOOLEAN]
    /\ leaked \in 0..Capacity /\ missed \in BOOLEAN
    /\ cancels \in 0..MaxCancels

\* The queue holds each caller that waits without a grant, once, and nobody else.
QueueExact ==
    /\ IsInjective(waiters)
    /\ Range(waiters) = {p \in Callers : pc[p] = "waits" /\ ~signal[p]}

\* However acquires, cancellations and releases interleave, the queue is exact,
\* and cur is what callers hold, or have been granted and not yet noticed, plus
\* what was granted in the moment a caller gave up: that weight, which nobody will
\* release, is the only one that is ever lost.
PermitsAccounted ==
    QueueExact /\ cur = Weight({p \in Callers : pc[p] = "holds" \/ signal[p]}) + leaked

\* The oldest waiter never waits for weight that is free, unless the one before
\* it gave up or Release panicked, and then only until the next Release.
NoLostWakeup == ~missed => waiters = <<>> \/ ~Fits(n[Head(waiters)])
=============================================================================
