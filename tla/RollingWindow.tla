--------------------------- MODULE RollingWindow ---------------------------
(***************************************************************************)
(* RollingWindow of pkg/rollingwindow/rolling.go: a ring of Buckets        *)
(* buckets of Dur ticks each, turned by the samples themselves.            *)
(*                                                                         *)
(* A caller reads the clock before it takes the mutex, so samples may come *)
(* out of order.  A bucket is the set of samples that were put into it:    *)
(* its sum and its count are sums over that set.                           *)
(***************************************************************************)
EXTENDS Integers, FiniteSets, FiniteSetsExt

CONSTANTS
    Adders,     \* goroutines that call Add or AddN
    Buckets,    \* n
    Dur,        \* bucketDur, in ticks
    WinTime,    \* bound: ticks
    MaxSamples  \* bound: samples

ASSUME WindowConstantsOK ==
    /\ Buckets \in Nat \ {0} /\ Dur \in Nat \ {0}
    /\ WinTime \in Nat /\ MaxSamples \in Nat

VARIABLES
    winNow,   \* the clock
    stamp,    \* the time each caller has read; -1: none
    ring,     \* buckets
    head,     \* head
    lastTs,   \* lastTs; -1: the zero time
    samples,  \* samples added so far
    origin,   \* history: time of the first sample since Reset
    slotOf    \* history: the slot, counted from origin, each sample belongs to

windowVars == <<winNow, stamp, ring, head, lastTs, samples, origin, slotOf>>

EmptyRing == [i \in 0..(Buckets - 1) |-> {}]

WindowInit ==
    /\ winNow = 0 /\ stamp = [a \in Adders |-> -1]
    /\ ring = EmptyRing /\ head = 0 /\ lastTs = -1
    /\ samples = 0 /\ origin = 0 /\ slotOf = [s \in {} |-> 0]

\* time.Now(), before the mutex.
Stamp(a) ==
    /\ stamp[a] = -1 /\ samples + Cardinality({b \in Adders : stamp[b] # -1}) < MaxSamples
    /\ stamp' = [stamp EXCEPT ![a] = winNow]
    /\ UNCHANGED <<winNow, ring, head, lastTs, samples, origin, slotOf>>

\* Whole buckets since lastTs; none for a time that is earlier.
Elapsed(at) == IF at >= lastTs THEN (at - lastTs) \div Dur ELSE 0

\* Mutant: after a whole window the head is taken for fresh.
OneTooFew(at) == Min({Elapsed(at), Buckets - 1})
Passed(at) == Min({Elapsed(at), Buckets})

Moved(at) == lastTs + Elapsed(at) * Dur

\* The slots of the samples in the window, and the newest of them.
Newest == Max({slotOf[s] : s \in DOMAIN slotOf})
Record(slot) == slotOf' = [s \in DOMAIN slotOf \cup {samples + 1} |-> IF s = samples + 1 THEN slot ELSE slotOf[s]]

\* addAt: the first sample since New or Reset ...
AddFirst(a) ==
    /\ stamp[a] # -1 /\ lastTs = -1
    /\ ring' = [ring EXCEPT ![0] = {samples + 1}]
    /\ head' = 0 /\ lastTs' = stamp[a]
    /\ samples' = samples + 1 /\ origin' = stamp[a] /\ Record(0)
    /\ stamp' = [stamp EXCEPT ![a] = -1]
    /\ UNCHANGED winNow

\* ... and each later one: the buckets that were passed over are emptied.
AddLater(a) ==
    LET at == stamp[a]
        passed == {(head + i) % Buckets : i \in 1..Passed(at)}
        new == (head + Passed(at)) % Buckets
    IN  /\ at # -1 /\ lastTs # -1
        /\ ring' = [i \in DOMAIN ring |->
                        (IF i \in passed THEN {} ELSE ring[i]) \cup (IF i = new THEN {samples + 1} ELSE {})]
        /\ head' = new /\ lastTs' = IF Elapsed(at) > 0 THEN Moved(at) ELSE lastTs
        /\ samples' = samples + 1
        /\ Record(Max({Newest, (at - origin) \div Dur}))
        /\ stamp' = [stamp EXCEPT ![a] = -1]
        /\ UNCHANGED <<winNow, origin>>

ResetWindow ==
    /\ lastTs # -1
    /\ ring' = EmptyRing /\ head' = 0 /\ lastTs' = -1
    /\ slotOf' = [s \in {} |-> 0]
    /\ UNCHANGED <<winNow, stamp, samples, origin>>

WindowTick ==
    /\ winNow < WinTime /\ winNow' = winNow + 1
    /\ UNCHANGED <<stamp, ring, head, lastTs, samples, origin, slotOf>>

WindowNext == (\E a \in Adders : Stamp(a) \/ AddFirst(a) \/ AddLater(a)) \/ ResetWindow \/ WindowTick

-----------------------------------------------------------------------------
(* Sum and Count read all buckets as they are: nothing ages without a sample. *)

InWindow == UNION {ring[i] : i \in DOMAIN ring}

WindowTypeOK ==
    /\ winNow \in 0..WinTime /\ stamp \in [Adders -> -1..WinTime]
    /\ ring \in [0..(Buckets - 1) -> SUBSET (1..MaxSamples)]
    /\ head \in 0..(Buckets - 1) /\ lastTs \in -1..WinTime
    /\ samples \in 0..MaxSamples /\ origin \in 0..WinTime

\* Samples of several goroutines, late ones, idle times longer than the window
\* and Resets: Sum and Count cover exactly the samples of the last Buckets slots
\* up to the newest sample, each in one bucket; slots are counted from the first
\* sample and do not drift, and a late sample counts for the newest slot.
WindowExact ==
    /\ InWindow = {s \in DOMAIN slotOf : slotOf[s] > Newest - Buckets}
    /\ \A i, j \in DOMAIN ring : i # j => ring[i] \cap ring[j] = {}
    /\ \A s \in InWindow : s \in ring[(head - (Newest - slotOf[s])) % Buckets]
=============================================================================
