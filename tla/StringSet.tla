----------------------------- MODULE StringSet -----------------------------
(***************************************************************************)
(* Set and SyncSet of pkg/set/stringset.go: sets of strings held in Go     *)
(* maps that are reached through pointers.                                 *)
(*                                                                         *)
(* A variable points to a Set, or is nil; a Set points to a map, or has    *)
(* none.  Two variables may share a Set, and two Sets a map, since Union   *)
(* and Diff hand out what they were given when an operand is nil.  SyncSet *)
(* does one of these operations at a time under its lock.                  *)
(***************************************************************************)
EXTENDS Naturals, FiniteSets

CONSTANTS
    Strings,   \* elements
    Blank,     \* the empty string
    Names,     \* variables of the program
    MaxOps     \* bound: calls

ASSUME SetConstantsOK ==
    Blank \in Strings /\ IsFiniteSet(Strings) /\ IsFiniteSet(Names) /\ MaxOps \in Nat

VARIABLES
    object,    \* the Set each variable points to; 0: nil
    mapOf,     \* the map of each Set; 0: nil
    content,   \* the strings in each map
    ops,       \* calls so far
    meant,     \* history: what each variable would hold if sets were values
    spoilt     \* history: variables for which the two may differ

setVars == <<object, mapOf, content, ops, meant, spoilt>>

\* Enough Sets and maps that one is free; those nobody refers to are collected.
Refs == 1..(Cardinality(Names) + 1)
FreshObject == CHOOSE o \in Refs : \A v \in Names : object[v] # o
FreshMap == CHOOSE m \in Refs : \A v \in Names : object[v] = 0 \/ mapOf[object[v]] # m

Nil(v) == object[v] = 0
In(o) == IF o = 0 \/ mapOf[o] = 0 THEN {} ELSE content[mapOf[o]]
Holds(v) == In(object[v])

SetInit ==
    /\ object = [v \in Names |-> 0] /\ mapOf = [o \in Refs |-> 0]
    /\ content = [m \in Refs |-> {}]
    /\ ops = 0 /\ meant = [v \in Names |-> {}] /\ spoilt = {}

Called == ops < MaxOps /\ ops' = ops + 1
Mean(v, value) == meant' = [meant EXCEPT ![v] = value]

\* v points to a new Set with a new map of these strings.
NewSet(v, strings) ==
    /\ object' = [object EXCEPT ![v] = FreshObject]
    /\ mapOf' = [mapOf EXCEPT ![FreshObject] = FreshMap]
    /\ content' = [content EXCEPT ![FreshMap] = strings]

\* A new Set without a map.
NewNil(v) ==
    /\ object' = [object EXCEPT ![v] = FreshObject]
    /\ mapOf' = [mapOf EXCEPT ![FreshObject] = 0]
    /\ UNCHANGED content

\* The strings of the Set of v become those; a map is made if it has none.
Put(v, strings) ==
    LET o == object[v] m == IF mapOf[o] = 0 THEN FreshMap ELSE mapOf[o] IN
    /\ mapOf' = [mapOf EXCEPT ![o] = m]
    /\ content' = [content EXCEPT ![m] = strings]
    /\ UNCHANGED object

-----------------------------------------------------------------------------
(* Making sets *)

\* NewFromSlice: a slice that begins with the empty string gives a Set without a
\* map.  New is that of the empty slice.
FromSlice(v, strings, first) ==
    /\ Called
    /\ IF first = Blank THEN NewNil(v) ELSE NewSet(v, strings)
    /\ Mean(v, strings)
    /\ spoilt' = IF first = Blank THEN spoilt \cup {v} ELSE spoilt \ {v}

\* Snapshot of a SyncSet, or NewFromSlice(s.Slice()): the map is ranged over in
\* any order, so the empty string, if it is there, may come first.
Snapshot(v, u) ==
    /\ Called /\ ~Nil(u)
    /\ \E first \in Holds(u) \cup (IF Holds(u) = {} THEN {"none"} ELSE {}) :
        /\ IF first = Blank THEN NewNil(v) ELSE NewSet(v, Holds(u))
        /\ spoilt' = IF first = Blank \/ u \in spoilt THEN spoilt \cup {v} ELSE spoilt \ {v}
    /\ Mean(v, meant[u])

-----------------------------------------------------------------------------
(* Changing them: nothing happens to a nil Set *)

Add(v, x) ==
    /\ Called /\ ~Nil(v)
    /\ Put(v, Holds(v) \cup {x})
    /\ Mean(v, meant[v] \cup {x})
    /\ UNCHANGED spoilt

\* AddAll does nothing for an empty slice, and then makes no map either.
AddAll(v, strings) ==
    /\ Called /\ ~Nil(v) /\ strings # {}
    /\ Put(v, Holds(v) \cup strings)
    /\ Mean(v, meant[v] \cup strings)
    /\ UNCHANGED spoilt

RemoveOne(v, x) ==
    /\ Called /\ ~Nil(v) /\ x \in Holds(v)
    /\ Put(v, Holds(v) \ {x})
    /\ Mean(v, meant[v] \ {x})
    /\ UNCHANGED spoilt

\* A new map for the Set: a Set that shared the old one keeps it.
Clear(v) ==
    /\ Called /\ ~Nil(v)
    /\ mapOf' = [mapOf EXCEPT ![object[v]] = FreshMap]
    /\ content' = [content EXCEPT ![FreshMap] = {}]
    /\ UNCHANGED object
    /\ Mean(v, {})
    /\ UNCHANGED spoilt

-----------------------------------------------------------------------------
(* Algebra *)

\* v shares what u has from now on.
Shares(v, u) == spoilt' = spoilt \cup {v, u}

Union(v, a, b) ==
    /\ Called
    /\ IF Nil(a) \/ Nil(b)
       THEN LET u == IF Nil(a) THEN b ELSE a IN
            /\ object' = [object EXCEPT ![v] = object[u]]
            /\ UNCHANGED <<mapOf, content>>
            /\ Shares(v, u)
       ELSE /\ NewSet(v, Holds(a) \cup Holds(b))
            /\ spoilt' = IF {a, b} \cap spoilt # {} THEN spoilt \cup {v} ELSE spoilt \ {v}
    /\ Mean(v, meant[a] \cup meant[b])

\* The smaller map is gone through.
Common(x, y) ==
    LET small == IF Cardinality(x) > Cardinality(y) THEN y ELSE x
        large == IF Cardinality(x) > Cardinality(y) THEN x ELSE y
    IN {k \in small : k \in large}

Intersect(v, a, b) ==
    /\ Called
    /\ NewSet(v, IF Nil(a) \/ Nil(b) THEN {} ELSE Common(Holds(a), Holds(b)))
    /\ Mean(v, meant[a] \cap meant[b])
    /\ spoilt' = IF {a, b} \cap spoilt # {} THEN spoilt \cup {v} ELSE spoilt \ {v}

\* Mutant: the map itself, as with a nil operand.
Reused(v, a, b) == object' = [object EXCEPT ![v] = object[a]] /\ UNCHANGED <<mapOf, content>>
Subtracted(v, a, b) == NewSet(v, {k \in Holds(a) : k \notin Holds(b)})

\* With a nil operand the new Set has the map of a.
Diff(v, a, b) ==
    /\ Called
    /\ IF ~Nil(a) /\ Nil(b)
       THEN /\ object' = [object EXCEPT ![v] = FreshObject]
            /\ mapOf' = [mapOf EXCEPT ![FreshObject] = mapOf[object[a]]]
            /\ UNCHANGED content
            /\ Shares(v, a)
       ELSE /\ IF Nil(a) THEN NewSet(v, {}) ELSE Subtracted(v, a, b)
            /\ spoilt' = IF {a, b} \cap spoilt # {} THEN spoilt \cup {v} ELSE spoilt \ {v}
    /\ Mean(v, meant[a] \ meant[b])

-----------------------------------------------------------------------------
(* Questions *)

IsSubset(a, b) == IF Nil(a) \/ Holds(a) = {} THEN TRUE ELSE IF Nil(b) THEN FALSE ELSE Holds(a) \subseteq Holds(b)

Equal(a, b) ==
    IF Nil(a) \/ Nil(b)
    THEN (Nil(a) \/ Holds(a) = {}) /\ (Nil(b) \/ Holds(b) = {})
    ELSE Cardinality(Holds(a)) = Cardinality(Holds(b)) /\ IsSubset(a, b)

SetNext ==
    \E v \in Names :
        \/ \E strings \in SUBSET Strings :
            \/ strings = {} /\ FromSlice(v, {}, "none")
            \/ \E first \in strings : FromSlice(v, strings, first)
            \/ AddAll(v, strings)
        \/ \E x \in Strings : Add(v, x) \/ RemoveOne(v, x)
        \/ Clear(v)
        \/ \E u \in Names : Snapshot(v, u)
        \/ \E a, b \in Names : Union(v, a, b) \/ Intersect(v, a, b) \/ Diff(v, a, b)

-----------------------------------------------------------------------------

SetTypeOK ==
    /\ object \in [Names -> {0} \cup Refs] /\ mapOf \in [Refs -> {0} \cup Refs]
    /\ content \in [Refs -> SUBSET Strings]
    /\ ops \in 0..MaxOps

\* Any sequence of calls: a variable holds what it would hold if sets were
\* values, unless it has shared a map with another since Union or Diff was given
\* a nil operand, or comes from a slice that begins with the empty string; Equal
\* and IsSubset agree with the sets that are held.
SetsAgree ==
    /\ \A v \in Names \ spoilt : Holds(v) = meant[v]
    /\ \A a, b \in Names :
        /\ Equal(a, b) = (Holds(a) = Holds(b))
        /\ IsSubset(a, b) = (Holds(a) \subseteq Holds(b))
=============================================================================
