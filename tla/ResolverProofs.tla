-------------------------- MODULE ResolverProofs --------------------------
(***************************************************************************)
(* What Resolver guarantees for every number of codes, callers and owners, *)
(* every capacity and every choice of bits: the filter never denies a link *)
(* that has been announced, and neither the cache nor a Resolve gives a    *)
(* stale answer but in the races that Resolver names.                      *)
(***************************************************************************)
EXTENDS Resolver, SequenceTheorems, FiniteSetTheorems, TLAPS

Item == [code : Codes, ver : Versions, keep : BOOLEAN]
CacheEntry == [code : Codes, ver : Versions, expired : BOOLEAN]
Labels == {"idle", "lookup", "join", "wait", "fetch", "fill", "leave", "done"}

-----------------------------------------------------------------------------
(* The inductive invariant *)

StoreTypes ==
    /\ store \in [Codes -> 0..MaxMade] /\ made \in 0..MaxMade
    /\ \A c \in Codes : store[c] <= made
    /\ live \in [Codes -> SUBSET (1..made)]

CacheOK ==
    /\ cache \in Seq(CacheEntry) /\ Len(cache) <= Cap
    /\ \A i, j \in DOMAIN cache : cache[i].code = cache[j].code => i = j

CallTypes ==
    /\ flight \in [Codes -> Callers \cup {Nobody}]
    /\ pc \in [Callers -> Labels] /\ arg \in [Callers -> Codes]
    /\ leader \in [Callers -> Callers \cup {Nobody}]
    /\ val \in [Callers -> 0..MaxMade]
    /\ seen \in [Callers -> SUBSET (0..MaxMade)]
    /\ raced \subseteq Codes

\* What each publisher has to tell: an owner one thing, the warmer a list.
Working(q) == stage[q] \in {"bits", "set", "withdraw"}
TodoOK ==
    /\ stage \in [Publishers -> {"idle", "bits", "set", "withdraw"}]
    /\ todo \in [Publishers -> Seq(Item)]
    /\ booted \in BOOLEAN /\ warms \in 0..MaxWarms
    /\ \A q \in Owners : Len(todo[q]) = IF Working(q) THEN 1 ELSE 0
    /\ stage[Warmer] # "withdraw" /\ (stage[Warmer] = "set" => todo[Warmer] # <<>>)
    /\ ~booted => stage[Warmer] # "idle"

\* A link that the filter does not know yet is about to be told to it.
Listed(c) == \E i \in DOMAIN todo[Warmer] : todo[Warmer][i].code = c
BitsOK ==
    /\ bloom \subseteq UNION Range(Locations)
    /\ \A q \in Publishers : stage[q] = "set" => MayContain(Head(todo[q]).code)
    /\ \A c \in Codes : store[c] # 0 /\ ~MayContain(c) =>
          \/ \E q \in Owners : stage[q] = "bits" /\ Head(todo[q]).code = c
          \/ ~booted /\ Listed(c)

\* The versions that are live are that in the store and those about to be withdrawn.
LiveOK ==
    /\ \A c \in Codes : store[c] # 0 => store[c] \in live[c]
    /\ \A c \in Codes, v \in Versions : v \in live[c] /\ v # store[c] =>
          \E q \in Owners :
             stage[q] = "withdraw" /\ Head(todo[q]).code = c /\ Head(todo[q]).ver = v
    /\ \A q \in Owners : stage[q] = "withdraw" =>
          /\ Head(todo[q]).ver <= made
          /\ Head(todo[q]).ver # store[Head(todo[q]).code]

\* Whatever is in the cache or on its way there is live, but for the races.
EntriesFresh ==
    \A i \in DOMAIN cache : cache[i].code \in raced \/ cache[i].ver \in live[cache[i].code]
Publishes(q) == stage[q] \in {"bits", "set"}
TodoFresh ==
    \A q \in Publishers : Publishes(q) =>
        \A i \in DOMAIN todo[q] :
            todo[q][i].code \in raced \/ todo[q][i].ver \in live[todo[q][i].code]
HasAsked(p) == pc[p] \in {"fill", "leave", "done"}
CallsFresh ==
    /\ \A p \in Callers : HasAsked(p) =>
          \/ arg[p] \in raced
          \/ IF val[p] = 0 THEN Unannounced(arg[p]) ELSE val[p] \in live[arg[p]]
    /\ \A p \in Callers : pc[p] = "fill" => val[p] # 0

\* Every caller may return what is live and, unless it is all announced, nothing.
SeenOK ==
    \A p \in Callers : Active(p) =>
        /\ live[arg[p]] \subseteq seen[p]
        /\ Unannounced(arg[p]) => 0 \in seen[p]

\* OneFlight, one caller at a time.
Asking(p) == pc[p] \in {"fetch", "fill", "leave"}
FlightOK ==
    /\ \A c \in Codes, p \in Callers : flight[c] = p <=> Asking(p) /\ arg[p] = c
    /\ \A p \in Callers : pc[p] = "wait" =>
          /\ leader[p] \in Callers /\ arg[leader[p]] = arg[p]
          /\ Asking(leader[p]) \/ pc[leader[p]] = "done"

IInv ==
    /\ StoreTypes /\ CacheOK /\ CallTypes /\ TodoOK /\ BitsOK /\ LiveOK
    /\ EntriesFresh /\ TodoFresh /\ CallsFresh /\ SeenOK /\ FlightOK /\ stale = {}

-----------------------------------------------------------------------------
(* The cache *)

LEMMA Constants ==
    /\ Cap \in Nat \ {0} /\ MaxMade \in Nat /\ MaxWarms \in Nat
    /\ IsFiniteSet(Codes) /\ Codes # {} /\ DOMAIN Locations = Codes
    /\ Warmer \in Publishers /\ Warmer \notin Owners /\ Nobody \notin Callers
    /\ Publishers = Owners \cup {Warmer} /\ Owners \subseteq Publishers
    /\ SomeCode \in Codes /\ Versions = 1..MaxMade
BY ResolverOK DEF Publishers, SomeCode, Versions

\* What is left when an element is taken out of a sequence.
LEMMA Removing ==
    ASSUME NEW S, NEW s \in Seq(S), NEW i \in 1..Len(s)
    PROVE  /\ RemoveAt(s, i) \in Seq(S) /\ Len(RemoveAt(s, i)) = Len(s) - 1
           /\ \A j \in 1..Len(s) - 1 : RemoveAt(s, i)[j] = IF j < i THEN s[j] ELSE s[j + 1]
<1> DEFINE l == SubSeq(s, 1, i - 1)
           r == SubSeq(s, i + 1, Len(s))
<1>1. Len(s) \in Nat /\ i \in Nat /\ i >= 1 /\ i <= Len(s) /\ \A j \in 1..Len(s) : s[j] \in S
  BY ElementOfSeq, LenProperties
<1>2. l \in Seq(S) /\ Len(l) = i - 1 /\ \A j \in 1..i - 1 : l[j] = s[j]
  <2>1. \A j \in 1..i - 1 : s[j] \in S
    BY <1>1
  <2>2. /\ l \in Seq(S) /\ Len(l) = IF 1 <= i - 1 THEN (i - 1) - 1 + 1 ELSE 0
        /\ \A j \in 1..(i - 1) - 1 + 1 : l[j] = s[1 + j - 1]
    BY <1>1, <2>1, SubSeqProperties
  <2> HIDE DEF l
  <2> QED BY <1>1, <2>2
<1>3. r \in Seq(S) /\ Len(r) = Len(s) - i /\ \A j \in 1..Len(s) - i : r[j] = s[j + i]
  <2>1. \A j \in i + 1..Len(s) : s[j] \in S
    BY <1>1
  <2>2. /\ r \in Seq(S) /\ Len(r) = IF i + 1 <= Len(s) THEN Len(s) - (i + 1) + 1 ELSE 0
        /\ \A j \in 1..Len(s) - (i + 1) + 1 : r[j] = s[(i + 1) + j - 1]
    BY <1>1, <2>1, SubSeqProperties
  <2> HIDE DEF r
  <2> QED BY <1>1, <2>2
<1> HIDE DEF l, r
<1>4. /\ l \o r \in Seq(S) /\ Len(l \o r) = Len(l) + Len(r)
      /\ \A j \in 1..Len(l) + Len(r) :
            (l \o r)[j] = IF j <= Len(l) THEN l[j] ELSE r[j - Len(l)]
  BY <1>2, <1>3, ConcatProperties
<1>5. Len(l) + Len(r) = Len(s) - 1
  BY <1>1, <1>2, <1>3
<1>6. ASSUME NEW j \in 1..Len(s) - 1 PROVE (l \o r)[j] = IF j < i THEN s[j] ELSE s[j + 1]
  <2>1. (l \o r)[j] = IF j <= Len(l) THEN l[j] ELSE r[j - Len(l)]
    BY <1>4, <1>5
  <2>2. CASE j < i
    BY <1>1, <1>2, <2>1, <2>2
  <2>3. CASE ~(j < i)
    <3>1. j - (i - 1) \in 1..Len(s) - i /\ (j - (i - 1)) + i = j + 1 /\ ~(j <= i - 1)
      BY <1>1, <2>3
    <3> QED BY <1>2, <1>3, <2>1, <2>3, <3>1
  <2> QED BY <2>2, <2>3
<1> QED BY <1>4, <1>5, <1>6 DEF RemoveAt, l, r

\* A cache made of the entry e and of what s has for other codes, once for each.
MadeOf(new, e, s) ==
    /\ new \in Seq(CacheEntry) /\ Len(new) <= Cap
    /\ \A i, j \in DOMAIN new : new[i].code = new[j].code => i = j
    /\ \A i \in DOMAIN new :
          new[i] = e \/ (new[i].code # e.code /\ \E j \in DOMAIN s : new[i] = s[j])

LEMMA EntryTyped ==
    ASSUME CacheOK, NEW i \in DOMAIN cache
    PROVE  cache[i] \in CacheEntry /\ cache[i].code \in Codes /\ cache[i].ver \in Versions
<1>1. cache \in Seq(CacheEntry) /\ i \in 1..Len(cache)
  BY LenProperties DEF CacheOK
<1>2. cache[i] \in CacheEntry
  BY <1>1, ElementOfSeq
<1> QED BY <1>2 DEF CacheEntry

LEMMA WithoutIs ==
    ASSUME CacheOK, NEW c
    PROVE  /\ Without(c) \in Seq(CacheEntry) /\ Len(Without(c)) <= Cap
           /\ Cached(c) => Len(Without(c)) + 1 <= Cap
           /\ \A i, j \in DOMAIN Without(c) : Without(c)[i].code = Without(c)[j].code => i = j
           /\ \A i \in DOMAIN Without(c) :
                 Without(c)[i].code # c /\ \E j \in DOMAIN cache : Without(c)[i] = cache[j]
<1>1. cache \in Seq(CacheEntry) /\ Len(cache) \in Nat /\ DOMAIN cache = 1..Len(cache)
      /\ Len(cache) <= Cap /\ Cap \in Nat
  BY LenProperties, Constants DEF CacheOK
<1>2. CASE ~Cached(c)
  <2>1. Without(c) = cache /\ \A i \in DOMAIN cache : cache[i].code # c
    BY <1>2 DEF Without, Cached, Entries, Range
  <2> QED BY <1>1, <1>2, <2>1 DEF CacheOK
<1>3. CASE Cached(c)
  <2>1. PICK k \in 1..Len(cache) : k = Place(c) /\ cache[k].code = c
    BY <1>1, <1>3 DEF Cached, Entries, Range, Place
  <2> DEFINE w == RemoveAt(cache, k)
  <2>2. Without(c) = w
    BY <1>3, <2>1 DEF Without
  <2>3. /\ w \in Seq(CacheEntry) /\ Len(w) = Len(cache) - 1
        /\ \A j \in 1..Len(cache) - 1 : w[j] = IF j < k THEN cache[j] ELSE cache[j + 1]
    BY <1>1, Removing, Zenon
  <2>4. DOMAIN w = 1..Len(cache) - 1
    BY <2>3, LenProperties
  <2> HIDE DEF w
  <2>5. \A i, j \in 1..Len(cache) : cache[i].code = cache[j].code => i = j
    BY <1>1 DEF CacheOK
  <2>6. \A i \in 1..Len(cache) - 1 :
           \E j \in 1..Len(cache) : w[i] = cache[j] /\ j # k /\ j = IF i < k THEN i ELSE i + 1
    BY <1>1, <2>3
  <2>7. \A i \in DOMAIN w : w[i].code # c /\ \E j \in DOMAIN cache : w[i] = cache[j]
    <3> SUFFICES ASSUME NEW i \in 1..Len(cache) - 1
                 PROVE  w[i].code # c /\ \E j \in DOMAIN cache : w[i] = cache[j]
      BY <2>4
    <3>1. PICK j \in 1..Len(cache) : w[i] = cache[j] /\ j # k
      BY <2>6
    <3>2. cache[j].code # cache[k].code
      BY <2>5, <3>1
    <3> QED BY <1>1, <2>1, <3>1, <3>2
  <2>8. \A i, j \in DOMAIN w : w[i].code = w[j].code => i = j
    BY <1>1, <2>4, <2>5, <2>6, SMTT(30)
  <2> QED BY <1>1, <2>2, <2>3, <2>7, <2>8
<1> QED BY <1>2, <1>3

\* An entry in front of the others.
LEMMA InFront ==
    ASSUME CacheOK, NEW e \in CacheEntry
    PROVE  LET new == <<e>> \o Without(e.code) IN
           /\ Len(new) = Len(Without(e.code)) + 1
           /\ new \in Seq(CacheEntry) /\ DOMAIN new = 1..Len(new)
           /\ \A i, j \in DOMAIN new : new[i].code = new[j].code => i = j
           /\ \A i \in DOMAIN new :
                 new[i] = e \/ (new[i].code # e.code /\ \E j \in DOMAIN cache : new[i] = cache[j])
<1> DEFINE w == Without(e.code)
           one == <<e>>
           new == one \o w
<1>1. /\ w \in Seq(CacheEntry)
      /\ \A i, j \in DOMAIN w : w[i].code = w[j].code => i = j
      /\ \A i \in DOMAIN w : w[i].code # e.code /\ \E j \in DOMAIN cache : w[i] = cache[j]
  BY WithoutIs
<1> HIDE DEF w
<1>2. Len(w) \in Nat /\ DOMAIN w = 1..Len(w)
  BY <1>1, LenProperties
<1>3. one \in Seq(CacheEntry) /\ Len(one) = 1 /\ one[1] = e
  OBVIOUS
<1> HIDE DEF one
<1>4. /\ new \in Seq(CacheEntry) /\ Len(new) = 1 + Len(w)
      /\ \A i \in 1..1 + Len(w) : new[i] = IF i <= 1 THEN one[i] ELSE w[i - 1]
  <2>1. one \in Seq(CacheEntry)
    BY <1>3
  <2>2. w \in Seq(CacheEntry)
    BY <1>1
  <2>3. /\ new \in Seq(CacheEntry) /\ Len(new) = Len(one) + Len(w)
        /\ \A i \in 1..(Len(one) + Len(w)) : new[i] = IF i <= Len(one) THEN one[i] ELSE w[i - Len(one)]
    BY <2>1, <2>2, ConcatProperties
  <2>4. Len(one) = 1
    BY <1>3
  <2> HIDE DEF new
  <2> QED BY <2>3, <2>4
<1>5. DOMAIN new = 1..Len(new)
  BY <1>4, LenProperties
<1> HIDE DEF new
<1>6. \A i \in DOMAIN new : \/ i = 1 /\ new[i] = e
                            \/ i # 1 /\ i - 1 \in DOMAIN w /\ new[i] = w[i - 1]
  <2> SUFFICES ASSUME NEW i \in 1..1 + Len(w)
               PROVE  \/ i = 1 /\ new[i] = e
                      \/ i # 1 /\ i - 1 \in DOMAIN w /\ new[i] = w[i - 1]
    BY <1>4, <1>5
  <2>1. new[i] = IF i <= 1 THEN one[i] ELSE w[i - 1]
    BY <1>4
  <2>2. CASE i = 1
    BY <1>3, <2>1, <2>2
  <2>3. CASE i # 1
    BY <1>2, <2>1, <2>3
  <2> QED BY <2>2, <2>3
<1>7. \A i \in DOMAIN new :
         new[i] = e \/ (new[i].code # e.code /\ \E j \in DOMAIN cache : new[i] = cache[j])
  BY <1>1, <1>6
<1>8. \A i, j \in DOMAIN new : new[i].code = new[j].code => i = j
  BY <1>1, <1>4, <1>5, <1>6
<1> QED BY <1>2, <1>4, <1>5, <1>7, <1>8 DEF w, one, new

LEMMA PutIs ==
    ASSUME CacheOK, NEW c \in Codes, NEW v \in Versions
    PROVE  MadeOf(Put(c, v), [code |-> c, ver |-> v, expired |-> FALSE], cache)
<1> DEFINE e == [code |-> c, ver |-> v, expired |-> FALSE]
           new == <<e>> \o Without(c)
           n == IF Len(new) > Cap THEN Cap ELSE Len(new)
<1>1. e \in CacheEntry /\ e.code = c
  BY DEF CacheEntry
<1> HIDE DEF e
<1>2. /\ new \in Seq(CacheEntry) /\ DOMAIN new = 1..Len(new)
      /\ \A i, j \in DOMAIN new : new[i].code = new[j].code => i = j
      /\ \A i \in DOMAIN new :
            new[i] = e \/ (new[i].code # e.code /\ \E j \in DOMAIN cache : new[i] = cache[j])
  BY <1>1, InFront
<1> HIDE DEF new
<1>3. Len(new) \in Nat /\ \A i \in 1..Len(new) : new[i] \in CacheEntry
  BY <1>2, ElementOfSeq, LenProperties
<1>4. n \in Nat /\ n <= Cap /\ n <= Len(new)
  BY <1>3, Constants
<1> HIDE DEF n
<1> DEFINE t == SubSeq(new, 1, n)
<1>5. /\ t \in Seq(CacheEntry) /\ Len(t) = n
      /\ \A i \in 1..n : t[i] = new[i]
  <2>1. \A i \in 1..n : new[i] \in CacheEntry
    BY <1>3, <1>4
  <2>2. /\ t \in Seq(CacheEntry) /\ Len(t) = IF 1 <= n THEN n - 1 + 1 ELSE 0
        /\ \A i \in 1..n - 1 + 1 : t[i] = new[1 + i - 1]
    BY <1>4, <2>1, SubSeqProperties
  <2> HIDE DEF t
  <2> QED BY <1>4, <2>2
<1>6. DOMAIN t = 1..n
  BY <1>5, LenProperties
<1>7. Put(c, v) = t
  BY DEF Put, Evicted, t, n, new, e
<1> HIDE DEF t
<1>8. MadeOf(t, e, cache)
  <2>1. \A i \in DOMAIN t : i \in DOMAIN new /\ t[i] = new[i]
    BY <1>2, <1>3, <1>4, <1>5, <1>6
  <2> QED BY <1>2, <1>4, <1>5, <2>1 DEF MadeOf
<1> QED BY <1>7, <1>8 DEF e

-----------------------------------------------------------------------------
(* The lists *)

\* A listing names the codes of the store, each with the version that is there.
LEMMA ListingIs ==
    ASSUME StoreTypes, NEW list \in Listings
    PROVE  /\ Snapshot(list) \in Seq(Item) /\ DOMAIN Snapshot(list) = DOMAIN list
           /\ \A i \in DOMAIN list :
                 /\ Snapshot(list)[i].code \in Codes /\ store[Snapshot(list)[i].code] # 0
                 /\ Snapshot(list)[i].ver = store[Snapshot(list)[i].code]
           /\ \A c \in Codes : store[c] # 0 => \E i \in DOMAIN list : Snapshot(list)[i].code = c
<1> DEFINE n == Cardinality(Stored)
<1>1. Stored \subseteq Codes /\ IsFiniteSet(Stored) /\ n \in Nat
  BY Constants, FS_Subset, FS_CardinalityType DEF Stored
<1>2. DOMAIN list = 1..n /\ Range(list) = Stored /\ \A i \in 1..n : list[i] \in Stored
  BY DEF Listings
<1>3. \A i \in 1..n : list[i] \in Codes /\ store[list[i]] # 0 /\ store[list[i]] \in Versions
  BY <1>1, <1>2, Constants DEF Stored, StoreTypes
<1>4. \A i \in 1..n : Snapshot(list)[i] = [code |-> list[i], ver |-> store[list[i]], keep |-> i <= Cap]
  BY <1>2 DEF Snapshot
<1>5. Snapshot(list) \in [1..n -> Item]
  <2>1. \A i \in 1..n : (i <= Cap) \in BOOLEAN
    OBVIOUS
  <2>2. \A i \in 1..n : [code |-> list[i], ver |-> store[list[i]], keep |-> i <= Cap] \in Item
    BY <1>3, <2>1 DEF Item
  <2> QED BY <1>2, <2>2 DEF Snapshot
<1>6. Snapshot(list) \in Seq(Item)
  BY <1>1, <1>5, SeqDef
<1>7. \A c \in Codes : store[c] # 0 => \E i \in 1..n : list[i] = c
  BY <1>2 DEF Stored, Range
<1> QED BY <1>2, <1>3, <1>4, <1>5, <1>6, <1>7

\* The first of a list, and what is left.
LEMMA FirstAndRest ==
    ASSUME NEW s \in Seq(Item), s # <<>>
    PROVE  /\ Head(s) \in Item /\ Head(s).code \in Codes /\ Head(s).ver \in Versions
           /\ Head(s) = s[1] /\ 1 \in DOMAIN s
           /\ Tail(s) \in Seq(Item) /\ Len(Tail(s)) = Len(s) - 1
           /\ \A i \in DOMAIN Tail(s) : i + 1 \in DOMAIN s /\ Tail(s)[i] = s[i + 1]
           /\ \A i \in DOMAIN s : s[i] = Head(s) \/ \E j \in DOMAIN Tail(s) : Tail(s)[j] = s[i]
<1>1. Len(s) \in Nat \ {0} /\ DOMAIN s = 1..Len(s) /\ Head(s) = s[1]
  BY LenProperties, EmptySeq
<1>2. /\ Head(s) \in Item /\ Tail(s) \in Seq(Item) /\ Len(Tail(s)) = Len(s) - 1
      /\ \A i \in 1..Len(Tail(s)) : Tail(s)[i] = s[i + 1]
  BY HeadTailProperties
<1>3. DOMAIN Tail(s) = 1..Len(Tail(s))
  BY <1>2, LenProperties
<1>4. Head(s).code \in Codes /\ Head(s).ver \in Versions
  BY <1>2 DEF Item
<1>5. \A i \in DOMAIN Tail(s) : i + 1 \in DOMAIN s /\ Tail(s)[i] = s[i + 1]
  BY <1>1, <1>2, <1>3
<1>6. ASSUME NEW i \in DOMAIN s
      PROVE  s[i] = Head(s) \/ \E j \in DOMAIN Tail(s) : Tail(s)[j] = s[i]
  <2>1. CASE i = 1
    BY <1>1, <2>1
  <2>2. CASE i # 1
    <3>1. i - 1 \in DOMAIN Tail(s) /\ (i - 1) + 1 = i
      BY <1>1, <1>2, <1>3, <2>2
    <3>2. Tail(s)[i - 1] = s[i]
      BY <1>2, <1>3, <3>1
    <3> QED BY <3>1, <3>2
  <2> QED BY <2>1, <2>2
<1> QED BY <1>1, <1>2, <1>4, <1>5, <1>6

\* What an owner has to tell is one thing.
LEMMA OneThing ==
    ASSUME TodoOK, NEW q \in Owners
    PROVE  /\ q \in Publishers /\ todo[q] \in Seq(Item)
           /\ Working(q) => todo[q] # <<>> /\ Tail(todo[q]) = <<>>
<1>1. q \in Publishers /\ todo[q] \in Seq(Item)
  BY Constants DEF TodoOK
<1>2. CASE Working(q)
  <2>1. Len(todo[q]) = 1
    BY <1>2 DEF TodoOK
  <2>2. todo[q] # <<>>
    BY <2>1
  <2>3. Tail(todo[q]) \in Seq(Item) /\ Len(Tail(todo[q])) = 0
    BY <1>1, <2>1, <2>2, FirstAndRest
  <2> QED BY <1>1, <2>2, <2>3, EmptySeq
<1> QED BY <1>1, <1>2

-----------------------------------------------------------------------------
(* Steps that only callers take *)

storeVars == <<store, made, live>>

\* What such a step leaves alone.
LEMMA CallerFrame ==
    ASSUME IInv, UNCHANGED <<storeVars, bloom, told>>
    PROVE  /\ StoreTypes' /\ TodoOK' /\ BitsOK' /\ LiveOK'
           /\ raced' = raced => TodoFresh'
           /\ \A c \in Codes : Unannounced(c)' = Unannounced(c)
<1> USE DEF IInv, storeVars, told
<1>1. StoreTypes'
  BY DEF StoreTypes
<1>2. TodoOK'
  BY DEF TodoOK, Working
<1>3. BitsOK'
  BY DEF BitsOK, MayContain, Listed
<1>4. LiveOK'
  BY DEF LiveOK
<1>5. raced' = raced => TodoFresh'
  BY DEF TodoFresh, Publishes
<1>6. \A c \in Codes : Unannounced(c)' = Unannounced(c)
  BY DEF Unannounced
<1> QED BY <1>1, <1>2, <1>3, <1>4, <1>5, <1>6

\* A caller goes on, and neither asks the store nor answers.
LEMMA MovesOn ==
    ASSUME IInv, NEW p \in Callers, NEW label \in {"lookup", "join"},
           pc' = [pc EXCEPT ![p] = label], pc[p] \in {"idle", "lookup"},
           CallTypes', CacheOK', EntriesFresh',
           \A r \in Callers : r # p => arg'[r] = arg[r] /\ seen'[r] = seen[r],
           live[arg'[p]] \subseteq seen'[p] /\ (Unannounced(arg'[p]) => 0 \in seen'[p]),
           UNCHANGED <<storeVars, bloom, told, flight, leader, val, stale, raced>>
    PROVE  IInv'
<1>1. /\ StoreTypes' /\ TodoOK' /\ BitsOK' /\ LiveOK' /\ TodoFresh'
      /\ \A c \in Codes : Unannounced(c)' = Unannounced(c)
  BY CallerFrame
<1>2. pc'[p] = label /\ \A r \in Callers : r # p => pc'[r] = pc[r]
  BY DEF IInv, CallTypes
<1>3. CallsFresh'
  BY <1>1, <1>2 DEF IInv, CallTypes, CallsFresh, HasAsked, storeVars
<1>4. SeenOK'
  BY <1>1, <1>2 DEF IInv, CallTypes, SeenOK, Active, storeVars
<1>5. FlightOK'
  BY <1>2 DEF IInv, CallTypes, FlightOK, Asking
<1> QED BY <1>1, <1>3, <1>4, <1>5 DEF IInv

LEMMA BeginInv ==
    ASSUME IInv, NEW p \in Callers, NEW c \in Codes, Begin(p, c)
    PROVE  IInv'
<1>1. /\ pc[p] = "idle" /\ arg' = [arg EXCEPT ![p] = c]
      /\ seen' = [seen EXCEPT ![p] = Current(c)] /\ pc' = [pc EXCEPT ![p] = "lookup"]
      /\ UNCHANGED <<store, made, bloom, cache, flight, leader, val, told, live, stale, raced>>
  BY DEF Begin, Goto
<1>2. Current(c) \subseteq 0..MaxMade
  BY Constants DEF IInv, StoreTypes, Current
<1>3. /\ pc \in [Callers -> Labels] /\ arg \in [Callers -> Codes]
      /\ seen \in [Callers -> SUBSET (0..MaxMade)]
  BY DEF IInv, CallTypes
<1>4. CallTypes'
  BY <1>1, <1>2, <1>3 DEF IInv, CallTypes, Labels
<1>5. CacheOK' /\ EntriesFresh'
  BY <1>1 DEF IInv, CacheOK, EntriesFresh
<1>6. live[arg'[p]] \subseteq seen'[p] /\ (Unannounced(arg'[p]) => 0 \in seen'[p])
  BY <1>1, <1>3 DEF Current
<1>7. \A r \in Callers : r # p => arg'[r] = arg[r] /\ seen'[r] = seen[r]
  BY <1>1, <1>3
<1> QED BY <1>1, <1>4, <1>5, <1>6, <1>7, MovesOn DEF storeVars

\* Callers return what they may.
LEMMA AnswerInv ==
    ASSUME IInv, NEW ps \in SUBSET Callers, NEW v, Answer(ps, v),
           \A r \in ps : ~Asking(r),
           \A r \in Callers : pc[r] = "wait" /\ leader[r] \in ps => r \in ps,
           \A r \in ps : v \in seen[r] \/ arg[r] \in raced,
           CacheOK', EntriesFresh',
           UNCHANGED <<storeVars, bloom, told, flight, raced>>
    PROVE  IInv'
<1>1. /\ StoreTypes' /\ TodoOK' /\ BitsOK' /\ LiveOK' /\ TodoFresh'
      /\ \A c \in Codes : Unannounced(c)' = Unannounced(c)
  BY CallerFrame
<1>2. /\ pc \in [Callers -> Labels] /\ arg \in [Callers -> Codes]
      /\ leader \in [Callers -> Callers \cup {Nobody}] /\ val \in [Callers -> 0..MaxMade]
      /\ seen \in [Callers -> SUBSET (0..MaxMade)]
  BY DEF IInv, CallTypes
<1>3. stale' = {}
  BY DEF Answer, IInv
<1>4. CallTypes'
  <2>1. pc' \in [Callers -> Labels]
    BY <1>2 DEF Answer, Labels
  <2>2. arg' \in [Callers -> Codes]
    BY <1>2, Constants DEF Answer
  <2>3. leader' \in [Callers -> Callers \cup {Nobody}]
    BY <1>2 DEF Answer
  <2>4. val' \in [Callers -> 0..MaxMade]
    BY <1>2, Constants DEF Answer
  <2>5. seen' \in [Callers -> SUBSET (0..MaxMade)]
    BY <1>2 DEF Answer
  <2> QED BY <2>1, <2>2, <2>3, <2>4, <2>5 DEF IInv, CallTypes
<1>5. /\ \A r \in ps : pc'[r] = "idle"
      /\ \A r \in Callers \ ps : pc'[r] = pc[r] /\ arg'[r] = arg[r] /\ leader'[r] = leader[r]
                                 /\ val'[r] = val[r] /\ seen'[r] = seen[r]
  BY DEF Answer
<1>6. CallsFresh'
  <2>1. ASSUME NEW r \in Callers, HasAsked(r)'
        PROVE  \/ arg'[r] \in raced'
               \/ IF val'[r] = 0 THEN Unannounced(arg[r])' ELSE val'[r] \in live'[arg'[r]]
    <3>1. r \notin ps /\ HasAsked(r)
      BY <1>5, <2>1 DEF HasAsked
    <3>2. \/ arg[r] \in raced
          \/ IF val[r] = 0 THEN Unannounced(arg[r]) ELSE val[r] \in live[arg[r]]
      BY <3>1 DEF IInv, CallsFresh
    <3>3. arg'[r] = arg[r] /\ val'[r] = val[r] /\ raced' = raced /\ live' = live
          /\ arg[r] \in Codes
      BY <1>2, <1>5, <3>1 DEF storeVars
    <3>4. Unannounced(arg[r])' = Unannounced(arg[r])
      BY <3>3 DEF Unannounced, storeVars, told
    <3> QED BY <3>2, <3>3, <3>4
  <2>2. \A r \in Callers : pc'[r] = "fill" => val'[r] # 0
    BY <1>5 DEF IInv, CallsFresh
  <2> QED BY <2>1, <2>2 DEF CallsFresh
<1>7. SeenOK'
  <2> SUFFICES ASSUME NEW r \in Callers, Active(r)'
               PROVE  live'[arg'[r]] \subseteq seen'[r] /\ (Unannounced(arg[r])' => 0 \in seen'[r])
    BY DEF SeenOK
  <2>1. r \notin ps /\ Active(r)
    BY <1>5 DEF Active
  <2> QED BY <1>1, <1>2, <1>5, <2>1 DEF IInv, SeenOK, Unannounced, storeVars, told
<1>8. FlightOK'
  <2>1. ASSUME NEW c \in Codes, NEW r \in Callers
        PROVE  flight'[c] = r <=> Asking(r)' /\ arg'[r] = c
    <3>1. flight[c] = r <=> Asking(r) /\ arg[r] = c
      BY DEF IInv, FlightOK
    <3>2. CASE r \in ps
      BY <1>5, <3>1, <3>2 DEF Asking
    <3>3. CASE r \notin ps
      BY <1>5, <3>1, <3>3 DEF Asking
    <3> QED BY <3>2, <3>3
  <2>2. ASSUME NEW r \in Callers, pc'[r] = "wait"
        PROVE  /\ leader'[r] \in Callers /\ arg'[leader'[r]] = arg'[r]
               /\ Asking(leader[r])' \/ pc'[leader'[r]] = "done"
    <3>1. r \notin ps /\ pc[r] = "wait" /\ leader[r] \notin ps
      BY <1>5, <2>2
    <3>2. /\ leader[r] \in Callers /\ arg[leader[r]] = arg[r]
          /\ Asking(leader[r]) \/ pc[leader[r]] = "done"
      BY <3>1 DEF IInv, FlightOK
    <3>3. leader'[r] = leader[r] /\ arg'[r] = arg[r]
          /\ arg'[leader[r]] = arg[leader[r]] /\ pc'[leader[r]] = pc[leader[r]]
      BY <1>5, <3>1, <3>2
    <3> QED BY <3>2, <3>3 DEF Asking
  <2> QED BY <2>1, <2>2 DEF FlightOK
<1> QED BY <1>1, <1>3, <1>4, <1>6, <1>7, <1>8 DEF IInv

\* Nothing but the cache.
LEMMA CacheOnly ==
    ASSUME IInv, CacheOK', EntriesFresh',
           UNCHANGED <<storeVars, bloom, told, callers, seen, stale, raced>>
    PROVE  IInv'
<1>1. /\ StoreTypes' /\ TodoOK' /\ BitsOK' /\ LiveOK' /\ TodoFresh'
      /\ \A c \in Codes : Unannounced(c)' = Unannounced(c)
  BY CallerFrame
<1>2. CallTypes' /\ SeenOK' /\ CallsFresh'
  BY <1>1 DEF IInv, CallTypes, SeenOK, CallsFresh, HasAsked, Active, callers, storeVars
<1>3. FlightOK'
  BY DEF IInv, FlightOK, Asking, callers
<1> QED BY <1>1, <1>2, <1>3 DEF IInv

LEMMA EntryIs ==
    ASSUME CacheOK, NEW c, Cached(c)
    PROVE  /\ Entry(c) \in CacheEntry /\ Entry(c).code = c
           /\ \E k \in DOMAIN cache : Entry(c) = cache[k]
<1>1. Place(c) \in DOMAIN cache /\ cache[Place(c)].code = c
  BY DEF Cached, Entries, Range, Place
<1>2. cache[Place(c)] \in CacheEntry
  BY <1>1, ElementOfSeq, LenProperties DEF CacheOK
<1> QED BY <1>1, <1>2 DEF Entry

LEMMA ExpireInv ==
    ASSUME IInv, NEW c \in Codes, Expire(c)
    PROVE  IInv'
<1>1. /\ UNCHANGED <<store, made, bloom, callers, told, live, seen, stale, raced>>
      /\ cache' = [i \in DOMAIN cache |->
                    IF cache[i].code = c THEN [cache[i] EXCEPT !.expired = TRUE] ELSE cache[i]]
  BY DEF Expire
<1>2. /\ cache \in Seq(CacheEntry) /\ Len(cache) \in Nat /\ Len(cache) <= Cap
      /\ DOMAIN cache = 1..Len(cache) /\ \A i \in 1..Len(cache) : cache[i] \in CacheEntry
  BY ElementOfSeq, LenProperties DEF IInv, CacheOK
<1>3. /\ DOMAIN cache' = DOMAIN cache
      /\ \A i \in DOMAIN cache : /\ cache'[i].code = cache[i].code /\ cache'[i].ver = cache[i].ver
                                 /\ cache'[i] \in CacheEntry
  BY <1>1, <1>2 DEF CacheEntry
<1>4. cache' \in Seq(CacheEntry) /\ Len(cache') = Len(cache)
  <2>1. cache' \in [1..Len(cache) -> CacheEntry]
    BY <1>1, <1>2, <1>3
  <2>2. cache' \in Seq(CacheEntry)
    BY <1>2, <2>1, SeqDef
  <2> QED BY <1>2, <1>3, <2>2, LenProperties
<1>5. CacheOK' /\ EntriesFresh'
  BY <1>1, <1>2, <1>3, <1>4 DEF IInv, CacheOK, EntriesFresh
<1> QED BY <1>1, <1>5, CacheOnly DEF storeVars

LEMMA FilterComplete == IInv => BloomComplete
<1> SUFFICES ASSUME IInv, NEW c \in Codes, booted, ~Unannounced(c)
             PROVE  MayContain(c)
  BY DEF BloomComplete
<1>1. store[c] # 0 /\ \A q \in Owners : stage[q] = "bits" => Head(todo[q]).code # c
  BY DEF Unannounced
<1> QED BY <1>1 DEF IInv, BitsOK

LEMMA DenyInv ==
    ASSUME IInv, NEW c \in Codes, Deny(c)
    PROVE  IInv'
<1>1. 0 \in Current(c)
  BY FilterComplete DEF Deny, BloomComplete, Current
<1>2. UNCHANGED <<storeVars, bloom, told, callers, seen, stale, raced, cache>>
  BY <1>1 DEF Deny, storeVars
<1>3. CacheOK' /\ EntriesFresh'
  BY <1>2 DEF IInv, CacheOK, EntriesFresh, storeVars
<1> QED BY <1>2, <1>3, CacheOnly

LEMMA LookupInv ==
    ASSUME IInv, NEW p \in Callers, Lookup(p)
    PROVE  IInv'
<1> DEFINE c == arg[p]
<1>1. /\ pc[p] = "lookup" /\ c \in Codes /\ CacheOK
      /\ UNCHANGED <<store, made, bloom, flight, told, live, raced>>
  BY DEF Lookup, IInv, CallTypes
<1>2. live[c] \subseteq seen[p] /\ (Unannounced(c) => 0 \in seen[p])
  BY <1>1 DEF IInv, SeenOK, Active
<1>3. CASE Cached(c) /\ ~Entry(c).expired
  <2>1. cache' = <<Entry(c)>> \o Without(c) /\ Answer({p}, Entry(c).ver)
    BY <1>3 DEF Lookup
  <2>2. PICK e : e = Entry(c)
    OBVIOUS
  <2>3. e \in CacheEntry /\ e.code = c /\ \E k \in DOMAIN cache : e = cache[k]
    BY <1>1, <1>3, <2>2, EntryIs
  <2>4. /\ Len(cache') = Len(Without(c)) + 1
        /\ cache' \in Seq(CacheEntry) /\ DOMAIN cache' = 1..Len(cache')
        /\ \A i, j \in DOMAIN cache' : cache'[i].code = cache'[j].code => i = j
        /\ \A i \in DOMAIN cache' : cache'[i] = e \/ \E j \in DOMAIN cache : cache'[i] = cache[j]
    BY <1>1, <2>1, <2>2, <2>3, InFront
  <2>5. Len(cache') <= Cap
    BY <1>1, <1>3, <2>4, WithoutIs
  <2>6. CacheOK'
    BY <2>4, <2>5 DEF CacheOK
  <2>7. EntriesFresh'
    <3>1. \A i \in DOMAIN cache' : \E j \in DOMAIN cache : cache'[i] = cache[j]
      BY <2>3, <2>4
    <3> QED BY <1>1, <3>1 DEF IInv, EntriesFresh
  <2>8. e.ver \in seen[p] \/ arg[p] \in raced
    BY <1>2, <2>3 DEF IInv, EntriesFresh
  <2>9. \A r \in Callers : pc[r] = "wait" /\ leader[r] \in {p} => r \in {p}
    BY <1>1 DEF IInv, FlightOK, Asking
  <2>10. ~Asking(p)
    BY <1>1 DEF Asking
  <2> QED BY <1>1, <2>1, <2>2, <2>6, <2>7, <2>8, <2>9, <2>10, AnswerInv DEF storeVars
<1>4. CASE ~(Cached(c) /\ ~Entry(c).expired)
  <2>1. /\ cache' = Without(c) /\ pc' = [pc EXCEPT ![p] = "join"]
        /\ UNCHANGED <<arg, leader, val, seen, stale>>
    BY <1>4 DEF Lookup, Goto
  <2>2. CacheOK'
    BY <1>1, <2>1, WithoutIs DEF CacheOK
  <2>3. EntriesFresh'
    <3>1. \A i \in DOMAIN cache' : \E j \in DOMAIN cache : cache'[i] = cache[j]
      BY <1>1, <2>1, WithoutIs
    <3> QED BY <1>1, <3>1 DEF IInv, EntriesFresh
  <2>4. CallTypes'
    BY <1>1, <2>1 DEF IInv, CallTypes, Labels
  <2>5. live[arg'[p]] \subseteq seen'[p] /\ (Unannounced(arg'[p]) => 0 \in seen'[p])
    BY <1>2, <2>1
  <2> QED BY <1>1, <2>1, <2>2, <2>3, <2>4, <2>5, MovesOn DEF storeVars
<1> QED BY <1>3, <1>4

\* A caller goes on in its call, or in that of another.
LEMMA CallStep ==
    ASSUME IInv, NEW p \in Callers, NEW label \in Labels \ {"idle"}, Active(p),
           pc' = [pc EXCEPT ![p] = label],
           CallTypes', CacheOK', EntriesFresh', FlightOK', CallsFresh',
           UNCHANGED <<storeVars, bloom, told, arg, seen, stale, raced>>
    PROVE  IInv'
<1>1. /\ StoreTypes' /\ TodoOK' /\ BitsOK' /\ LiveOK' /\ TodoFresh'
      /\ \A c \in Codes : Unannounced(c)' = Unannounced(c)
  BY CallerFrame
<1>2. SeenOK'
  BY <1>1 DEF IInv, CallTypes, SeenOK, Active, storeVars
<1> QED BY <1>1, <1>2 DEF IInv

LEMMA JoinInv ==
    ASSUME IInv, NEW p \in Callers, Join(p)
    PROVE  IInv'
<1> DEFINE c == arg[p]
<1>1. /\ pc[p] = "join" /\ c \in Codes /\ pc \in [Callers -> Labels]
      /\ flight \in [Codes -> Callers \cup {Nobody}]
      /\ leader \in [Callers -> Callers \cup {Nobody}]
      /\ UNCHANGED <<store, made, bloom, cache, arg, val, told, live, seen, stale, raced>>
  BY DEF Join, IInv, CallTypes
<1>2. CacheOK' /\ EntriesFresh'
  BY <1>1 DEF IInv, CacheOK, EntriesFresh
<1>3. PICK label \in {"wait", "fetch"} :
         /\ pc' = [pc EXCEPT ![p] = label]
         /\ label = "wait" => /\ flight[c] # Nobody
                              /\ leader' = [leader EXCEPT ![p] = flight[c]] /\ flight' = flight
         /\ label = "fetch" => /\ flight[c] = Nobody
                               /\ flight' = [flight EXCEPT ![c] = p] /\ leader' = leader
  BY DEF Join, Goto, InFlight
<1>4. pc'[p] = label /\ \A r \in Callers : r # p => pc'[r] = pc[r]
  BY <1>1, <1>3
<1>5. CallTypes'
  BY <1>1, <1>3 DEF IInv, CallTypes, Labels
<1>6. CallsFresh'
  <2>1. \A a \in Codes : Unannounced(a)' = Unannounced(a)
    BY <1>1, CallerFrame DEF storeVars
  <2> QED BY <1>1, <1>3, <1>4, <2>1 DEF IInv, CallTypes, CallsFresh, HasAsked
<1>7. FlightOK'
  <2>1. ~Asking(p) /\ pc[p] # "done" /\ \A r \in Callers : pc[r] = "wait" => leader[r] # p
    BY <1>1 DEF IInv, FlightOK, Asking
  <2>2. CASE label = "wait"
    <3>1. flight[c] \in Callers /\ Asking(flight[c]) /\ arg[flight[c]] = c
      BY <1>1, <1>3, <2>2 DEF IInv, FlightOK
    <3>2. \A r \in Callers : Asking(r)' = Asking(r)
      BY <1>4, <2>1, <2>2 DEF Asking
    <3>3. \A a \in Codes, r \in Callers : flight'[a] = r <=> Asking(r)' /\ arg'[r] = a
      BY <1>1, <1>3, <2>2, <3>2 DEF IInv, FlightOK
    <3>4. ASSUME NEW r \in Callers, pc'[r] = "wait"
          PROVE  /\ leader'[r] \in Callers /\ arg'[leader'[r]] = arg'[r]
                 /\ Asking(leader[r])' \/ pc'[leader'[r]] = "done"
      <4>1. CASE r = p
        <5>1. leader'[r] = flight[c]
          BY <1>1, <1>3, <2>2, <4>1
        <5>2. pc'[flight[c]] = pc[flight[c]]
          BY <1>4, <2>1, <3>1
        <5> QED BY <1>1, <3>1, <4>1, <5>1, <5>2 DEF Asking
      <4>2. CASE r # p
        <5>1. leader'[r] = leader[r] /\ pc[r] = "wait" /\ leader[r] # p
          BY <1>1, <1>3, <1>4, <2>1, <2>2, <3>4, <4>2
        <5> QED BY <1>1, <1>4, <5>1 DEF IInv, FlightOK, Asking
      <4> QED BY <4>1, <4>2
    <3> QED BY <3>3, <3>4 DEF FlightOK
  <2>3. CASE label = "fetch"
    <3>1. \A a \in Codes, r \in Callers : flight'[a] = r <=> Asking(r)' /\ arg'[r] = a
      <4> SUFFICES ASSUME NEW a \in Codes, NEW r \in Callers
                   PROVE  flight'[a] = r <=> Asking(r)' /\ arg'[r] = a
        OBVIOUS
      <4>1. flight[a] = r <=> Asking(r) /\ arg[r] = a
        BY DEF IInv, FlightOK
      <4>2. CASE a = c
        BY <1>1, <1>3, <1>4, <2>1, <2>3, <4>1, <4>2, Constants DEF Asking
      <4>3. CASE a # c
        BY <1>1, <1>3, <1>4, <2>1, <2>3, <4>1, <4>3 DEF Asking
      <4> QED BY <4>2, <4>3
    <3>2. ASSUME NEW r \in Callers, pc'[r] = "wait"
          PROVE  /\ leader'[r] \in Callers /\ arg'[leader'[r]] = arg'[r]
                 /\ Asking(leader[r])' \/ pc'[leader'[r]] = "done"
      <4>1. leader'[r] = leader[r] /\ pc[r] = "wait" /\ leader[r] # p
        BY <1>3, <1>4, <2>1, <2>3, <3>2
      <4> QED BY <1>1, <1>4, <4>1 DEF IInv, FlightOK, Asking
    <3> QED BY <3>1, <3>2 DEF FlightOK
  <2> QED BY <1>3, <2>2, <2>3
<1> QED BY <1>1, <1>2, <1>3, <1>5, <1>6, <1>7, CallStep DEF Active, Labels, storeVars

LEMMA FetchInv ==
    ASSUME IInv, NEW p \in Callers, Fetch(p)
    PROVE  IInv'
<1> DEFINE v == store[arg[p]]
           label == IF v = 0 THEN "leave" ELSE "fill"
<1>1. /\ pc[p] = "fetch" /\ arg[p] \in Codes /\ v \in 0..MaxMade
      /\ pc \in [Callers -> Labels] /\ val \in [Callers -> 0..MaxMade]
      /\ val' = [val EXCEPT ![p] = v] /\ pc' = [pc EXCEPT ![p] = label]
      /\ UNCHANGED <<store, made, bloom, cache, flight, arg, leader, told, live, seen, stale, raced>>
  BY DEF Fetch, Goto, IInv, CallTypes, StoreTypes
<1>2. CacheOK' /\ EntriesFresh'
  BY <1>1 DEF IInv, CacheOK, EntriesFresh
<1>3. label \in {"leave", "fill"} /\ (label = "fill" => v # 0)
  OBVIOUS
<1>4. IF v = 0 THEN Unannounced(arg[p]) ELSE v \in live[arg[p]]
  BY <1>1 DEF Unannounced, IInv, LiveOK
<1> HIDE DEF v, label
<1>5. /\ pc'[p] = label /\ val'[p] = v
      /\ \A r \in Callers : r # p => pc'[r] = pc[r] /\ val'[r] = val[r]
  BY <1>1
<1>6. CallTypes'
  BY <1>1, <1>3 DEF IInv, CallTypes, Labels
<1>7. CallsFresh'
  <2>1. \A a \in Codes : Unannounced(a)' = Unannounced(a)
    BY <1>1, CallerFrame DEF storeVars
  <2>2. ASSUME NEW r \in Callers, HasAsked(r)'
        PROVE  \/ arg'[r] \in raced'
               \/ IF val'[r] = 0 THEN Unannounced(arg[r])' ELSE val'[r] \in live'[arg'[r]]
    <3>1. CASE r = p
      BY <1>1, <1>4, <1>5, <2>1, <3>1
    <3>2. CASE r # p
      BY <1>1, <1>5, <2>1, <2>2, <3>2 DEF IInv, CallTypes, CallsFresh, HasAsked
    <3> QED BY <3>1, <3>2
  <2>3. \A r \in Callers : pc'[r] = "fill" => val'[r] # 0
    BY <1>3, <1>5 DEF IInv, CallsFresh
  <2> QED BY <2>2, <2>3 DEF CallsFresh
<1>8. FlightOK'
  <2>1. \A r \in Callers : Asking(r)' = Asking(r) /\ (pc'[r] = "wait" <=> pc[r] = "wait")
                           /\ (pc[r] = "done" => pc'[r] = "done")
    BY <1>1, <1>3, <1>5 DEF Asking
  <2> QED BY <1>1, <2>1 DEF IInv, FlightOK
<1> QED BY <1>1, <1>2, <1>3, <1>6, <1>7, <1>8, CallStep DEF Active, Labels, storeVars

LEMMA FillInv ==
    ASSUME IInv, NEW p \in Callers, Fill(p)
    PROVE  IInv'
<1>1. /\ pc[p] = "fill" /\ arg[p] \in Codes /\ val[p] \in 0..MaxMade
      /\ pc \in [Callers -> Labels]
      /\ cache' = Put(arg[p], val[p]) /\ pc' = [pc EXCEPT ![p] = "leave"]
      /\ UNCHANGED <<store, made, bloom, flight, arg, leader, val, told, live, seen, stale, raced>>
  BY DEF Fill, Goto, IInv, CallTypes
<1>2. val[p] \in Versions /\ (arg[p] \in raced \/ val[p] \in live[arg[p]])
  BY <1>1, Constants DEF IInv, CallsFresh, HasAsked
<1>3. MadeOf(cache', [code |-> arg[p], ver |-> val[p], expired |-> FALSE], cache)
  BY <1>1, <1>2, PutIs DEF IInv
<1>4. CacheOK' /\ EntriesFresh'
  BY <1>1, <1>2, <1>3 DEF MadeOf, CacheOK, EntriesFresh, IInv
<1>5. pc'[p] = "leave" /\ \A r \in Callers : r # p => pc'[r] = pc[r]
  BY <1>1
<1>6. CallTypes'
  BY <1>1 DEF IInv, CallTypes, Labels
<1>7. CallsFresh'
  <2>1. \A a \in Codes : Unannounced(a)' = Unannounced(a)
    BY <1>1, CallerFrame DEF storeVars
  <2> QED BY <1>1, <1>5, <2>1 DEF IInv, CallTypes, CallsFresh, HasAsked
<1>8. FlightOK'
  <2>1. \A r \in Callers : Asking(r)' = Asking(r) /\ (pc'[r] = "wait" <=> pc[r] = "wait")
                           /\ (pc[r] = "done" => pc'[r] = "done")
    BY <1>1, <1>5 DEF Asking
  <2> QED BY <1>1, <2>1 DEF IInv, FlightOK
<1> QED BY <1>1, <1>4, <1>6, <1>7, <1>8, CallStep DEF Active, Labels, storeVars

LEMMA LeaveInv ==
    ASSUME IInv, NEW p \in Callers, Leave(p)
    PROVE  IInv'
<1>1. /\ pc[p] = "leave" /\ arg[p] \in Codes /\ pc \in [Callers -> Labels]
      /\ flight \in [Codes -> Callers \cup {Nobody}]
      /\ pc' = [pc EXCEPT ![p] = "done"] /\ flight' = Removed(p)
      /\ UNCHANGED <<store, made, bloom, cache, arg, leader, val, told, live, seen, stale, raced>>
  BY DEF Leave, Goto, IInv, CallTypes
<1>2. flight[arg[p]] = p /\ flight' = [flight EXCEPT ![arg[p]] = Nobody]
  BY <1>1 DEF IInv, FlightOK, Asking, Removed
<1>3. CacheOK' /\ EntriesFresh'
  BY <1>1 DEF IInv, CacheOK, EntriesFresh
<1>4. pc'[p] = "done" /\ \A r \in Callers : r # p => pc'[r] = pc[r]
  BY <1>1
<1>5. CallTypes'
  BY <1>1, <1>2 DEF IInv, CallTypes, Labels
<1>6. CallsFresh'
  <2>1. \A a \in Codes : Unannounced(a)' = Unannounced(a)
    BY <1>1, CallerFrame DEF storeVars
  <2> QED BY <1>1, <1>4, <2>1 DEF IInv, CallTypes, CallsFresh, HasAsked
<1>7. FlightOK'
  <2>1. ASSUME NEW c \in Codes, NEW r \in Callers
        PROVE  flight'[c] = r <=> Asking(r)' /\ arg'[r] = c
    <3>1. flight[c] = r <=> Asking(r) /\ arg[r] = c
      BY DEF IInv, FlightOK
    <3>2. CASE c = arg[p]
      BY <1>1, <1>2, <1>4, <3>1, <3>2, Constants DEF Asking
    <3>3. CASE c # arg[p]
      BY <1>1, <1>2, <1>4, <3>1, <3>3 DEF Asking
    <3> QED BY <3>2, <3>3
  <2>2. ASSUME NEW r \in Callers, pc'[r] = "wait"
        PROVE  /\ leader'[r] \in Callers /\ arg'[leader'[r]] = arg'[r]
               /\ Asking(leader[r])' \/ pc'[leader'[r]] = "done"
    BY <1>1, <1>4, <2>2 DEF IInv, FlightOK, Asking
  <2> QED BY <2>1, <2>2 DEF FlightOK
<1> QED BY <1>1, <1>3, <1>5, <1>6, <1>7, CallStep DEF Active, Labels, storeVars

LEMMA DoneInv ==
    ASSUME IInv, NEW p \in Callers, Done(p)
    PROVE  IInv'
<1>1. /\ pc[p] = "done" /\ Answer(Sharing(p), val[p])
      /\ UNCHANGED <<store, made, bloom, cache, flight, told, live, raced>>
  BY DEF Done
<1>2. /\ Sharing(p) \in SUBSET Callers
      /\ \A r \in Callers : r \in Sharing(p) <=> r = p \/ (pc[r] = "wait" /\ leader[r] = p)
  BY DEF Sharing
<1>3. \A r \in Sharing(p) : ~Asking(r) /\ Active(r) /\ arg[r] = arg[p]
  BY <1>1, <1>2 DEF Asking, Active, IInv, FlightOK
<1>4. \A r \in Callers : pc[r] = "wait" /\ leader[r] \in Sharing(p) => r \in Sharing(p)
  BY <1>1, <1>2, <1>3 DEF IInv, FlightOK, Asking
<1>5. ASSUME NEW r \in Sharing(p), arg[r] \notin raced PROVE val[p] \in seen[r]
  <2>1. IF val[p] = 0 THEN Unannounced(arg[p]) ELSE val[p] \in live[arg[p]]
    BY <1>1, <1>2, <1>3, <1>5 DEF IInv, CallsFresh, HasAsked
  <2>2. live[arg[r]] \subseteq seen[r] /\ (Unannounced(arg[r]) => 0 \in seen[r])
    BY <1>2, <1>3 DEF IInv, SeenOK
  <2> QED BY <1>3, <2>1, <2>2
<1>6. CacheOK' /\ EntriesFresh'
  BY <1>1 DEF IInv, CacheOK, EntriesFresh
<1> QED BY <1>1, <1>2, <1>3, <1>4, <1>5, <1>6, AnswerInv DEF storeVars

-----------------------------------------------------------------------------
(* Steps of owners and of the warmer *)

\* A publisher goes to another stage with another list; the rest stay where they are.
Goes(q, label, list) ==
    /\ stage' = [stage EXCEPT ![q] = label] /\ todo' = [todo EXCEPT ![q] = list]

LEMMA GoesIs ==
    ASSUME TodoOK, NEW q \in Publishers, NEW label, NEW list, Goes(q, label, list)
    PROVE  /\ stage'[q] = label /\ todo'[q] = list
           /\ \A r \in Publishers : r # q => stage'[r] = stage[r] /\ todo'[r] = todo[r]
BY DEF TodoOK, Goes

LEMMA TodoStep ==
    ASSUME TodoOK, NEW q \in Publishers, NEW label \in {"idle", "bits", "set", "withdraw"},
           NEW list \in Seq(Item), Goes(q, label, list),
           q \in Owners => Len(list) = IF label = "idle" THEN 0 ELSE 1,
           q = Warmer => label # "withdraw" /\ (label = "set" => list # <<>>),
           booted' \in BOOLEAN, warms' \in 0..MaxWarms,
           ~booted' => ~booted /\ (q = Warmer => label # "idle")
    PROVE  TodoOK'
<1>1. /\ stage'[q] = label /\ todo'[q] = list
      /\ \A r \in Publishers : r # q => stage'[r] = stage[r] /\ todo'[r] = todo[r]
  BY GoesIs
<1>2. stage' \in [Publishers -> {"idle", "bits", "set", "withdraw"}] /\ todo' \in [Publishers -> Seq(Item)]
  BY DEF TodoOK, Goes
<1>3. \A r \in Owners : Len(todo'[r]) = IF stage'[r] \in {"bits", "set", "withdraw"} THEN 1 ELSE 0
  BY <1>1, Constants DEF TodoOK, Working
<1>4. stage'[Warmer] # "withdraw" /\ (stage'[Warmer] = "set" => todo'[Warmer] # <<>>)
  BY <1>1, Constants DEF TodoOK
<1>5. ~booted' => stage'[Warmer] # "idle"
  BY <1>1, Constants DEF TodoOK
<1> QED BY <1>2, <1>3, <1>4, <1>5 DEF TodoOK, Working

\* Callers are left alone, but for what they may return.
LEMMA CallersRest ==
    ASSUME IInv, UNCHANGED <<callers, stale>>, raced \subseteq raced', raced' \subseteq Codes,
           seen' \in [Callers -> SUBSET (0..MaxMade)]
    PROVE  CallTypes' /\ FlightOK' /\ \A p \in Callers : HasAsked(p)' = HasAsked(p) /\ Active(p)' = Active(p)
<1>1. CallTypes'
  BY DEF IInv, CallTypes, callers
<1>2. FlightOK'
  BY DEF IInv, FlightOK, Asking, callers
<1>3. \A p \in Callers : HasAsked(p)' = HasAsked(p) /\ Active(p)' = Active(p)
  BY DEF HasAsked, Active, callers
<1> QED BY <1>1, <1>2, <1>3

LEMMA ItemOf ==
    ASSUME TodoOK, NEW q \in Publishers, NEW i \in DOMAIN todo[q]
    PROVE  todo[q][i].code \in Codes /\ todo[q][i].ver \in Versions
<1>1. todo[q] \in Seq(Item) /\ i \in 1..Len(todo[q])
  BY LenProperties DEF TodoOK
<1>2. todo[q][i] \in Item
  BY <1>1, ElementOfSeq
<1> QED BY <1>2 DEF Item

LEMMA MayReturnIs ==
    ASSUME CallTypes, NEW c, NEW v \in 0..MaxMade, MayReturn(c, v)
    PROVE  /\ seen' \in [Callers -> SUBSET (0..MaxMade)]
           /\ \A p \in Callers : seen[p] \subseteq seen'[p]
           /\ \A p \in Callers : Active(p) /\ arg[p] = c => v \in seen'[p]
BY DEF CallTypes, MayReturn

LEMMA CreateInv ==
    ASSUME IInv, NEW q \in Owners, NEW c \in Codes, Create(q, c)
    PROVE  IInv'
<1> DEFINE v == made + 1
           item == [code |-> c, ver |-> v, keep |-> TRUE]
<1>0. v \in Versions /\ v \in 0..MaxMade /\ made \in Nat /\ v # 0
  BY Constants DEF Create, IInv, StoreTypes
<1>1. /\ booted /\ stage[q] = "idle" /\ store[c] = 0
      /\ made' = v /\ store' = [store EXCEPT ![c] = v] /\ live' = [live EXCEPT ![c] = @ \cup {v}]
      /\ MayReturn(c, v) /\ Goes(q, "bits", <<item>>)
      /\ UNCHANGED <<bloom, cache, callers, booted, warms, stale, raced>>
  BY DEF Create, Tell, Goes
<1>2. item \in Item /\ item.code = c /\ item.ver = v
  BY <1>0 DEF Item
<1> HIDE DEF item
<1> DEFINE list == <<item>>
<1>h. list \in Seq(Item) /\ Len(list) = 1 /\ Head(list) = item
      /\ \A i \in DOMAIN list : list[i] = item
  BY <1>2
<1> HIDE DEF list
<1>3. /\ store \in [Codes -> 0..MaxMade] /\ live \in [Codes -> SUBSET (1..made)]
      /\ \A a \in Codes : store[a] <= made /\ store[a] \in 0..MaxMade
      /\ q \in Publishers /\ q # Warmer
  BY Constants DEF IInv, StoreTypes
<1>4. /\ stage'[q] = "bits" /\ todo'[q] = list
      /\ \A r \in Publishers : r # q => stage'[r] = stage[r] /\ todo'[r] = todo[r]
  BY <1>1, <1>3, GoesIs DEF IInv, list
<1>5. /\ store'[c] = v /\ \A a \in Codes : a # c => store'[a] = store[a]
      /\ live'[c] = live[c] \cup {v} /\ \A a \in Codes : a # c => live'[a] = live[a]
  BY <1>1, <1>3
<1>6. StoreTypes'
  BY <1>0, <1>1, <1>3, <1>5 DEF StoreTypes
<1>7. TodoOK'
  <2>1. ("bits" = "idle") = FALSE /\ "bits" \in {"idle", "bits", "set", "withdraw"}
    OBVIOUS
  <2> QED BY <1>1, <1>3, <1>h, <2>1, TodoStep DEF IInv, TodoOK, list
<1>8. /\ seen' \in [Callers -> SUBSET (0..MaxMade)]
      /\ \A p \in Callers : seen[p] \subseteq seen'[p]
      /\ \A p \in Callers : Active(p) /\ arg[p] = c => v \in seen'[p]
  BY <1>0, <1>1, MayReturnIs DEF IInv
<1>9. CallTypes' /\ FlightOK' /\ \A p \in Callers : HasAsked(p)' = HasAsked(p) /\ Active(p)' = Active(p)
  BY <1>1, <1>8, CallersRest DEF IInv, CallTypes
<1>10. CacheOK' /\ EntriesFresh'
  BY <1>1, <1>5, ElementOfSeq, LenProperties DEF IInv, CacheOK, EntriesFresh, CacheEntry
<1>11. BitsOK'
  <2>1. \A r \in Publishers : stage'[r] = "set" => stage[r] = "set" /\ todo'[r] = todo[r]
    BY <1>4
  <2>2. \A a \in Codes : MayContain(a)' = MayContain(a)
    BY <1>1 DEF MayContain
  <2>3. \A r \in Publishers : stage'[r] = "set" => MayContain(Head(todo[r]).code)'
    BY <1>1, <2>1 DEF IInv, BitsOK, MayContain
  <2>4. ASSUME NEW a \in Codes, store'[a] # 0, ~MayContain(a)
        PROVE  \E r \in Owners : stage'[r] = "bits" /\ Head(todo'[r]).code = a
    <3>1. CASE a = c
      BY <1>2, <1>4, <1>h, <3>1 DEF item
    <3>2. CASE a # c
      <4>1. PICK r \in Owners : stage[r] = "bits" /\ Head(todo[r]).code = a
        BY <1>1, <1>5, <2>4, <3>2 DEF IInv, BitsOK
      <4> QED BY <1>1, <1>4, <4>1, Constants
    <3> QED BY <3>1, <3>2
  <2> QED BY <1>1, <2>2, <2>3, <2>4 DEF IInv, BitsOK
<1>12. LiveOK'
  <2>1. \A a \in Codes : store'[a] # 0 => store'[a] \in live'[a]
    BY <1>5 DEF IInv, LiveOK
  <2>2. \A r \in Owners : stage[r] = "withdraw" => stage'[r] = "withdraw" /\ todo'[r] = todo[r]
    BY <1>1, <1>4, Constants
  <2>3. ASSUME NEW a \in Codes, NEW w \in Versions, w \in live'[a], w # store'[a]
        PROVE  \E r \in Owners :
                  stage'[r] = "withdraw" /\ Head(todo'[r]).code = a /\ Head(todo'[r]).ver = w
    <3>1. w \in live[a] /\ w # store[a]
      BY <1>0, <1>1, <1>5, <2>3, Constants
    <3> QED BY <2>2, <3>1 DEF IInv, LiveOK
  <2>4. ASSUME NEW r \in Owners, stage'[r] = "withdraw"
        PROVE  Head(todo'[r]).ver <= made' /\ Head(todo'[r]).ver # store'[Head(todo'[r]).code]
    <3>1. stage[r] = "withdraw" /\ todo'[r] = todo[r]
      BY <1>4, <2>4, Constants
    <3>2. Head(todo[r]).ver <= made /\ Head(todo[r]).ver # store[Head(todo[r]).code]
      BY <3>1 DEF IInv, LiveOK
    <3>3. Head(todo[r]).code \in Codes /\ Head(todo[r]).ver \in Versions
      BY <3>1, OneThing, FirstAndRest DEF IInv, Working
    <3> QED BY <1>0, <1>1, <1>5, <3>1, <3>2, <3>3, Constants
  <2> QED BY <2>1, <2>3, <2>4 DEF LiveOK
<1>13. TodoFresh'
  <2> SUFFICES ASSUME NEW r \in Publishers, Publishes(r)', NEW i \in DOMAIN todo'[r]
               PROVE  todo'[r][i].code \in raced' \/ todo'[r][i].ver \in live'[todo'[r][i].code]
    BY DEF TodoFresh
  <2>1. CASE r = q
    BY <1>2, <1>4, <1>5, <1>h, <2>1 DEF item
  <2>2. CASE r # q
    <3>1. Publishes(r) /\ todo'[r] = todo[r] /\ i \in DOMAIN todo[r]
      BY <1>4, <2>2 DEF Publishes
    <3>2. todo[r][i].code \in Codes
      BY <3>1, ItemOf DEF IInv
    <3> QED BY <1>1, <1>5, <3>1, <3>2 DEF IInv, TodoFresh
  <2> QED BY <2>1, <2>2
<1>14. \A a \in Codes : Unannounced(a) => Unannounced(a)'
  <2> SUFFICES ASSUME NEW a \in Codes, Unannounced(a) PROVE Unannounced(a)'
    OBVIOUS
  <2>1. CASE a = c
    BY <1>2, <1>4, <1>h, <2>1 DEF Unannounced, item
  <2>2. CASE a # c
    BY <1>1, <1>4, <1>5, <2>2, Constants DEF Unannounced
  <2> QED BY <2>1, <2>2
<1>15. \A a \in Codes : Unannounced(a)' => Unannounced(a)
  <2> SUFFICES ASSUME NEW a \in Codes, Unannounced(a)', a # c PROVE Unannounced(a)
    BY <1>1 DEF Unannounced
  <2> QED BY <1>2, <1>4, <1>5, <1>h, Constants DEF Unannounced, item
<1>16. \A p \in Callers : arg'[p] = arg[p] /\ pc'[p] = pc[p] /\ val'[p] = val[p] /\ arg[p] \in Codes
  BY <1>1 DEF callers, IInv, CallTypes
<1>17. CallsFresh'
  <2> SUFFICES ASSUME NEW p \in Callers, HasAsked(p), arg[p] \notin raced
               PROVE  IF val[p] = 0 THEN Unannounced(arg[p])' ELSE val[p] \in live'[arg[p]]
    BY <1>1, <1>9, <1>16 DEF CallsFresh, IInv, Unannounced
  <2>1. IF val[p] = 0 THEN Unannounced(arg[p]) ELSE val[p] \in live[arg[p]]
    BY DEF IInv, CallsFresh
  <2>2. Unannounced(arg[p]) => Unannounced(arg[p])'
    BY <1>14, <1>16 DEF Unannounced
  <2> QED BY <1>5, <1>16, <2>1, <2>2
<1>18. SeenOK'
  <2> SUFFICES ASSUME NEW p \in Callers, Active(p)
               PROVE  live'[arg[p]] \subseteq seen'[p] /\ (Unannounced(arg[p])' => 0 \in seen'[p])
    BY <1>9, <1>16 DEF SeenOK, Unannounced
  <2>1. live[arg[p]] \subseteq seen[p] /\ (Unannounced(arg[p]) => 0 \in seen[p])
    BY DEF IInv, SeenOK
  <2>2. Unannounced(arg[p])' => Unannounced(arg[p])
    BY <1>15, <1>16 DEF Unannounced
  <2> QED BY <1>5, <1>8, <1>16, <2>1, <2>2
<1> QED BY <1>1, <1>6, <1>7, <1>9, <1>10, <1>11, <1>12, <1>13, <1>17, <1>18 DEF IInv

LEMMA DeleteInv ==
    ASSUME IInv, NEW q \in Owners, NEW c \in Codes, Delete(q, c)
    PROVE  IInv'
<1> DEFINE v == store[c]
           item == [code |-> c, ver |-> v, keep |-> TRUE]
<1>0. v \in Versions /\ v <= made /\ v # 0 /\ 0 \in 0..MaxMade
  BY Constants DEF Delete, IInv, StoreTypes
<1>1. /\ booted /\ stage[q] = "idle"
      /\ store' = [store EXCEPT ![c] = 0]
      /\ MayReturn(c, 0) /\ Goes(q, "withdraw", <<item>>)
      /\ UNCHANGED <<made, bloom, cache, callers, booted, warms, live, stale, raced>>
  BY DEF Delete, Tell, Goes
<1>2. item \in Item /\ item.code = c /\ item.ver = v
  BY <1>0 DEF Item
<1> HIDE DEF item
<1> DEFINE list == <<item>>
<1>3. list \in Seq(Item) /\ Len(list) = 1 /\ Head(list) = item
  BY <1>2
<1> HIDE DEF list
<1>4. /\ store \in [Codes -> 0..MaxMade] /\ q \in Publishers /\ q # Warmer
  BY Constants DEF IInv, StoreTypes
<1>5. /\ stage'[q] = "withdraw" /\ todo'[q] = list
      /\ \A r \in Publishers : r # q => stage'[r] = stage[r] /\ todo'[r] = todo[r]
  BY <1>1, <1>4, GoesIs DEF IInv, list
<1>6. store'[c] = 0 /\ \A a \in Codes : a # c => store'[a] = store[a]
  BY <1>1, <1>4
<1>7. StoreTypes'
  BY <1>1, <1>4, <1>6, Constants DEF IInv, StoreTypes
<1>8. TodoOK'
  <2>1. ("withdraw" = "idle") = FALSE /\ "withdraw" \in {"idle", "bits", "set", "withdraw"}
    OBVIOUS
  <2> QED BY <1>1, <1>3, <1>4, <2>1, TodoStep DEF IInv, TodoOK, list
<1>9. /\ seen' \in [Callers -> SUBSET (0..MaxMade)]
      /\ \A p \in Callers : seen[p] \subseteq seen'[p]
      /\ \A p \in Callers : Active(p) /\ arg[p] = c => 0 \in seen'[p]
  BY <1>0, <1>1, MayReturnIs DEF IInv
<1>10. CallTypes' /\ FlightOK' /\ \A p \in Callers : HasAsked(p)' = HasAsked(p) /\ Active(p)' = Active(p)
  BY <1>1, <1>9, CallersRest DEF IInv, CallTypes
<1>11. CacheOK' /\ EntriesFresh'
  BY <1>1 DEF IInv, CacheOK, EntriesFresh
<1>12. BitsOK'
  <2>1. \A r \in Publishers : stage'[r] = "set" => stage[r] = "set" /\ todo'[r] = todo[r]
    BY <1>5
  <2>2. \A a \in Codes : MayContain(a)' = MayContain(a)
    BY <1>1 DEF MayContain
  <2>3. \A r \in Publishers : stage'[r] = "set" => MayContain(Head(todo[r]).code)'
    BY <1>1, <2>1 DEF IInv, BitsOK, MayContain
  <2>4. ASSUME NEW a \in Codes, store'[a] # 0, ~MayContain(a)
        PROVE  \E r \in Owners : stage'[r] = "bits" /\ Head(todo'[r]).code = a
    <3>1. PICK r \in Owners : stage[r] = "bits" /\ Head(todo[r]).code = a
      BY <1>1, <1>6, <2>4 DEF IInv, BitsOK
    <3> QED BY <1>1, <1>5, <3>1, Constants
  <2> QED BY <1>1, <2>2, <2>3, <2>4 DEF IInv, BitsOK
<1>13. LiveOK'
  <2>1. \A a \in Codes : store'[a] # 0 => store'[a] \in live'[a]
    BY <1>1, <1>6 DEF IInv, LiveOK
  <2>2. \A r \in Owners : stage[r] = "withdraw" => stage'[r] = "withdraw" /\ todo'[r] = todo[r]
    BY <1>1, <1>5, Constants
  <2>3. ASSUME NEW a \in Codes, NEW w \in Versions, w \in live'[a], w # store'[a]
        PROVE  \E r \in Owners :
                  stage'[r] = "withdraw" /\ Head(todo'[r]).code = a /\ Head(todo'[r]).ver = w
    <3>1. CASE a = c /\ w = v
      BY <1>2, <1>3, <1>5, <3>1
    <3>2. CASE ~(a = c /\ w = v)
      <4>1. w \in live[a] /\ w # store[a]
        BY <1>1, <1>6, <2>3, <3>2
      <4> QED BY <2>2, <4>1 DEF IInv, LiveOK
    <3> QED BY <3>1, <3>2
  <2>4. ASSUME NEW r \in Owners, stage'[r] = "withdraw"
        PROVE  Head(todo'[r]).ver <= made' /\ Head(todo'[r]).ver # store'[Head(todo'[r]).code]
    <3>1. CASE r = q
      BY <1>0, <1>1, <1>2, <1>3, <1>5, <1>6, <3>1
    <3>2. CASE r # q
      <4>1. stage[r] = "withdraw" /\ todo'[r] = todo[r]
        BY <1>5, <2>4, <3>2, Constants
      <4>2. Head(todo[r]).ver <= made /\ Head(todo[r]).ver # store[Head(todo[r]).code]
        BY <4>1 DEF IInv, LiveOK
      <4>3. Head(todo[r]).code \in Codes /\ Head(todo[r]).ver \in Versions
        BY <4>1, OneThing, FirstAndRest DEF IInv, Working
      <4> QED BY <1>1, <1>6, <4>1, <4>2, <4>3, Constants
    <3> QED BY <3>1, <3>2
  <2> QED BY <2>1, <2>3, <2>4 DEF LiveOK
<1>14. TodoFresh'
  <2>1. \A r \in Publishers : Publishes(r)' => Publishes(r) /\ todo'[r] = todo[r]
    BY <1>5 DEF Publishes
  <2> QED BY <1>1, <2>1 DEF IInv, TodoFresh
<1>15. \A a \in Codes : /\ Unannounced(a) => Unannounced(a)'
                        /\ a # c => (Unannounced(a)' => Unannounced(a))
  BY <1>1, <1>5, <1>6, Constants DEF Unannounced
<1>16. \A p \in Callers : arg'[p] = arg[p] /\ pc'[p] = pc[p] /\ val'[p] = val[p] /\ arg[p] \in Codes
  BY <1>1 DEF callers, IInv, CallTypes
<1>17. CallsFresh'
  <2> SUFFICES ASSUME NEW p \in Callers, HasAsked(p), arg[p] \notin raced
               PROVE  IF val[p] = 0 THEN Unannounced(arg[p])' ELSE val[p] \in live[arg[p]]
    BY <1>1, <1>10, <1>16 DEF CallsFresh, IInv, Unannounced
  <2>1. IF val[p] = 0 THEN Unannounced(arg[p]) ELSE val[p] \in live[arg[p]]
    BY DEF IInv, CallsFresh
  <2>2. Unannounced(arg[p]) => Unannounced(arg[p])'
    BY <1>15, <1>16 DEF Unannounced
  <2> QED BY <2>1, <2>2
<1>18. SeenOK'
  <2> SUFFICES ASSUME NEW p \in Callers, Active(p)
               PROVE  live[arg[p]] \subseteq seen'[p] /\ (Unannounced(arg[p])' => 0 \in seen'[p])
    BY <1>1, <1>10, <1>16 DEF SeenOK, Unannounced
  <2>1. live[arg[p]] \subseteq seen[p] /\ (Unannounced(arg[p]) => 0 \in seen[p])
    BY DEF IInv, SeenOK
  <2>2. arg[p] # c => (Unannounced(arg[p])' => Unannounced(arg[p]))
    BY <1>15, <1>16 DEF Unannounced
  <2> QED BY <1>9, <1>16, <2>1, <2>2
<1> QED BY <1>1, <1>7, <1>8, <1>10, <1>11, <1>12, <1>13, <1>14, <1>17, <1>18 DEF IInv

\* Nothing is made, dropped or told to be gone: the calls rest while a publisher goes on.
LEMMA PublisherStep ==
    ASSUME IInv, UNCHANGED <<storeVars, callers, seen, stale>>,
           raced \subseteq raced', raced' \subseteq Codes,
           TodoOK', CacheOK', EntriesFresh', TodoFresh', BitsOK',
           \A r \in Owners : stage'[r] = "withdraw" <=> stage[r] = "withdraw",
           \A r \in Owners : stage[r] = "withdraw" => todo'[r] = todo[r],
           \A c \in Codes : Unannounced(c)' => Unannounced(c),
           \A c \in Codes : Unannounced(c) /\ Answered(c) /\ c \notin raced' => Unannounced(c)'
    PROVE  IInv'
<1>1. StoreTypes'
  BY DEF IInv, StoreTypes, storeVars
<1>2. LiveOK'
  BY DEF IInv, LiveOK, storeVars
<1>3. CallTypes' /\ FlightOK' /\ \A p \in Callers : HasAsked(p)' = HasAsked(p) /\ Active(p)' = Active(p)
  <2>1. seen' \in [Callers -> SUBSET (0..MaxMade)]
    BY DEF IInv, CallTypes
  <2> QED BY <2>1, CallersRest
<1>4. \A p \in Callers : arg'[p] = arg[p] /\ pc'[p] = pc[p] /\ val'[p] = val[p] /\ arg[p] \in Codes
  BY DEF callers, IInv, CallTypes
<1>5. CallsFresh'
  <2> SUFFICES ASSUME NEW p \in Callers, HasAsked(p), arg[p] \notin raced'
               PROVE  IF val[p] = 0 THEN Unannounced(arg[p])' ELSE val[p] \in live[arg[p]]
    BY <1>3, <1>4 DEF CallsFresh, IInv, Unannounced, storeVars
  <2>1. IF val[p] = 0 THEN Unannounced(arg[p]) ELSE val[p] \in live[arg[p]]
    BY DEF IInv, CallsFresh
  <2>2. Answered(arg[p])
    BY DEF Answered, HasAsked
  <2>3. Unannounced(arg[p]) => Unannounced(arg[p])'
    BY <1>4, <2>2 DEF Unannounced
  <2> QED BY <2>1, <2>3
<1>6. SeenOK'
  <2> SUFFICES ASSUME NEW p \in Callers, Active(p)
               PROVE  live[arg[p]] \subseteq seen[p] /\ (Unannounced(arg[p])' => 0 \in seen[p])
    BY <1>3, <1>4 DEF SeenOK, Unannounced, storeVars
  <2>1. live[arg[p]] \subseteq seen[p] /\ (Unannounced(arg[p]) => 0 \in seen[p])
    BY DEF IInv, SeenOK
  <2>2. Unannounced(arg[p])' => Unannounced(arg[p])
    BY <1>4 DEF Unannounced
  <2> QED BY <2>1, <2>2
<1> QED BY <1>1, <1>2, <1>3, <1>5, <1>6 DEF IInv

LEMMA PublishBitsInv ==
    ASSUME IInv, NEW q \in Publishers, PublishBits(q)
    PROVE  IInv'
<1> DEFINE c == Head(todo[q]).code
<1>1. /\ stage[q] = "bits" /\ todo[q] # <<>>
      /\ bloom' = bloom \cup Locations[c] /\ stage' = [stage EXCEPT ![q] = "set"]
      /\ UNCHANGED <<store, made, cache, callers, todo, booted, warms, live, seen, stale, raced>>
  BY DEF PublishBits, Added
<1>2. todo[q] \in Seq(Item) /\ stage \in [Publishers -> {"idle", "bits", "set", "withdraw"}]
      /\ todo \in [Publishers -> Seq(Item)]
  BY DEF IInv, TodoOK
<1>3. c \in Codes
  BY <1>1, <1>2, FirstAndRest
<1>4. stage'[q] = "set" /\ \A r \in Publishers : r # q => stage'[r] = stage[r]
  BY <1>1, <1>2
<1>5. TodoOK'
  <2>1. \A r \in Owners : Working(r)' = Working(r)
    BY <1>1, <1>4, Constants DEF Working
  <2> QED BY <1>1, <1>2, <1>4, <2>1, Constants DEF IInv, TodoOK
<1>6. CacheOK' /\ EntriesFresh'
  BY <1>1 DEF IInv, CacheOK, EntriesFresh
<1>7. TodoFresh'
  <2>1. \A r \in Publishers : Publishes(r)' = Publishes(r)
    BY <1>1, <1>4 DEF Publishes
  <2> QED BY <1>1, <2>1 DEF IInv, TodoFresh
<1>8. BitsOK'
  <2>1. bloom' \subseteq UNION Range(Locations)
    BY <1>1, <1>3, Constants DEF IInv, BitsOK, Range
  <2>2. \A a : MayContain(a) => MayContain(a)'
    BY <1>1 DEF MayContain
  <2>3. MayContain(c)'
    BY <1>1 DEF MayContain
  <2>4. ASSUME NEW r \in Publishers, stage'[r] = "set" PROVE MayContain(Head(todo[r]).code)'
    BY <1>1, <1>4, <2>2, <2>3, <2>4 DEF IInv, BitsOK, MayContain
  <2>5. ASSUME NEW a \in Codes, store'[a] # 0, ~MayContain(a)'
        PROVE  \/ \E r \in Owners : stage'[r] = "bits" /\ Head(todo'[r]).code = a
               \/ ~booted' /\ Listed(a)'
    <3>1. \/ \E r \in Owners : stage[r] = "bits" /\ Head(todo[r]).code = a
          \/ ~booted /\ Listed(a)
      BY <1>1, <2>2, <2>5 DEF IInv, BitsOK
    <3>2. a # c
      <4>1. ~(Locations[a] \subseteq bloom') /\ Locations[c] \subseteq bloom'
        BY <1>1, <2>5 DEF MayContain
      <4> QED BY <4>1
    <3> QED BY <1>1, <1>4, <3>1, <3>2, Constants DEF Listed
  <2> QED BY <1>1, <2>1, <2>4, <2>5 DEF BitsOK
<1>9. \A r \in Owners : stage'[r] = "withdraw" <=> stage[r] = "withdraw"
  BY <1>1, <1>4, Constants
<1>10. \A a \in Codes : Unannounced(a)' = Unannounced(a)
  BY <1>1, <1>4, Constants DEF Unannounced
<1> QED BY <1>1, <1>5, <1>6, <1>7, <1>8, <1>9, <1>10, PublisherStep DEF storeVars, IInv, CallTypes

LEMMA PublishSetInv ==
    ASSUME IInv, NEW q \in Publishers, PublishSet(q)
    PROVE  IInv'
<1> DEFINE item == Head(todo[q])
           label == IF q = Warmer THEN "bits" ELSE "idle"
           rest == Tail(todo[q])
<1>1. /\ stage[q] = "set" /\ Goes(q, label, rest)
      /\ cache' = IF item.keep THEN Put(item.code, item.ver) ELSE cache
      /\ raced' = IF Answered(item.code) THEN raced \cup {item.code} ELSE raced
      /\ UNCHANGED <<store, made, bloom, callers, booted, warms, live, seen, stale>>
  BY DEF PublishSet, Goes
<1>2. todo[q] \in Seq(Item) /\ todo[q] # <<>>
  BY <1>1, OneThing, Constants DEF IInv, TodoOK, Working
<1>3. /\ item \in Item /\ item.code \in Codes /\ item.ver \in Versions
      /\ item = todo[q][1] /\ 1 \in DOMAIN todo[q]
      /\ rest \in Seq(Item)
      /\ \A i \in DOMAIN rest : i + 1 \in DOMAIN todo[q] /\ rest[i] = todo[q][i + 1]
      /\ \A i \in DOMAIN todo[q] : todo[q][i] = item \/ \E j \in DOMAIN rest : rest[j] = todo[q][i]
  BY <1>2, FirstAndRest
<1>4. label \in {"idle", "bits"} /\ (label = "idle" <=> q # Warmer)
  OBVIOUS
<1>5. q \in Owners => rest = <<>>
  BY <1>1, OneThing DEF IInv, Working
<1> HIDE DEF item, label, rest
<1>6. /\ stage'[q] = label /\ todo'[q] = rest
      /\ \A r \in Publishers : r # q => stage'[r] = stage[r] /\ todo'[r] = todo[r]
  BY <1>1, GoesIs DEF IInv
<1>7. TodoOK'
  <2>1. q \in Owners => q # Warmer /\ Len(rest) = IF label = "idle" THEN 0 ELSE 1
    BY <1>4, <1>5, Constants
  <2>2. q = Warmer => label # "withdraw" /\ (label = "set" => rest # <<>>)
    BY <1>4
  <2>3. booted' \in BOOLEAN /\ warms' \in 0..MaxWarms
        /\ (~booted' => ~booted /\ (q = Warmer => label # "idle"))
    BY <1>1, <1>4 DEF IInv, TodoOK
  <2>4. label \in {"idle", "bits", "set", "withdraw"} /\ TodoOK
    BY <1>4 DEF IInv
  <2> QED BY <1>1, <1>3, <2>1, <2>2, <2>3, <2>4, TodoStep
<1>8. raced \subseteq raced' /\ raced' \subseteq Codes
  BY <1>1, <1>3 DEF IInv, CallTypes
<1>9. item.code \in raced \/ item.ver \in live[item.code]
  BY <1>1, <1>3 DEF IInv, TodoFresh, Publishes
<1>10. CacheOK' /\ EntriesFresh'
  <2>1. CASE item.keep
    <3>1. MadeOf(cache', [code |-> item.code, ver |-> item.ver, expired |-> FALSE], cache)
      BY <1>1, <1>3, <2>1, PutIs DEF IInv
    <3> QED BY <1>1, <1>8, <1>9, <3>1 DEF MadeOf, CacheOK, EntriesFresh, IInv
  <2>2. CASE ~item.keep
    BY <1>1, <1>8, <2>2 DEF IInv, CacheOK, EntriesFresh
  <2> QED BY <2>1, <2>2
<1>11. TodoFresh'
  <2> SUFFICES ASSUME NEW r \in Publishers, Publishes(r)', NEW i \in DOMAIN todo'[r]
               PROVE  todo'[r][i].code \in raced' \/ todo'[r][i].ver \in live[todo'[r][i].code]
    BY <1>1 DEF TodoFresh
  <2>1. CASE r = q
    BY <1>1, <1>3, <1>6, <1>8, <2>1 DEF IInv, TodoFresh, Publishes
  <2>2. CASE r # q
    BY <1>6, <1>8, <2>2 DEF IInv, TodoFresh, Publishes
  <2> QED BY <2>1, <2>2
<1>12. BitsOK'
  <2>1. \A a : MayContain(a)' = MayContain(a)
    BY <1>1 DEF MayContain
  <2>2. ASSUME NEW r \in Publishers, stage'[r] = "set" PROVE MayContain(Head(todo[r]).code)'
    <3>1. r # q /\ stage[r] = "set" /\ todo'[r] = todo[r]
      BY <1>4, <1>6, <2>2
    <3> QED BY <1>1, <3>1 DEF IInv, BitsOK, MayContain
  <2>3. ASSUME NEW a \in Codes, store'[a] # 0, ~MayContain(a)
        PROVE  \/ \E r \in Owners : stage'[r] = "bits" /\ Head(todo'[r]).code = a
               \/ ~booted' /\ Listed(a)'
    <3>1. MayContain(item.code)
      BY <1>1 DEF IInv, BitsOK, item
    <3>2. CASE \E r \in Owners : stage[r] = "bits" /\ Head(todo[r]).code = a
      BY <1>1, <1>6, <3>2, Constants
    <3>3. CASE ~booted /\ Listed(a)
      <4>1. PICK i \in DOMAIN todo[Warmer] : todo[Warmer][i].code = a
        BY <3>3 DEF Listed
      <4>2. CASE q = Warmer
        <5>1. PICK j \in DOMAIN rest : rest[j] = todo[q][i]
          BY <1>3, <2>3, <3>1, <4>1, <4>2
        <5> QED BY <1>1, <1>6, <3>3, <4>1, <4>2, <5>1 DEF Listed
      <4>3. CASE q # Warmer
        BY <1>1, <1>6, <3>3, <4>1, <4>3, Constants DEF Listed
      <4> QED BY <4>2, <4>3
    <3> QED BY <1>1, <2>3, <3>2, <3>3 DEF IInv, BitsOK
  <2> QED BY <1>1, <2>1, <2>2, <2>3 DEF IInv, BitsOK
<1>13. \A r \in Owners : /\ stage'[r] = "withdraw" <=> stage[r] = "withdraw"
                         /\ stage[r] = "withdraw" => todo'[r] = todo[r]
  BY <1>1, <1>4, <1>6, Constants
<1>14. \A a \in Codes : Unannounced(a)' => Unannounced(a)
  BY <1>1, <1>4, <1>6, Constants DEF Unannounced
<1>15. \A a \in Codes : Unannounced(a) /\ Answered(a) /\ a \notin raced' => Unannounced(a)'
  <2> SUFFICES ASSUME NEW a \in Codes, Unannounced(a), Answered(a), a \notin raced'
               PROVE  Unannounced(a)'
    OBVIOUS
  <2>1. item.code # a
    BY <1>1
  <2> QED BY <1>1, <1>6, <2>1, Constants DEF Unannounced, item
<1>16. UNCHANGED <<storeVars, callers, seen, stale>>
  BY <1>1 DEF storeVars
<1> QED BY <1>7, <1>8, <1>10, <1>11, <1>12, <1>13, <1>14, <1>15, <1>16, PublisherStep

LEMMA WarmedInv == IInv /\ Warmed => IInv'
<1> SUFFICES ASSUME IInv, Warmed PROVE IInv'
  OBVIOUS
<1>1. /\ stage[Warmer] = "bits" /\ todo[Warmer] = <<>> /\ booted' = TRUE
      /\ stage' = [stage EXCEPT ![Warmer] = "idle"]
      /\ UNCHANGED <<store, made, bloom, cache, callers, todo, warms, live, seen, stale, raced>>
  BY DEF Warmed
<1>2. /\ stage \in [Publishers -> {"idle", "bits", "set", "withdraw"}]
      /\ \A r \in Owners : r \in Publishers /\ r # Warmer
  BY Constants DEF IInv, TodoOK
<1>3. stage'[Warmer] = "idle" /\ \A r \in Publishers : r # Warmer => stage'[r] = stage[r]
  BY <1>1, <1>2, Constants
<1>4. TodoOK'
  <2>1. \A r \in Owners : Working(r)' = Working(r)
    BY <1>2, <1>3 DEF Working
  <2> QED BY <1>1, <1>2, <1>3, <2>1 DEF IInv, TodoOK
<1>5. CacheOK' /\ EntriesFresh'
  BY <1>1 DEF IInv, CacheOK, EntriesFresh
<1>6. TodoFresh'
  BY <1>1, <1>3 DEF IInv, TodoFresh, Publishes
<1>7. BitsOK'
  <2>1. \A a : MayContain(a)' = MayContain(a) /\ ~Listed(a)
    BY <1>1 DEF MayContain, Listed
  <2>2. ASSUME NEW r \in Publishers, stage'[r] = "set" PROVE MayContain(Head(todo[r]).code)'
    BY <1>1, <1>3, <2>2 DEF IInv, BitsOK, MayContain
  <2>3. ASSUME NEW a \in Codes, store'[a] # 0, ~MayContain(a)
        PROVE  \E r \in Owners : stage'[r] = "bits" /\ Head(todo'[r]).code = a
    BY <1>1, <1>2, <1>3, <2>1, <2>3 DEF IInv, BitsOK
  <2> QED BY <1>1, <2>1, <2>2, <2>3 DEF IInv, BitsOK
<1>8. \A a \in Codes : Unannounced(a)' = Unannounced(a)
  BY <1>1, <1>2, <1>3 DEF Unannounced
<1>9. \A r \in Owners : stage'[r] = stage[r] /\ todo'[r] = todo[r]
  BY <1>1, <1>2, <1>3
<1>10. UNCHANGED <<storeVars, callers, seen, stale>> /\ raced \subseteq raced' /\ raced' \subseteq Codes
  BY <1>1 DEF storeVars, IInv, CallTypes
<1> QED BY <1>4, <1>5, <1>6, <1>7, <1>8, <1>9, <1>10, PublisherStep

LEMMA WarmInv == IInv /\ Warm => IInv'
<1> SUFFICES ASSUME IInv, Warm PROVE IInv'
  OBVIOUS
<1>1. PICK list \in Listings :
         /\ stage[Warmer] = "idle" /\ warms < MaxWarms /\ warms' = warms + 1
         /\ Goes(Warmer, "bits", Snapshot(list))
         /\ UNCHANGED <<store, made, bloom, cache, callers, booted, live, seen, stale, raced>>
  BY DEF Warm, Goes
<1> DEFINE new == Snapshot(list)
<1>2. /\ new \in Seq(Item)
      /\ \A i \in DOMAIN new : /\ new[i].code \in Codes /\ store[new[i].code] # 0
                               /\ new[i].ver = store[new[i].code]
  BY ListingIs DEF IInv
<1> HIDE DEF new
<1>3. \A r \in Owners : r \in Publishers /\ r # Warmer
  BY Constants
<1>4. /\ stage'[Warmer] = "bits" /\ todo'[Warmer] = new
      /\ \A r \in Publishers : r # Warmer => stage'[r] = stage[r] /\ todo'[r] = todo[r]
  BY <1>1, Constants, GoesIs DEF IInv, new
<1>5. booted
  BY <1>1 DEF IInv, TodoOK
<1>6. TodoOK'
  <2>1. "bits" \in {"idle", "bits", "set", "withdraw"} /\ "bits" # "withdraw" /\ "bits" # "set"
        /\ "bits" # "idle"
    OBVIOUS
  <2>2. booted' \in BOOLEAN /\ warms' \in 0..MaxWarms /\ Goes(Warmer, "bits", new)
    BY <1>1, Constants DEF IInv, TodoOK, new
  <2> QED BY <1>1, <1>2, <1>5, <2>1, <2>2, Constants, TodoStep DEF IInv
<1>7. CacheOK' /\ EntriesFresh'
  BY <1>1 DEF IInv, CacheOK, EntriesFresh
<1>8. TodoFresh'
  <2> SUFFICES ASSUME NEW r \in Publishers, Publishes(r)', NEW i \in DOMAIN todo'[r]
               PROVE  todo'[r][i].code \in raced \/ todo'[r][i].ver \in live[todo'[r][i].code]
    BY <1>1 DEF TodoFresh
  <2>1. CASE r = Warmer
    BY <1>2, <1>4, <2>1 DEF IInv, LiveOK
  <2>2. CASE r # Warmer
    BY <1>4, <2>2 DEF IInv, TodoFresh, Publishes
  <2> QED BY <2>1, <2>2
<1>9. BitsOK'
  <2>1. \A a : MayContain(a)' = MayContain(a)
    BY <1>1 DEF MayContain
  <2>2. ASSUME NEW r \in Publishers, stage'[r] = "set" PROVE MayContain(Head(todo[r]).code)'
    BY <1>1, <1>4, <2>2 DEF IInv, BitsOK, MayContain
  <2>3. ASSUME NEW a \in Codes, store'[a] # 0, ~MayContain(a)
        PROVE  \E r \in Owners : stage'[r] = "bits" /\ Head(todo'[r]).code = a
    BY <1>1, <1>3, <1>4, <1>5, <2>3 DEF IInv, BitsOK
  <2> QED BY <1>1, <1>4, <2>1, <2>2, <2>3 DEF IInv, BitsOK
<1>10. \A a \in Codes : Unannounced(a)' = Unannounced(a)
  BY <1>1, <1>3, <1>4 DEF Unannounced
<1>11. \A r \in Owners : stage'[r] = stage[r] /\ todo'[r] = todo[r]
  BY <1>3, <1>4
<1>12. UNCHANGED <<storeVars, callers, seen, stale>> /\ raced \subseteq raced' /\ raced' \subseteq Codes
  BY <1>1 DEF storeVars, IInv, CallTypes
<1> QED BY <1>6, <1>7, <1>8, <1>9, <1>10, <1>11, <1>12, PublisherStep

LEMMA WithdrawInv ==
    ASSUME IInv, NEW q \in Owners, Withdraw(q)
    PROVE  IInv'
<1> DEFINE item == Head(todo[q])
           c == item.code
           v == item.ver
<1>1. /\ stage[q] = "withdraw" /\ Goes(q, "idle", <<>>)
      /\ cache' = Without(c)
      /\ live' = [live EXCEPT ![c] = @ \ {v}]
      /\ raced' = IF Answered(c) \/ Publishing(c, q) THEN raced \cup {c} ELSE raced
      /\ UNCHANGED <<store, made, bloom, callers, booted, warms, seen, stale>>
  BY DEF Withdraw, Invalidated, Goes
<1>2. /\ q \in Publishers /\ q # Warmer
      /\ c \in Codes /\ v \in Versions /\ v # store[c]
  BY <1>1, OneThing, FirstAndRest, Constants DEF IInv, Working, LiveOK
<1>3. \A r \in Owners : stage[r] = "withdraw" /\ r = q => Head(todo[r]).code = c /\ Head(todo[r]).ver = v
  OBVIOUS
<1> HIDE DEF c, v, item
<1>4. /\ stage'[q] = "idle" /\ todo'[q] = <<>>
      /\ \A r \in Publishers : r # q => stage'[r] = stage[r] /\ todo'[r] = todo[r]
  BY <1>1, <1>2, GoesIs DEF IInv
<1>5. /\ live \in [Codes -> SUBSET (1..made)]
      /\ live'[c] = live[c] \ {v} /\ \A a \in Codes : a # c => live'[a] = live[a]
      /\ \A a \in Codes : live'[a] \subseteq live[a]
  BY <1>1, <1>2 DEF IInv, StoreTypes
<1>6. raced \subseteq raced' /\ raced' \subseteq Codes
  BY <1>1, <1>2 DEF IInv, CallTypes
<1>7. StoreTypes'
  BY <1>1, <1>2, <1>5 DEF IInv, StoreTypes
<1>8. TodoOK'
  <2>1. <<>> \in Seq(Item) /\ Len(<<>>) = 0 /\ "idle" \in {"idle", "bits", "set", "withdraw"}
    OBVIOUS
  <2>2. booted' \in BOOLEAN /\ warms' \in 0..MaxWarms /\ (~booted' => ~booted)
    BY <1>1 DEF IInv, TodoOK
  <2>3. TodoOK /\ <<>> \in Seq(Item) /\ Goes(q, "idle", <<>>)
        /\ Len(<<>>) = (IF "idle" = "idle" THEN 0 ELSE 1)
    BY <1>1, <2>1 DEF IInv
  <2> DEFINE none == <<>>
             label == "idle"
  <2>4. /\ TodoOK /\ none \in Seq(Item) /\ Goes(q, label, none) /\ label = "idle"
        /\ Len(none) = IF label = "idle" THEN 0 ELSE 1
    BY <2>3
  <2> HIDE DEF none, label
  <2> QED BY <1>2, <2>1, <2>2, <2>4, TodoStep
<1>9. CacheOK' /\ EntriesFresh'
  <2>1. /\ Without(c) \in Seq(CacheEntry) /\ Len(Without(c)) <= Cap
        /\ \A i, j \in DOMAIN Without(c) : Without(c)[i].code = Without(c)[j].code => i = j
        /\ \A i \in DOMAIN Without(c) :
              Without(c)[i].code # c /\ \E j \in DOMAIN cache : Without(c)[i] = cache[j]
    BY WithoutIs DEF IInv
  <2>2. CacheOK'
    BY <1>1, <2>1 DEF CacheOK
  <2>3. ASSUME NEW i \in DOMAIN cache'
        PROVE  cache'[i].code \in raced' \/ cache'[i].ver \in live'[cache'[i].code]
    <3>1. PICK j \in DOMAIN cache : cache'[i] = cache[j] /\ cache[j].code # c
      BY <1>1, <2>1
    <3>2. cache[j].code \in Codes
      BY EntryTyped DEF IInv
    <3> QED BY <1>5, <1>6, <3>1, <3>2 DEF IInv, EntriesFresh
  <2> QED BY <2>2, <2>3 DEF EntriesFresh
<1>10. BitsOK'
  <2>1. \A a : MayContain(a)' = MayContain(a)
    BY <1>1 DEF MayContain
  <2>2. ASSUME NEW r \in Publishers, stage'[r] = "set" PROVE MayContain(Head(todo'[r]).code)
    BY <1>1, <1>4, <2>2 DEF IInv, BitsOK
  <2>3. ASSUME NEW a \in Codes, store'[a] # 0, ~MayContain(a)
        PROVE  \/ \E r \in Owners : stage'[r] = "bits" /\ Head(todo'[r]).code = a
               \/ ~booted' /\ Listed(a)'
    <3>1. CASE \E r \in Owners : stage[r] = "bits" /\ Head(todo[r]).code = a
      BY <1>1, <1>4, <3>1, Constants
    <3>2. CASE ~booted /\ Listed(a)
      BY <1>1, <1>2, <1>4, <3>2, Constants DEF Listed
    <3> QED BY <1>1, <2>3, <3>1, <3>2 DEF IInv, BitsOK
  <2> QED BY <1>1, <2>1, <2>2, <2>3 DEF IInv, BitsOK
<1>11. LiveOK'
  <2>1. \A a \in Codes : store'[a] # 0 => store'[a] \in live'[a]
    BY <1>1, <1>2, <1>5 DEF IInv, LiveOK
  <2>2. ASSUME NEW a \in Codes, NEW w \in Versions, w \in live'[a], w # store'[a]
        PROVE  \E r \in Owners :
                  stage'[r] = "withdraw" /\ Head(todo'[r]).code = a /\ Head(todo'[r]).ver = w
    <3>1. w \in live[a] /\ w # store[a] /\ ~(a = c /\ w = v)
      BY <1>1, <1>5, <2>2
    <3>2. PICK r \in Owners :
             stage[r] = "withdraw" /\ Head(todo[r]).code = a /\ Head(todo[r]).ver = w
      BY <3>1 DEF IInv, LiveOK
    <3>3. r # q
      BY <1>3, <3>1, <3>2
    <3> QED BY <1>4, <3>2, <3>3, Constants
  <2>3. ASSUME NEW r \in Owners, stage'[r] = "withdraw"
        PROVE  Head(todo'[r]).ver <= made' /\ Head(todo'[r]).ver # store'[Head(todo'[r]).code]
    <3>1. stage[r] = "withdraw" /\ todo'[r] = todo[r]
      BY <1>4, <2>3, Constants
    <3> QED BY <1>1, <3>1 DEF IInv, LiveOK
  <2> QED BY <2>1, <2>2, <2>3 DEF LiveOK
<1>12. TodoFresh'
  <2> SUFFICES ASSUME NEW r \in Publishers, Publishes(r)', NEW i \in DOMAIN todo'[r]
               PROVE  todo'[r][i].code \in raced' \/ todo'[r][i].ver \in live'[todo'[r][i].code]
    BY DEF TodoFresh
  <2>1. r # q /\ Publishes(r) /\ todo'[r] = todo[r] /\ i \in DOMAIN todo[r]
    BY <1>4 DEF Publishes
  <2>2. todo[r][i].code \in Codes
    BY <2>1, ItemOf DEF IInv
  <2>3. CASE todo[r][i].code = c
    <3>1. Publishing(c, q)
      BY <2>1, <2>3 DEF Publishing, Publishes
    <3> QED BY <1>1, <2>1, <2>3, <3>1
  <2>4. CASE todo[r][i].code # c
    BY <1>5, <1>6, <2>1, <2>2, <2>4 DEF IInv, TodoFresh
  <2> QED BY <2>3, <2>4
<1>13. \A a \in Codes : Unannounced(a)' = Unannounced(a)
  BY <1>1, <1>4, Constants DEF Unannounced
<1>14. CallTypes' /\ FlightOK' /\ \A p \in Callers : HasAsked(p)' = HasAsked(p) /\ Active(p)' = Active(p)
  BY <1>1, <1>6, CallersRest DEF IInv, CallTypes
<1>15. \A p \in Callers : arg'[p] = arg[p] /\ pc'[p] = pc[p] /\ val'[p] = val[p] /\ arg[p] \in Codes
  BY <1>1 DEF callers, IInv, CallTypes
<1>16. CallsFresh'
  <2> SUFFICES ASSUME NEW p \in Callers, HasAsked(p), arg[p] \notin raced'
               PROVE  IF val[p] = 0 THEN Unannounced(arg[p])' ELSE val[p] \in live'[arg[p]]
    BY <1>14, <1>15 DEF CallsFresh, IInv, Unannounced
  <2>1. IF val[p] = 0 THEN Unannounced(arg[p]) ELSE val[p] \in live[arg[p]]
    BY <1>6 DEF IInv, CallsFresh
  <2>2. Unannounced(arg[p])' = Unannounced(arg[p])
    BY <1>13, <1>15 DEF Unannounced
  <2>3. Answered(arg[p])
    BY DEF Answered, HasAsked
  <2>4. arg[p] # c
    BY <1>1, <2>3
  <2> QED BY <1>5, <1>15, <2>1, <2>2, <2>4
<1>17. SeenOK'
  <2> SUFFICES ASSUME NEW p \in Callers, Active(p)
               PROVE  live'[arg[p]] \subseteq seen[p] /\ (Unannounced(arg[p])' => 0 \in seen[p])
    BY <1>1, <1>14, <1>15 DEF SeenOK, Unannounced
  <2>1. live[arg[p]] \subseteq seen[p] /\ (Unannounced(arg[p]) => 0 \in seen[p])
    BY DEF IInv, SeenOK
  <2>2. Unannounced(arg[p])' = Unannounced(arg[p])
    BY <1>13, <1>15 DEF Unannounced
  <2> QED BY <1>5, <1>15, <2>1, <2>2
<1> QED BY <1>1, <1>7, <1>8, <1>9, <1>10, <1>11, <1>12, <1>14, <1>16, <1>17 DEF IInv

-----------------------------------------------------------------------------
(* The invariant holds *)

LEMMA InitInv == Init => IInv
<1> SUFFICES ASSUME Init PROVE IInv
  OBVIOUS
<1>1. store \in [Codes -> 0..MaxMade] /\ made = Cardinality(Stored) /\ {store[c] : c \in Stored} = 1..made
  BY DEF Init
<1>2. /\ bloom = {} /\ cache = <<>> /\ booted = FALSE /\ warms = 0 /\ stale = {} /\ raced = {}
      /\ flight = [c \in Codes |-> Nobody] /\ pc = [p \in Callers |-> "idle"]
      /\ arg = [p \in Callers |-> SomeCode] /\ leader = [p \in Callers |-> Nobody]
      /\ val = [p \in Callers |-> 0] /\ seen = [p \in Callers |-> {}]
      /\ live = [c \in Codes |-> {store[c]} \ {0}]
      /\ stage = [r \in Publishers |-> IF r = Warmer THEN "bits" ELSE "idle"]
  BY DEF Init
<1>3. StoreTypes
  <2>1. made \in Nat
    BY <1>1, Constants, FS_Subset, FS_CardinalityType DEF Stored
  <2>2. \A n \in 1..made : n \in 0..MaxMade
    BY <1>1 DEF Stored
  <2>3. made \in 0..MaxMade
    <3>1. CASE made = 0
      BY <3>1, Constants
    <3>2. CASE made # 0
      BY <2>1, <2>2, <3>2
    <3> QED BY <3>1, <3>2
  <2>4. ASSUME NEW c \in Codes PROVE store[c] <= made /\ live[c] \subseteq 1..made
    <3>1. CASE store[c] = 0
      BY <1>2, <2>1, <3>1
    <3>2. CASE store[c] # 0
      <4>1. store[c] \in 1..made
        BY <1>1, <3>2 DEF Stored
      <4> QED BY <1>2, <2>1, <4>1
    <3> QED BY <3>1, <3>2
  <2> QED BY <1>1, <1>2, <2>3, <2>4 DEF StoreTypes
<1>4. PICK list \in Listings : todo = [r \in Publishers |-> IF r = Warmer THEN Snapshot(list) ELSE <<>>]
  BY DEF Init
<1> DEFINE new == Snapshot(list)
<1>5. /\ new \in Seq(Item) /\ DOMAIN new = DOMAIN list
      /\ \A i \in DOMAIN new : /\ new[i].code \in Codes /\ store[new[i].code] # 0
                               /\ new[i].ver = store[new[i].code]
      /\ \A c \in Codes : store[c] # 0 => \E i \in DOMAIN new : new[i].code = c
  BY <1>3, ListingIs
<1>6. todo = [r \in Publishers |-> IF r = Warmer THEN new ELSE <<>>]
  BY <1>4
<1> HIDE DEF new
<1>7. CacheOK /\ EntriesFresh
  BY <1>2, Constants DEF CacheOK, EntriesFresh
<1>8. CallTypes
  BY <1>2, Constants DEF CallTypes, Labels
<1>9. /\ stage[Warmer] = "bits" /\ todo[Warmer] = new
      /\ \A r \in Publishers : r # Warmer => stage[r] = "idle" /\ todo[r] = <<>>
      /\ \A r \in Owners : r \in Publishers /\ stage[r] = "idle" /\ todo[r] = <<>>
  BY <1>2, <1>6, Constants
<1>10. TodoOK
  <2>1. <<>> \in Seq(Item) /\ Len(<<>>) = 0
    OBVIOUS
  <2>2. todo \in [Publishers -> Seq(Item)]
    BY <1>5, <1>6, <2>1
  <2>3. stage \in [Publishers -> {"idle", "bits", "set", "withdraw"}]
    BY <1>2
  <2>4. \A r \in Owners : Len(todo[r]) = IF Working(r) THEN 1 ELSE 0
    BY <1>9, <2>1 DEF Working
  <2>5. booted \in BOOLEAN /\ warms \in 0..MaxWarms
    <3>1. booted = FALSE /\ warms = 0
      BY <1>2
    <3>2. 0 \in 0..MaxWarms
      BY Constants
    <3> QED BY <3>1, <3>2
  <2>6. stage[Warmer] # "withdraw" /\ stage[Warmer] # "set" /\ stage[Warmer] # "idle"
    BY <1>9
  <2> QED BY <2>2, <2>3, <2>4, <2>5, <2>6 DEF TodoOK
<1>11. BitsOK
  BY <1>2, <1>5, <1>9 DEF BitsOK, Listed
<1>12. LiveOK
  BY <1>1, <1>2, <1>9 DEF LiveOK
<1>13. TodoFresh
  <2> SUFFICES ASSUME NEW r \in Publishers, Publishes(r), NEW i \in DOMAIN todo[r]
               PROVE  todo[r][i].ver \in live[todo[r][i].code]
    BY DEF TodoFresh
  <2>1. r = Warmer /\ todo[r] = new
    BY <1>9 DEF Publishes
  <2> QED BY <1>2, <1>5, <2>1
<1>14. CallsFresh /\ SeenOK
  BY <1>2 DEF CallsFresh, SeenOK, HasAsked, Active
<1>15. FlightOK
  BY <1>2, Constants DEF FlightOK, Asking
<1> QED BY <1>2, <1>3, <1>7, <1>8, <1>10, <1>11, <1>12, <1>13, <1>14, <1>15 DEF IInv

LEMMA NextInv == IInv /\ [Next]_vars => IInv'
<1> SUFFICES ASSUME IInv, [Next]_vars PROVE IInv'
  OBVIOUS
<1>1. CASE \E c \in Codes : Expire(c) \/ Deny(c)
  BY <1>1, ExpireInv, DenyInv
<1>2. CASE \E p \in Callers, c \in Codes : Begin(p, c)
  BY <1>2, BeginInv
<1>3. CASE \E p \in Callers : Lookup(p) \/ Join(p) \/ Fetch(p) \/ Fill(p) \/ Leave(p) \/ Done(p)
  BY <1>3, LookupInv, JoinInv, FetchInv, FillInv, LeaveInv, DoneInv
<1>4. CASE \E q \in Owners : Withdraw(q) \/ \E c \in Codes : Create(q, c) \/ Delete(q, c)
  BY <1>4, WithdrawInv, CreateInv, DeleteInv
<1>5. CASE \E q \in Publishers : PublishBits(q) \/ PublishSet(q)
  BY <1>5, PublishBitsInv, PublishSetInv
<1>6. CASE Warmed \/ Warm
  BY <1>6, WarmedInv, WarmInv
<1>7. CASE UNCHANGED vars
  <2>1. UNCHANGED <<storeVars, bloom, cache, callers, told, seen, stale, raced>>
    BY <1>7 DEF vars, storeVars, callers, told
  <2>2. UNCHANGED <<store, made, live, flight, pc, arg, leader, val, stage, todo, booted, warms>>
    BY <2>1 DEF storeVars, callers, told
  <2>3. StoreTypes' /\ CacheOK' /\ CallTypes' /\ EntriesFresh'
    BY <2>1, <2>2 DEF IInv, StoreTypes, CacheOK, CallTypes, EntriesFresh
  <2>4. TodoOK' /\ BitsOK' /\ TodoFresh' /\ LiveOK'
    BY <2>1, <2>2 DEF IInv, TodoOK, Working, BitsOK, Listed, MayContain, TodoFresh, Publishes, LiveOK
  <2>5. CallsFresh' /\ SeenOK' /\ FlightOK'
    BY <2>1, <2>2 DEF IInv, CallsFresh, HasAsked, SeenOK, Active, Unannounced, FlightOK, Asking
  <2> QED BY <2>1, <2>3, <2>4, <2>5 DEF IInv
<1> QED BY <1>1, <1>2, <1>3, <1>4, <1>5, <1>6, <1>7 DEF Next

\* In every reachable state the parts of IInv hold together: what the cache, a call
\* or a publisher has in its hands is live, unless the code was raced.
THEOREM Inductive == Spec => []IInv
BY InitInv, NextInv, PTL DEF Spec

\* Every variable of the resolver always has a value of its kind, and the LRU never
\* holds more than its capacity or two entries for a code.
THEOREM ResolverTyped == Spec => []TypeOK
<1>1. IInv => TypeOK
  <2> SUFFICES ASSUME IInv PROVE TypeOK
    OBVIOUS
  <2>1. Entries \subseteq [code : Codes, ver : Versions, expired : BOOLEAN]
    <3>1. \A i \in DOMAIN cache : cache[i] \in CacheEntry
      BY EntryTyped DEF IInv
    <3> QED BY <3>1 DEF Entries, Range, CacheEntry
  <2>2. \A q \in Publishers : todo[q] \in Seq([code : Codes, ver : Versions, keep : BOOLEAN])
    BY DEF IInv, TodoOK, Item
  <2>3. live \in [Codes -> SUBSET Versions]
    <3>1. 1..made \subseteq Versions
      BY Constants DEF IInv, StoreTypes
    <3> QED BY <3>1 DEF IInv, StoreTypes
  <2> QED BY <2>1, <2>2, <2>3
          DEF IInv, StoreTypes, CacheOK, CallTypes, TodoOK, BitsOK, TypeOK, Labels
<1> QED BY <1>1, Inductive, PTL

\* MayContain never answers "absolutely not there" for a link whose ObserveCreated
\* has returned, nor for one that New found in the store, whatever bits the codes share.
THEOREM FilterNeverDenies == Spec => []BloomComplete
BY FilterComplete, Inductive, PTL

\* An entry of the LRU that is not the version in the store is one whose
\* ObserveInvalidated is still to come, or which a race with that call put there.
THEOREM CacheHoldsFresh == Spec => []CacheFresh
<1>1. IInv => CacheFresh
  <2> SUFFICES ASSUME IInv, NEW e \in Entries, e.ver # store[e.code], e.code \notin raced
               PROVE  \E q \in Owners : stage[q] = "withdraw" /\ Head(todo[q]).code = e.code
    BY DEF CacheFresh
  <2>1. PICK i \in DOMAIN cache : e = cache[i]
    BY DEF Entries, Range
  <2>2. e.code \in Codes /\ e.ver \in Versions
    BY <2>1, EntryTyped DEF IInv
  <2>3. e.ver \in live[e.code]
    BY <2>1 DEF IInv, EntriesFresh
  <2> QED BY <2>2, <2>3 DEF IInv, LiveOK
<1> QED BY <1>1, Inductive, PTL

\* Resolve returns only what the code had at some moment since it was called, unless
\* the code was raced, and singleflight runs one store.Get per code at a time.
THEOREM AnswersAreFresh == Spec => []ResultFresh
<1>1. IInv => ResultFresh
  <2> SUFFICES ASSUME IInv PROVE OneFlight
    BY DEF IInv, ResultFresh
  <2>1. ASSUME NEW c \in Codes
        PROVE  {p \in Callers : pc[p] \in {"fetch", "fill", "leave"} /\ arg[p] = c}
                  = {flight[c]} \ {Nobody}
    <3>1. flight[c] \in Callers \cup {Nobody} /\ Nobody \notin Callers
      BY Constants DEF IInv, CallTypes
    <3>2. \A p \in Callers : flight[c] = p <=> pc[p] \in {"fetch", "fill", "leave"} /\ arg[p] = c
      BY DEF IInv, FlightOK, Asking
    <3> QED BY <3>1, <3>2
  <2>2. ASSUME NEW p \in Callers, pc[p] = "wait"
        PROVE  /\ leader[p] # Nobody /\ arg[leader[p]] = arg[p]
               /\ pc[leader[p]] \in {"fetch", "fill", "leave", "done"}
    BY <2>2, Constants DEF IInv, FlightOK, Asking
  <2> QED BY <2>1, <2>2 DEF OneFlight
<1> QED BY <1>1, Inductive, PTL
=============================================================================
