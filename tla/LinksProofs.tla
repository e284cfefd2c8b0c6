----------------------------- MODULE LinksProofs -----------------------------
(***************************************************************************)
(* What Links guarantees for every number of requests, codes and records   *)
(* and every limit: type correctness, who may hold the write lock, and, as *)
(* long as no copy of a replaced record is saved, that the map holds the   *)
(* links it should, that disabled links stay so, that every visit counts,  *)
(* and that limits are kept.                                               *)
(***************************************************************************)
EXTENDS Links, FiniteSetTheorems, TLAPS

-----------------------------------------------------------------------------
(* The inductive invariant *)

\* The record of a link that was created, with no more visits than were made.
Genuine(o) ==
    /\ o \in Objs
    /\ rec[o].link \in 1..links /\ rec[o].code \in Codes
    /\ rec[o].visits <= made[rec[o].link]

\* Whatever the map, a request that goes on, or the janitor points to is one.
PointersOK ==
    /\ \A c \in Codes : urls[c] # None => Genuine(urls[c])
    /\ \A p \in Procs : pc[p] \in {"disable", "save", "check"} => Genuine(ptr[p])
    /\ \A o \in cands : Genuine(o)

\* Who is at which step, and how many attempts a creation has left.
RolesOK ==
    /\ \A p \in Procs : pc[p] \in {"check", "visit"} => p \in Redirectors
    /\ \A p \in Procs : pc[p] \in {"exists", "insert"} => p \in Creators
    /\ \A p \in Procs : pc[p] = "exists" => left[p] >= 1

\* The bounds have room for every creation and every redirect under way.
Creating == {q \in Creators : pc[q] \in {"exists", "insert"}}
Redirecting == {q \in Redirectors : pc[q] \in {"check", "visit"}}
RoomOK ==
    /\ IsFiniteSet(Creating) /\ links + Cardinality(Creating) <= MaxLinks
    /\ IsFiniteSet(Redirecting)
    /\ \A l \in LinkIds : made[l] + Cardinality(Redirecting) <= MaxMade

\* What has not been created has no past.
PastOK ==
    /\ \A l \in LinkIds : served[l] <= made[l] /\ (l > links => made[l] = 0)
    /\ gone \subseteq 1..links /\ stopped \subseteq 1..links

\* LockOK without its Cardinality.
SectionOK ==
    /\ locked => InSection # {}
    /\ (\A l \in LinkIds : made[l] < UnlockEvery) =>
            /\ alive
            /\ IF locked THEN \E p \in Procs : InSection = {p} ELSE InSection = {}

\* Of a link that the map holds: its record is at its own code, and no other code
\* has it; it was not deleted; its flags and counts say what happened to it.
HeldOK ==
    \A c \in Codes : urls[c] # None =>
        LET r == rec[urls[c]] IN
        /\ r.code = c
        /\ \A d \in Codes : urls[d] # None /\ rec[urls[d]].link = r.link => d = c
        /\ r.link \notin gone
        /\ r.link \in stopped => r.disabled
        /\ r.visits = made[r.link]
        /\ r.limited => served[r.link] < Limit

CleanInv == ~raced => HeldOK /\ \A l \in 1..links : l \notin gone => Holds(l)

IInv == TypeOK /\ PointersOK /\ RolesOK /\ RoomOK /\ PastOK /\ SectionOK /\ CleanInv

-----------------------------------------------------------------------------
(* Lemmas about the records *)

\* The addresses that a pointer refers to.
Live == {urls[c] : c \in Codes} \cup {ptr[p] : p \in Procs} \cup cands

LEMMA RecordTypes ==
    /\ Blank \in Records
    /\ \A r \in Records :
        /\ r.link \in 0..MaxLinks /\ r.code \in Codes \cup {None}
        /\ r.visits \in 0..MaxMade
        /\ r.limited \in BOOLEAN /\ r.expires \in BOOLEAN /\ r.disabled \in BOOLEAN
BY NumbersOK DEF Blank, Records

LEMMA MarkedTypes ==
    ASSUME NEW r \in Records
    PROVE  [r EXCEPT !.disabled = TRUE] \in Records
BY DEF Records

\* The collector keeps what a pointer refers to.
LEMMA CollectedKeeps ==
    ASSUME NEW heap \in [Objs -> Records]
    PROVE  /\ Collected(heap) \in [Objs -> Records]
           /\ \A o \in Objs \cap Live' : Collected(heap)[o] = heap[o]
BY RecordTypes DEF Collected, Live

LEMMA InstalledIsLive ==
    /\ \A c \in Codes : urls[c] \in Live
    /\ \A p \in Procs : ptr[p] \in Live
    /\ cands \subseteq Live
BY DEF Live

\* A record of a link is still one when its link and its code stay, and its
\* visits do not grow.
LEMMA GenuineStays ==
    ASSUME TypeOK, links' \in Nat, made' \in [LinkIds -> Nat], NEW o, Genuine(o),
           rec'[o].link = rec[o].link, rec'[o].code = rec[o].code,
           rec'[o].visits = rec[o].visits,
           links <= links', \A l \in LinkIds : made[l] <= made'[l]
    PROVE  /\ o \in Objs
           /\ rec'[o].link \in 1..links' /\ rec'[o].code \in Codes
           /\ rec'[o].visits <= made'[rec'[o].link]
<1>1. rec[o].link \in LinkIds /\ rec[o].visits \in 0..MaxMade
  BY RecordTypes, NumbersOK DEF Genuine, TypeOK, LinkIds
<1> DEFINE l == rec[o].link
<1>2. made[l] \in Nat /\ made'[l] \in Nat /\ links \in Nat /\ links' \in Nat
  BY <1>1 DEF TypeOK
<1>3. made[l] <= made'[l] /\ l \in 1..links /\ rec[o].visits <= made[l]
  BY <1>1 DEF Genuine
<1> QED BY <1>1, <1>2, <1>3 DEF Genuine

-----------------------------------------------------------------------------
(* Type correctness *)

\* TypeOK but for its last conjunct, which PointersOK implies.
Types ==
    /\ rec \in [Objs -> Records]
    /\ urls \in [Codes -> Objs \cup {None}]
    /\ locked \in BOOLEAN /\ alive \in BOOLEAN /\ late \in BOOLEAN
    /\ pc \in [Procs -> {"idle", "exists", "insert", "disable", "save", "check", "visit",
                         "sweep", "leave"}]
    /\ code \in [Procs -> Codes]
    /\ ptr \in [Procs -> Objs \cup {None}]
    /\ left \in [Procs -> 0..Retries] /\ ontime \in [Procs -> BOOLEAN]
    /\ cands \subseteq Objs
    /\ links \in 0..MaxLinks /\ gone \subseteq LinkIds /\ stopped \subseteq LinkIds
    /\ made \in [LinkIds -> 0..MaxMade] /\ served \in [LinkIds -> 0..MaxMade]
    /\ raced \in BOOLEAN

LEMMA TypesSuffice == TypeOK <=> Types /\ \A p \in Procs :
        pc[p] \in {"disable", "save", "check"} => ptr[p] # None /\ rec[ptr[p]].link # 0
BY DEF TypeOK, Types

LEMMA PointersTyped == Types /\ PointersOK => TypeOK
BY TypesSuffice, RolesDistinct DEF Types, PointersOK, Genuine

LEMMA GenuineTypes ==
    ASSUME Types, NEW o, Genuine(o)
    PROVE  /\ o \in Objs /\ rec[o] \in Records
           /\ rec[o].link \in LinkIds /\ rec[o].link \in 1..links
           /\ made[rec[o].link] \in 0..MaxMade /\ rec[o].visits <= made[rec[o].link]
           /\ rec[o].visits \in 0..MaxMade
<1>1. o \in Objs /\ rec[o] \in Records /\ rec[o].visits \in 0..MaxMade
  BY RecordTypes DEF Genuine, Types
<1>2. rec[o].link \in 1..links /\ links \in 0..MaxLinks
  BY DEF Genuine, Types
<1>3. rec[o].link \in LinkIds
  BY <1>2, NumbersOK DEF LinkIds
<1> QED BY <1>1, <1>2, <1>3 DEF Genuine, Types

LEMMA Roles ==
    /\ Janitor \in Procs /\ Creators \subseteq Procs /\ Redirectors \subseteq Procs
    /\ Updaters \subseteq Procs /\ Deleters \subseteq Procs
BY DEF Procs, Requests

\* A creation or a redirect under way leaves room below the bounds.
LEMMA RoomLeft ==
    ASSUME Types, RolesOK, RoomOK, NEW p \in Procs
    PROVE  /\ pc[p] = "insert" => links < MaxLinks
           /\ pc[p] = "visit" => \A l \in LinkIds : made[l] < MaxMade
<1>1. CASE pc[p] = "insert"
  <2>1. p \in Creating
    BY <1>1 DEF Creating, RolesOK
  <2>2. Cardinality(Creating) \in Nat /\ Cardinality(Creating) # 0
    BY <2>1, FS_CardinalityType, FS_EmptySet DEF RoomOK
  <2> QED BY <1>1, <2>2, NumbersOK DEF RoomOK, Types
<1>2. CASE pc[p] = "visit"
  <2>1. p \in Redirecting
    BY <1>2 DEF Redirecting, RolesOK
  <2>2. Cardinality(Redirecting) \in Nat /\ Cardinality(Redirecting) # 0
    BY <2>1, FS_CardinalityType, FS_EmptySet DEF RoomOK
  <2> QED BY <1>2, <2>2, NumbersOK DEF RoomOK, Types
<1> QED BY <1>1, <1>2

LEMMA TypesStep == IInv /\ [Next]_vars => Types'
<1> SUFFICES ASSUME IInv, [Next]_vars PROVE Types'
  OBVIOUS
<1>0. Types /\ PointersOK /\ RolesOK /\ RoomOK /\ PastOK
  BY TypesSuffice DEF IInv
<1> USE <1>0, Roles, NumbersOK DEF Types
<1>1. ASSUME NEW p \in Creators, NEW custom \in BOOLEAN, Create(p, custom) PROVE Types'
  BY <1>1 DEF Create, Goto, history
<1>2. ASSUME NEW p \in Procs, NEW c \in Codes, NEW label \in {"disable", "save", "check"},
             Fetch(p, c, label), ontime' \in [Procs -> BOOLEAN]
      PROVE  Types'
  BY <1>2 DEF Fetch, Goto, history
<1>3. ASSUME NEW p \in Updaters, NEW c \in Codes, Disable(p, c) \/ UpdateRemark(p, c)
      PROVE  Types'
  BY <1>3, <1>2 DEF Disable, UpdateRemark
<1>4. ASSUME NEW p \in Deleters, NEW c \in Codes, Delete(p, c) PROVE Types'
  <2>1. rec' \in [Objs -> Records]
    BY <1>4, CollectedKeeps DEF Delete
  <2>2. rec[urls[c]].link \in LinkIds
    BY <1>4 DEF Delete, PointersOK, Genuine, LinkIds
  <2> QED BY <1>4, <2>1, <2>2 DEF Delete, Enter, Goto, Without
<1>5. ASSUME NEW p \in Redirectors, NEW c \in Codes, Redirect(p, c) PROVE Types'
  <2>1. ontime' \in [Procs -> BOOLEAN]
    BY <1>5 DEF Redirect
  <2> QED BY <1>5, <1>2, <2>1 DEF Redirect
<1>6. CASE Sweep
  BY <1>6 DEF Sweep, Goto, history, Pending, Installed
<1>7. CASE Expire
  BY <1>7 DEF Expire, locals, history
<1>8. ASSUME NEW p \in Procs, NEW c \in Codes, CheckExists(p, c) PROVE Types'
  BY <1>8 DEF CheckExists, Goto, history, TryAgain, RolesOK
<1>9. ASSUME NEW p \in Procs, NEW limited \in BOOLEAN, NEW expires \in BOOLEAN,
             Insert(p, limited, expires)
      PROVE  Types'
  <2>0. /\ pc' = [pc EXCEPT ![p] = "leave"] /\ locked' = TRUE
        /\ UNCHANGED <<alive, late, code, ptr, left, ontime, cands, gone, stopped, made,
                       served, raced>>
    BY <1>9 DEF Insert, Enter, Goto
  <2>1. CASE Vacant(code[p])
    <3>1. PICK o \in Objs :
            /\ urls' = [urls EXCEPT ![code[p]] = o]
            /\ rec' = Collected([rec EXCEPT ![o] =
                [link |-> links + 1, code |-> code[p], visits |-> 0, limited |-> limited,
                 expires |-> expires, disabled |-> FALSE]])
            /\ links' = links + 1
      BY <1>9, <2>1 DEF Insert
    <3>2. links < MaxLinks
      BY <1>9, RoomLeft DEF Insert
    <3>3. [link |-> links + 1, code |-> code[p], visits |-> 0, limited |-> limited,
           expires |-> expires, disabled |-> FALSE] \in Records
      BY <3>2 DEF Records
    <3> DEFINE heap == [rec EXCEPT ![o] =
              [link |-> links + 1, code |-> code[p], visits |-> 0, limited |-> limited,
               expires |-> expires, disabled |-> FALSE]]
    <3>4. heap \in [Objs -> Records] /\ rec' = Collected(heap)
      BY <3>1, <3>3
    <3> HIDE DEF heap
    <3>5. rec' \in [Objs -> Records]
      BY <3>4, CollectedKeeps
    <3>6. urls' \in [Codes -> Objs \cup {None}] /\ links' \in 0..MaxLinks
      BY <3>1, <3>2
    <3> QED BY <2>0, <3>5, <3>6
  <2>2. CASE ~Vacant(code[p])
    BY <1>9, <2>2 DEF Insert, Enter, Goto
  <2> QED BY <2>1, <2>2
<1>10. ASSUME NEW p \in Procs, SetDisabled(p) PROVE Types'
  <2>1. ptr[p] \in Objs
    BY <1>10 DEF SetDisabled, PointersOK, Genuine
  <2>2. [rec[ptr[p]] EXCEPT !.disabled = TRUE] \in Records
    BY <2>1, MarkedTypes
  <2> QED BY <1>10, <2>1, <2>2 DEF SetDisabled, Goto, history
<1>11. ASSUME NEW p \in Procs, Overwrite(p) PROVE Types'
  <2>1. Genuine(ptr[p])
    BY <1>11 DEF Overwrite, PointersOK
  <2>2. PICK o \in Objs :
          /\ urls' = [urls EXCEPT ![rec[ptr[p]].code] = o]
          /\ rec' = Collected([rec EXCEPT ![o] = rec[ptr[p]]])
    BY <1>11 DEF Overwrite, Clone
  <2>3. rec' \in [Objs -> Records]
    BY <2>1, <2>2, CollectedKeeps DEF Genuine
  <2>4. stopped' \subseteq LinkIds
    BY <1>11, <2>1, GenuineTypes DEF Overwrite
  <2> QED BY <1>11, <2>1, <2>2, <2>3, <2>4 DEF Overwrite, Enter, Goto, Genuine
<1>12. ASSUME NEW p \in Procs, CheckState(p) PROVE Types'
  <2>1. rec' \in [Objs -> Records]
    BY <1>12, CollectedKeeps DEF CheckState
  <2> QED BY <1>12, <2>1 DEF CheckState, Goto, history
<1>13. ASSUME NEW p \in Procs, Visit(p) PROVE Types'
  <2>1. CASE urls[code[p]] = None
    BY <1>13, <2>1 DEF Visit, Enter, Goto
  <2>2. CASE urls[code[p]] # None
    <3> DEFINE o == urls[code[p]]
    <3>1. Genuine(o)
      BY <2>2 DEF PointersOK
    <3>2. rec[o] \in Records /\ rec[o].link \in LinkIds
      BY <3>1, GenuineTypes
    <3>3. made[rec[o].link] < MaxMade
      BY <1>13, <3>2, RoomLeft DEF Visit
    <3>4. rec[o].visits + 1 \in 0..MaxMade
      BY <3>1, <3>2, <3>3, RecordTypes DEF Genuine
    <3>5. [rec[o] EXCEPT !.visits = @ + 1] \in Records
      BY <3>2, <3>4 DEF Records
    <3>6. rec' \in [Objs -> Records]
      BY <1>13, <2>2, <3>1, <3>5 DEF Visit, Genuine
    <3>7. made' \in [LinkIds -> 0..MaxMade]
      BY <1>13, <2>2, <3>2, <3>3, SMTT(30) DEF Visit
    <3>8. served' \in [LinkIds -> 0..MaxMade]
      BY <1>13, <2>2, <3>2, <3>3 DEF Visit, PastOK
    <3>9. locked' \in BOOLEAN
      BY <1>13, <2>2 DEF Visit
    <3> QED BY <1>13, <3>6, <3>7, <3>8, <3>9 DEF Visit, Enter, Goto
  <2> QED BY <2>1, <2>2
<1>14. ASSUME NEW p \in Procs, Leave(p) PROVE Types'
  <2>1. rec' \in [Objs -> Records]
    BY <1>14, CollectedKeeps DEF Leave
  <2> QED BY <1>14, <2>1 DEF Leave, Goto, history, Unlocked, After
<1>15. CASE Mark
  <2>1. PICK o \in cands :
          /\ rec' = [rec EXCEPT ![o].disabled = TRUE]
          /\ ptr' = [ptr EXCEPT ![Janitor] = o]
          /\ cands' = cands \ {o}
    BY <1>15 DEF Mark
  <2>2. [rec[o] EXCEPT !.disabled = TRUE] \in Records
    BY MarkedTypes
  <2> QED BY <1>15, <2>1, <2>2 DEF Mark, Goto, history
<1>16. CASE UNCHANGED vars
  BY <1>16 DEF vars
<1> QED
  BY <1>1, <1>3, <1>4, <1>5, <1>6, <1>7, <1>8, <1>9, <1>10, <1>11, <1>12, <1>13, <1>14,
     <1>15, <1>16 DEF Next, Step

-----------------------------------------------------------------------------
(* What the steps that change the heap do to it *)

LEMMA CollectedStep ==
    ASSUME Types, NEW p \in Procs, NEW c \in Codes,
           Delete(p, c) \/ CheckState(p) \/ Leave(p)
    PROVE  \A o \in Objs \cap Live' : rec'[o] = rec[o]
BY CollectedKeeps DEF Delete, CheckState, Leave, Types

\* The record that Create(p, ...) installs.
New(p, limited, expires) ==
    [link |-> links + 1, code |-> code[p], visits |-> 0, limited |-> limited,
     expires |-> expires, disabled |-> FALSE]

LEMMA InsertStep ==
    ASSUME Types, RolesOK, RoomOK, NEW p \in Procs, NEW limited \in BOOLEAN,
           NEW expires \in BOOLEAN, Insert(p, limited, expires), urls[code[p]] = None
    PROVE  \E o \in Objs \ Live :
            /\ urls' = [urls EXCEPT ![code[p]] = o] /\ links' = links + 1
            /\ links' \in 1..MaxLinks
            /\ rec'[o] = New(p, limited, expires)
            /\ \A q \in Objs \cap Live' : q # o => rec'[q] = rec[q]
<1>1. PICK o \in Objs :
        /\ Unused(o) /\ urls' = [urls EXCEPT ![code[p]] = o] /\ links' = links + 1
        /\ rec' = Collected([rec EXCEPT ![o] = New(p, limited, expires)])
  BY DEF Insert, Vacant, New
<1>2. links < MaxLinks
  BY RoomLeft DEF Insert
<1>3. New(p, limited, expires) \in Records
  BY <1>2, NumbersOK DEF New, Records, Types
<1> DEFINE heap == [rec EXCEPT ![o] = New(p, limited, expires)]
<1>4. /\ heap \in [Objs -> Records] /\ rec' = Collected(heap)
      /\ heap[o] = New(p, limited, expires) /\ \A q \in Objs : q # o => heap[q] = rec[q]
  BY <1>1, <1>3 DEF Types
<1> HIDE DEF heap
<1>5. \A q \in Objs \cap Live' : rec'[q] = heap[q]
  BY <1>4, CollectedKeeps
<1>6. o \in Live'
  <2>1. code[p] \in Codes /\ urls'[code[p]] = o
    BY <1>1 DEF Types
  <2> QED BY <2>1 DEF Live
<1>7. o \notin Live
  BY <1>1, InstalledIsLive, RolesDistinct DEF Unused, Live, Installed
<1>8. links' \in 1..MaxLinks
  BY <1>1, <1>2, NumbersOK DEF Types
<1> QED BY <1>1, <1>4, <1>5, <1>6, <1>7, <1>8

LEMMA OverwriteStep ==
    ASSUME Types, PointersOK, NEW p \in Procs, Overwrite(p)
    PROVE  /\ Genuine(ptr[p])
           /\ \E o \in Objs \ Live :
                /\ urls' = [urls EXCEPT ![rec[ptr[p]].code] = o]
                /\ rec'[o] = rec[ptr[p]]
                /\ \A q \in Objs \cap Live' : q # o => rec'[q] = rec[q]
<1>0. Genuine(ptr[p])
  BY DEF Overwrite, PointersOK
<1>1. PICK o \in Objs :
        /\ Unused(o) /\ urls' = [urls EXCEPT ![rec[ptr[p]].code] = o]
        /\ rec' = Collected([rec EXCEPT ![o] = rec[ptr[p]]])
  BY DEF Overwrite, Clone
<1> DEFINE heap == [rec EXCEPT ![o] = rec[ptr[p]]]
<1>2. /\ heap \in [Objs -> Records] /\ rec' = Collected(heap)
      /\ heap[o] = rec[ptr[p]] /\ \A q \in Objs : q # o => heap[q] = rec[q]
  BY <1>0, <1>1 DEF Types, Genuine
<1> HIDE DEF heap
<1>3. \A q \in Objs \cap Live' : rec'[q] = heap[q]
  BY <1>2, CollectedKeeps
<1>4. o \in Live'
  <2>1. rec[ptr[p]].code \in Codes /\ urls'[rec[ptr[p]].code] = o
    BY <1>0, <1>1 DEF Types, Genuine
  <2> QED BY <2>1 DEF Live
<1>5. o \notin Live
  BY <1>1, InstalledIsLive, RolesDistinct, SMTT(30) DEF Unused, Live, Installed
<1> QED BY <1>0, <1>1, <1>2, <1>3, <1>4, <1>5

\* A visit that finds the code changes one record and two counters.
LEMMA VisitStep ==
    ASSUME Types, PointersOK, NEW p \in Procs, Visit(p), urls[code[p]] # None
    PROVE  LET o == urls[code[p]] IN
           /\ Genuine(o) /\ code[p] \in Codes
           /\ rec' = [rec EXCEPT ![o] = [rec[o] EXCEPT !.visits = @ + 1]]
           /\ made' = [made EXCEPT ![rec[o].link] = @ + 1]
           /\ rec[o].limited /\ rec[o].visits + 1 >= Limit => served' = served
           /\ served' = served \/ served' = [served EXCEPT ![rec[o].link] = @ + 1]
           /\ locked' = ((rec[o].visits + 1) % UnlockEvery # 0)
<1> DEFINE o == urls[code[p]]
<1>1. Genuine(o) /\ code[p] \in Codes
  BY SMTT(30) DEF PointersOK, Types
<1> DEFINE visited == [rec[o] EXCEPT !.visits = @ + 1]
<1>2. /\ rec' = [rec EXCEPT ![o] = visited]
      /\ made' = [made EXCEPT ![rec[o].link] = @ + 1]
      /\ served' = IF ExceedsMaxVisits(visited)
                   THEN served ELSE [served EXCEPT ![rec[o].link] = @ + 1]
      /\ locked' = (visited.visits % UnlockEvery # 0)
  BY DEF Visit
<1>3. rec[o] \in Records
  BY <1>1, GenuineTypes
<1>4. visited.visits = rec[o].visits + 1 /\ visited.limited = rec[o].limited
  BY <1>3 DEF Records
<1> QED BY <1>1, <1>2, <1>4 DEF ExceedsMaxVisits

-----------------------------------------------------------------------------
(* PointersOK *)

\* What PointersOK is about.
Pointing ==
    ({urls[c] : c \in Codes} \ {None}) \cup cands
        \cup {ptr[p] : p \in {q \in Procs : pc[q] \in {"disable", "save", "check"}}}

LEMMA PointingIs ==
    /\ PointersOK <=> \A o \in Pointing : Genuine(o)
    /\ Pointing \subseteq Live
BY DEF PointersOK, Pointing, Live

\* The step keeps PointersOK when whatever is pointed to afterwards, but for one
\* new record, was pointed to before and has kept its link, code and visits.
LEMMA PointersKept ==
    ASSUME Types, Types', PointersOK, links <= links', NEW new,
           \A l \in LinkIds : made[l] <= made'[l],
           \A o \in Pointing' : o # new =>
                /\ o \in Pointing
                /\ rec'[o].link = rec[o].link /\ rec'[o].code = rec[o].code
                /\ rec'[o].visits = rec[o].visits,
           new \in Pointing' =>
                /\ new \in Objs
                /\ rec'[new].link \in 1..links' /\ rec'[new].code \in Codes
                /\ rec'[new].visits <= made'[rec'[new].link]
    PROVE  PointersOK'
<1>1. ASSUME NEW o \in Pointing'
      PROVE  /\ o \in Objs /\ rec'[o].link \in 1..links' /\ rec'[o].code \in Codes
             /\ rec'[o].visits <= made'[rec'[o].link]
  <2>1. CASE o = new
    BY <2>1, <1>1
  <2>2. CASE o # new
    <3>1. Genuine(o)
      BY <2>2, <1>1, PointingIs
    <3>2. rec[o].link \in LinkIds /\ rec[o].link \in 1..links
          /\ made[rec[o].link] \in 0..MaxMade /\ rec[o].visits \in 0..MaxMade
          /\ rec[o].visits <= made[rec[o].link] /\ o \in Objs
      BY <3>1, GenuineTypes
    <3>3. made[rec[o].link] <= made'[rec[o].link] /\ made'[rec[o].link] \in 0..MaxMade
      BY <3>2 DEF Types
    <3>4. rec[o].link \in 1..links'
      BY <3>2 DEF Types
    <3>5. rec[o].visits <= made'[rec[o].link]
      BY <3>2, <3>3, NumbersOK
    <3> QED BY <2>2, <3>1, <3>2, <3>4, <3>5, <1>1 DEF Genuine
  <2> QED BY <2>1, <2>2
<1> QED BY <1>1 DEF PointersOK, Pointing, Genuine

LEMMA PointersStep == IInv /\ [Next]_vars => PointersOK'
<1> SUFFICES ASSUME IInv, [Next]_vars PROVE PointersOK'
  OBVIOUS
<1>0. Types /\ PointersOK /\ RolesOK /\ RoomOK /\ PastOK /\ Types'
  BY TypesSuffice, TypesStep DEF IInv
<1> USE <1>0, Roles
\* A step that counts no visit and changes no record, but for the flag Disabled.
<1>a. ASSUME links' = links, made' = made, Pointing' \subseteq Pointing,
             \A o \in Pointing' :
                /\ rec'[o].link = rec[o].link /\ rec'[o].code = rec[o].code
                /\ rec'[o].visits = rec[o].visits
      PROVE  PointersOK'
  <2>1. links <= links' /\ \A l \in LinkIds : made[l] <= made'[l]
    BY <1>a DEF Types
  <2>2. None \notin Pointing'
    BY <1>a, PointingIs, RolesDistinct DEF Genuine
  <2> QED BY <1>a, <2>1, <2>2, PointersKept
<1>b. ASSUME links' = links, made' = made, Pointing' \subseteq Pointing,
             \A o \in Objs \cap Live' : rec'[o] = rec[o]
      PROVE  PointersOK'
  <2>1. \A o \in Pointing' : o \in Objs \cap Live'
    BY <1>b, PointingIs DEF Genuine, Pointing, Live
  <2> QED BY <1>a, <1>b, <2>1
<1>1. ASSUME NEW p \in Creators, NEW custom \in BOOLEAN, Create(p, custom) PROVE PointersOK'
  BY <1>1 DEF Create, Goto, history, PointersOK, Genuine, Types
<1>2. ASSUME NEW p \in Procs, NEW c \in Codes, NEW label, Fetch(p, c, label)
      PROVE  PointersOK'
  BY <1>2 DEF Fetch, Goto, history, PointersOK, Genuine, Types
<1>3. ASSUME NEW p \in Updaters, NEW c \in Codes, Disable(p, c) \/ UpdateRemark(p, c)
      PROVE  PointersOK'
  BY <1>3, <1>2 DEF Disable, UpdateRemark
<1>4. ASSUME NEW p \in Deleters, NEW c \in Codes, Delete(p, c) PROVE PointersOK'
  <2>1. Pointing' \subseteq Pointing /\ links' = links /\ made' = made
    BY <1>4 DEF Delete, Enter, Goto, Without, Pointing, Types
  <2> QED BY <1>4, <1>b, <2>1, CollectedStep
<1>5. ASSUME NEW p \in Redirectors, NEW c \in Codes, Redirect(p, c) PROVE PointersOK'
  BY <1>5, <1>2 DEF Redirect
<1>6. CASE Sweep
  BY <1>6 DEF Sweep, Goto, history, Pending, Installed, PointersOK, Genuine, Types
<1>7. CASE Expire
  BY <1>7 DEF Expire, locals, history, PointersOK, Genuine
<1>8. ASSUME NEW p \in Procs, NEW c \in Codes, CheckExists(p, c) PROVE PointersOK'
  BY <1>8 DEF CheckExists, Goto, history, PointersOK, Genuine, Types
<1>9. ASSUME NEW p \in Procs, NEW limited \in BOOLEAN, NEW expires \in BOOLEAN,
             Insert(p, limited, expires)
      PROVE  PointersOK'
  <2>0. /\ pc' = [pc EXCEPT ![p] = "leave"]
        /\ UNCHANGED <<ptr, cands, made>>
    BY <1>9 DEF Insert, Enter, Goto
  <2>1. CASE urls[code[p]] = None
    <3>1. PICK o \in Objs \ Live :
            /\ urls' = [urls EXCEPT ![code[p]] = o] /\ links' = links + 1
            /\ links' \in 1..MaxLinks
            /\ rec'[o] = New(p, limited, expires)
            /\ \A q \in Objs \cap Live' : q # o => rec'[q] = rec[q]
      BY <1>9, <2>1, InsertStep
    <3>2. Pointing' \subseteq Pointing \cup {o}
      BY <2>0, <3>1 DEF Pointing, Types
    <3>3. \A q \in Pointing' : q # o => rec'[q] = rec[q]
      BY <3>1, <3>2, PointingIs DEF Genuine, Pointing, Live
    <3>4. links <= links' /\ \A l \in LinkIds : made[l] <= made'[l]
      BY <2>0, <3>1 DEF Types
    <3>5. rec'[o].link = links' /\ rec'[o].code \in Codes /\ rec'[o].visits = 0
      BY <3>1 DEF New, Types
    <3>6. rec'[o].link \in 1..links' /\ rec'[o].link \in LinkIds
      BY <3>1, <3>5 DEF LinkIds
    <3>7. rec'[o].visits <= made'[rec'[o].link]
      BY <3>5, <3>6 DEF Types
    <3> QED BY <3>2, <3>3, <3>4, <3>5, <3>6, <3>7, PointersKept
  <2>2. CASE urls[code[p]] # None
    BY <1>9, <2>0, <2>2 DEF Insert, Vacant, PointersOK, Genuine, Types
  <2> QED BY <2>1, <2>2
<1>10. ASSUME NEW p \in Procs, SetDisabled(p) PROVE PointersOK'
  <2>1. Pointing' \subseteq Pointing /\ links' = links /\ made' = made
    BY <1>10 DEF SetDisabled, Goto, history, Pointing, Types
  <2>2. \A o \in Objs : /\ rec'[o].link = rec[o].link /\ rec'[o].code = rec[o].code
                        /\ rec'[o].visits = rec[o].visits
    BY <1>10 DEF SetDisabled, Types, Records
  <2> QED BY <1>a, <2>1, <2>2, PointingIs DEF Genuine
<1>11. ASSUME NEW p \in Procs, Overwrite(p) PROVE PointersOK'
  <2>0. /\ pc' = [pc EXCEPT ![p] = "leave"]
        /\ UNCHANGED <<ptr, cands, made, links>>
    BY <1>11 DEF Overwrite, Enter, Goto
  <2>1. PICK o \in Objs \ Live :
            /\ urls' = [urls EXCEPT ![rec[ptr[p]].code] = o]
            /\ rec'[o] = rec[ptr[p]]
            /\ \A q \in Objs \cap Live' : q # o => rec'[q] = rec[q]
    BY <1>11, OverwriteStep
  <2>2. Pointing' \subseteq Pointing \cup {o}
    BY <2>0, <2>1 DEF Pointing, Types
  <2>3. \A q \in Pointing' : q # o => rec'[q] = rec[q]
    BY <2>1, <2>2, PointingIs DEF Genuine, Pointing, Live
  <2>4. links <= links' /\ \A l \in LinkIds : made[l] <= made'[l]
    BY <2>0 DEF Types
  <2>5. Genuine(ptr[p])
    BY <1>11, OverwriteStep
  <2> QED BY <2>0, <2>1, <2>2, <2>3, <2>4, <2>5, PointersKept DEF Genuine
<1>12. ASSUME NEW p \in Procs, CheckState(p) PROVE PointersOK'
  <2>1. Pointing' \subseteq Pointing /\ links' = links /\ made' = made
    BY <1>12 DEF CheckState, Goto, history, Pointing, Types
  <2> QED BY <1>12, <1>b, <2>1, CollectedStep, SomeCode
<1>13. ASSUME NEW p \in Procs, Visit(p) PROVE PointersOK'
  <2>0. pc' = [pc EXCEPT ![p] = "leave"] /\ UNCHANGED <<urls, ptr, cands, links>>
    BY <1>13 DEF Visit, Enter, Goto
  <2>1. CASE urls[code[p]] = None
    BY <1>13, <2>0, <2>1 DEF Visit, PointersOK, Genuine, Types
  <2>2. CASE urls[code[p]] # None
    <3> DEFINE o == urls[code[p]]
    <3>1. /\ Genuine(o) /\ code[p] \in Codes
          /\ rec' = [rec EXCEPT ![o] = [rec[o] EXCEPT !.visits = @ + 1]]
          /\ made' = [made EXCEPT ![rec[o].link] = @ + 1]
      BY <1>13, <2>2, VisitStep
    <3>2. Pointing' \subseteq Pointing /\ \A q \in Pointing : q \in Objs
      BY <2>0, PointingIs DEF Pointing, Types, Genuine
    <3>3. \A q \in Pointing' : q # o => rec'[q] = rec[q]
      BY <3>1, <3>2 DEF Types
    <3>4. /\ rec[o].link \in LinkIds /\ rec[o].link \in 1..links
          /\ made[rec[o].link] \in 0..MaxMade /\ rec[o].visits \in 0..MaxMade
          /\ rec[o].visits <= made[rec[o].link] /\ o \in Objs /\ rec[o] \in Records
      BY <3>1, GenuineTypes
    <3>5. links <= links' /\ \A l \in LinkIds : made[l] <= made'[l]
      BY <2>0, <3>1 DEF Types
    <3>6. /\ rec'[o].link = rec[o].link /\ rec'[o].code = rec[o].code
          /\ rec'[o].visits = rec[o].visits + 1
      BY <3>1, <3>4 DEF Types, Records
    <3>7. made'[rec[o].link] = made[rec[o].link] + 1
      BY <3>1, <3>4 DEF Types
    <3>8. rec'[o].visits <= made'[rec'[o].link]
      BY <3>4, <3>6, <3>7
    <3> HIDE DEF o
    <3> QED BY <2>0, <3>1, <3>2, <3>3, <3>4, <3>5, <3>6, <3>8, PointersKept DEF Genuine
  <2> QED BY <2>1, <2>2
<1>14. ASSUME NEW p \in Procs, Leave(p) PROVE PointersOK'
  <2>1. Pointing' \subseteq Pointing /\ links' = links /\ made' = made
    BY <1>14 DEF Leave, Goto, After, history, Pointing, Types
  <2> QED BY <1>14, <1>b, <2>1, CollectedStep, SomeCode
<1>15. CASE Mark
  <2>1. PICK o \in cands :
          /\ rec' = [rec EXCEPT ![o].disabled = TRUE]
          /\ ptr' = [ptr EXCEPT ![Janitor] = o]
          /\ cands' = cands \ {o}
    BY <1>15 DEF Mark
  <2>2. Pointing' \subseteq Pointing /\ links' = links /\ made' = made
    BY <1>15, <2>1 DEF Mark, Goto, history, Pointing, Types
  <2>3. \A q \in Objs : /\ rec'[q].link = rec[q].link /\ rec'[q].code = rec[q].code
                        /\ rec'[q].visits = rec[q].visits
    BY <2>1 DEF Types, Records
  <2> QED BY <1>a, <2>2, <2>3, PointingIs DEF Genuine
<1>16. CASE UNCHANGED vars
  BY <1>16 DEF vars, PointersOK, Genuine
<1> QED
  BY <1>1, <1>3, <1>4, <1>5, <1>6, <1>7, <1>8, <1>9, <1>10, <1>11, <1>12, <1>13, <1>14,
     <1>15, <1>16 DEF Next, Step

-----------------------------------------------------------------------------
(* RolesOK, RoomOK and PastOK *)

LEMMA RolesStep == IInv /\ [Next]_vars => RolesOK'
<1> SUFFICES ASSUME IInv, [Next]_vars PROVE RolesOK'
  OBVIOUS
<1>0. Types /\ RolesOK
  BY TypesSuffice DEF IInv
<1> USE <1>0, Roles, NumbersOK DEF RolesOK, Goto
<1>1. ASSUME NEW p \in Creators, NEW custom \in BOOLEAN, Create(p, custom) PROVE RolesOK'
  BY <1>1 DEF Create, Types
<1>2. ASSUME NEW p \in Updaters, NEW c \in Codes, Disable(p, c) \/ UpdateRemark(p, c)
      PROVE  RolesOK'
  BY <1>2 DEF Disable, UpdateRemark, Fetch, Types
<1>3. ASSUME NEW p \in Deleters, NEW c \in Codes, Delete(p, c) PROVE RolesOK'
  BY <1>3 DEF Delete, Enter, Types
<1>4. ASSUME NEW p \in Redirectors, NEW c \in Codes, Redirect(p, c) PROVE RolesOK'
  BY <1>4 DEF Redirect, Fetch, Types
<1>5. CASE Sweep
  BY <1>5 DEF Sweep, Types
<1>6. CASE Expire
  BY <1>6 DEF Expire, locals
<1>7. ASSUME NEW p \in Procs, NEW c \in Codes, CheckExists(p, c) PROVE RolesOK'
  BY <1>7 DEF CheckExists, TryAgain, Types
<1>8. ASSUME NEW p \in Procs, NEW limited \in BOOLEAN, NEW expires \in BOOLEAN,
             Insert(p, limited, expires)
      PROVE  RolesOK'
  <2>1. pc' = [pc EXCEPT ![p] = "leave"] /\ left' = left
    BY <1>8 DEF Insert, Enter
  <2> QED BY <2>1 DEF Types
<1>9. ASSUME NEW p \in Procs, SetDisabled(p) PROVE RolesOK'
  BY <1>9 DEF SetDisabled, Types
<1>10. ASSUME NEW p \in Procs, Overwrite(p) PROVE RolesOK'
  <2>1. pc' = [pc EXCEPT ![p] = "leave"] /\ left' = left
    BY <1>10 DEF Overwrite, Enter
  <2> QED BY <2>1 DEF Types
<1>11. ASSUME NEW p \in Procs, CheckState(p) PROVE RolesOK'
  BY <1>11 DEF CheckState, Types
<1>12. ASSUME NEW p \in Procs, Visit(p) PROVE RolesOK'
  <2>1. pc' = [pc EXCEPT ![p] = "leave"] /\ left' = left
    BY <1>12 DEF Visit, Enter
  <2> QED BY <2>1 DEF Types
<1>13. ASSUME NEW p \in Procs, Leave(p) PROVE RolesOK'
  BY <1>13 DEF Leave, After, Types
<1>14. CASE Mark
  BY <1>14 DEF Mark, Types
<1>15. CASE UNCHANGED vars
  BY <1>15 DEF vars
<1> QED
  BY <1>1, <1>2, <1>3, <1>4, <1>5, <1>6, <1>7, <1>8, <1>9, <1>10, <1>11, <1>12, <1>13,
     <1>14, <1>15 DEF Next, Step

\* Room for what is under way, when nothing more is counted and nothing more begins.
LEMMA RoomKept ==
    ASSUME Types, Types', RoomOK, links' = links, made' = made,
           Creating' \subseteq Creating, Redirecting' \subseteq Redirecting
    PROVE  RoomOK'
<1>1. /\ IsFiniteSet(Creating') /\ Cardinality(Creating') <= Cardinality(Creating)
      /\ IsFiniteSet(Redirecting') /\ Cardinality(Redirecting') <= Cardinality(Redirecting)
  BY FS_Subset DEF RoomOK
<1>2. /\ Cardinality(Creating') \in Nat /\ Cardinality(Creating) \in Nat
      /\ Cardinality(Redirecting') \in Nat /\ Cardinality(Redirecting) \in Nat
  BY <1>1, FS_CardinalityType DEF RoomOK
<1> QED BY <1>1, <1>2, NumbersOK DEF RoomOK, Types

LEMMA RoomStep == IInv /\ [Next]_vars => RoomOK'
<1> SUFFICES ASSUME IInv, [Next]_vars PROVE RoomOK'
  OBVIOUS
<1>0. Types /\ PointersOK /\ RolesOK /\ RoomOK /\ Types'
  BY TypesSuffice, TypesStep DEF IInv
<1>c. /\ Cardinality(Creating) \in Nat /\ Cardinality(Redirecting) \in Nat
      /\ IsFiniteSet(Creating) /\ IsFiniteSet(Redirecting)
  BY <1>0, FS_CardinalityType DEF RoomOK
<1> USE <1>0, Roles DEF Goto
<1>1. ASSUME NEW p \in Creators, NEW custom \in BOOLEAN, Create(p, custom) PROVE RoomOK'
  <2>1. Creating' = Creating \cup {p} /\ p \notin Creating /\ Redirecting' = Redirecting
    BY <1>1, RolesDistinct DEF Create, Creating, Redirecting, Types
  <2>2. links + Cardinality(Creating) < MaxLinks /\ links' = links /\ made' = made
    BY <1>1 DEF Create, Creating, history
  <2>3. IsFiniteSet(Creating') /\ Cardinality(Creating') = Cardinality(Creating) + 1
    BY <1>c, <2>1, FS_AddElement
  <2>4. links' + Cardinality(Creating') <= MaxLinks
    BY <1>c, <2>2, <2>3, NumbersOK DEF Types
  <2> QED BY <2>1, <2>2, <2>3, <2>4 DEF RoomOK
<1>2. ASSUME NEW p \in Updaters, NEW c \in Codes, Disable(p, c) \/ UpdateRemark(p, c)
      PROVE  RoomOK'
  <2>1. /\ Creating' \subseteq Creating /\ Redirecting' \subseteq Redirecting
        /\ links' = links /\ made' = made
    BY <1>2, RolesDistinct
    DEF Disable, UpdateRemark, Fetch, history, Creating, Redirecting, Types
  <2> QED BY <2>1, RoomKept
<1>3. ASSUME NEW p \in Deleters, NEW c \in Codes, Delete(p, c) PROVE RoomOK'
  <2>1. /\ Creating' \subseteq Creating /\ Redirecting' \subseteq Redirecting
        /\ links' = links /\ made' = made
    BY <1>3 DEF Delete, Enter, Creating, Redirecting, Types
  <2> QED BY <2>1, RoomKept
<1>4. ASSUME NEW p \in Redirectors, NEW c \in Codes, Redirect(p, c) PROVE RoomOK'
  <2>1. Redirecting' = Redirecting \cup {p} /\ p \notin Redirecting /\ Creating' = Creating
    BY <1>4, RolesDistinct DEF Redirect, Fetch, Creating, Redirecting, Types
  <2>2. /\ \A l \in LinkIds : made[l] + Cardinality(Redirecting) < MaxMade
        /\ links' = links /\ made' = made
    BY <1>4 DEF Redirect, Fetch, Redirecting, history
  <2>3. /\ IsFiniteSet(Redirecting')
        /\ Cardinality(Redirecting') = Cardinality(Redirecting) + 1
    BY <1>c, <2>1, FS_AddElement
  <2>4. \A l \in LinkIds : made'[l] + Cardinality(Redirecting') <= MaxMade
    BY <1>c, <2>2, <2>3, NumbersOK DEF Types
  <2> QED BY <2>1, <2>2, <2>3, <2>4 DEF RoomOK
<1>5. CASE Sweep
  <2>1. /\ Creating' \subseteq Creating /\ Redirecting' \subseteq Redirecting
        /\ links' = links /\ made' = made
    BY <1>5 DEF Sweep, history, Creating, Redirecting, Types
  <2> QED BY <2>1, RoomKept
<1>6. CASE Expire
  BY <1>6, RoomKept DEF Expire, locals, history, Creating, Redirecting
<1>7. ASSUME NEW p \in Procs, NEW c \in Codes, CheckExists(p, c) PROVE RoomOK'
  <2>1. /\ Creating' \subseteq Creating /\ Redirecting' \subseteq Redirecting
        /\ links' = links /\ made' = made
    BY <1>7 DEF CheckExists, history, Creating, Redirecting, Types
  <2> QED BY <2>1, RoomKept
<1>8. ASSUME NEW p \in Procs, NEW limited \in BOOLEAN, NEW expires \in BOOLEAN,
             Insert(p, limited, expires)
      PROVE  RoomOK'
  <2>1. pc' = [pc EXCEPT ![p] = "leave"] /\ made' = made /\ pc[p] = "insert"
    BY <1>8 DEF Insert, Enter
  <2>2. Redirecting' \subseteq Redirecting /\ Creating' \subseteq Creating
    BY <2>1 DEF Creating, Redirecting, Types
  <2>3. CASE urls[code[p]] = None
    <3>1. links' = links + 1
      BY <1>8, <2>3, InsertStep
    <3>2. p \in Creating /\ Creating' = Creating \ {p} /\ Redirecting' = Redirecting
      BY <2>1, RolesDistinct DEF Creating, Redirecting, RolesOK, Types
    <3>3. IsFiniteSet(Creating') /\ Cardinality(Creating') = Cardinality(Creating) - 1
      BY <1>c, <3>2, FS_RemoveElement
    <3> QED BY <1>c, <2>1, <3>1, <3>2, <3>3, NumbersOK DEF RoomOK, Types
  <2>4. CASE urls[code[p]] # None
    <3>1. links' = links
      BY <1>8, <2>4 DEF Insert, Vacant
    <3> QED BY <2>1, <2>2, <3>1, RoomKept
  <2> QED BY <2>3, <2>4
<1>9. ASSUME NEW p \in Procs, SetDisabled(p) PROVE RoomOK'
  <2>1. /\ Creating' \subseteq Creating /\ Redirecting' \subseteq Redirecting
        /\ links' = links /\ made' = made
    BY <1>9 DEF SetDisabled, history, Creating, Redirecting, Types
  <2> QED BY <2>1, RoomKept
<1>10. ASSUME NEW p \in Procs, Overwrite(p) PROVE RoomOK'
  <2>0. pc' = [pc EXCEPT ![p] = "leave"] /\ links' = links /\ made' = made
    BY <1>10 DEF Overwrite, Enter
  <2>1. Creating' \subseteq Creating /\ Redirecting' \subseteq Redirecting
    BY <2>0 DEF Creating, Redirecting, Types
  <2> QED BY <2>0, <2>1, RoomKept
<1>11. ASSUME NEW p \in Procs, CheckState(p) PROVE RoomOK'
  <2>1. /\ Creating' \subseteq Creating /\ Redirecting' \subseteq Redirecting
        /\ links' = links /\ made' = made
    BY <1>11 DEF CheckState, history, Creating, Redirecting, Types
  <2> QED BY <2>1, RoomKept
<1>12. ASSUME NEW p \in Procs, Visit(p) PROVE RoomOK'
  <2>1. pc' = [pc EXCEPT ![p] = "leave"] /\ links' = links /\ pc[p] = "visit"
    BY <1>12 DEF Visit, Enter
  <2>2. Redirecting' \subseteq Redirecting /\ Creating' \subseteq Creating
    BY <2>1 DEF Creating, Redirecting, Types
  <2>3. CASE urls[code[p]] = None
    <3>1. made' = made
      BY <1>12, <2>3 DEF Visit
    <3> QED BY <2>1, <2>2, <3>1, RoomKept
  <2>4. CASE urls[code[p]] # None
    <3> DEFINE o == urls[code[p]]
    <3>1. Genuine(o) /\ made' = [made EXCEPT ![rec[o].link] = @ + 1]
      BY <1>12, <2>4, VisitStep
    <3>2. \A l \in LinkIds : made'[l] <= made[l] + 1
      BY <3>1, GenuineTypes DEF Types
    <3>3. p \in Redirecting /\ Redirecting' = Redirecting \ {p} /\ Creating' = Creating
      BY <2>1, RolesDistinct DEF Creating, Redirecting, RolesOK, Types
    <3>4. /\ IsFiniteSet(Redirecting')
          /\ Cardinality(Redirecting') = Cardinality(Redirecting) - 1
      BY <1>c, <3>3, FS_RemoveElement
    <3>5. IsFiniteSet(Creating') /\ links' + Cardinality(Creating') <= MaxLinks
      BY <2>1, <3>3 DEF RoomOK
    <3>6. ASSUME NEW l \in LinkIds PROVE made'[l] + Cardinality(Redirecting') <= MaxMade
      <4>1. made[l] + Cardinality(Redirecting) <= MaxMade /\ made'[l] <= made[l] + 1
        BY <3>2 DEF RoomOK
      <4>2. made[l] \in Nat /\ made'[l] \in Nat
        BY DEF Types
      <4>3. Cardinality(Redirecting') = Cardinality(Redirecting) - 1
        BY <2>1, <3>3, <3>4 DEF Redirecting, RolesOK
      <4> QED BY <1>c, <4>1, <4>2, <4>3, NumbersOK
    <3> QED BY <3>4, <3>5, <3>6 DEF RoomOK
  <2> QED BY <2>3, <2>4
<1>13. ASSUME NEW p \in Procs, Leave(p) PROVE RoomOK'
  <2>1. /\ Creating' \subseteq Creating /\ Redirecting' \subseteq Redirecting
        /\ links' = links /\ made' = made
    BY <1>13 DEF Leave, After, history, Creating, Redirecting, Types
  <2> QED BY <2>1, RoomKept
<1>14. CASE Mark
  <2>1. /\ Creating' \subseteq Creating /\ Redirecting' \subseteq Redirecting
        /\ links' = links /\ made' = made
    BY <1>14 DEF Mark, history, Creating, Redirecting, Types
  <2> QED BY <2>1, RoomKept
<1>15. CASE UNCHANGED vars
  BY <1>15, RoomKept DEF vars, Creating, Redirecting
<1> QED
  BY <1>1, <1>2, <1>3, <1>4, <1>5, <1>6, <1>7, <1>8, <1>9, <1>10, <1>11, <1>12, <1>13,
     <1>14, <1>15 DEF Next, Step

LEMMA PastStep == IInv /\ [Next]_vars => PastOK'
<1> SUFFICES ASSUME IInv, [Next]_vars PROVE PastOK'
  OBVIOUS
<1>0. Types /\ PointersOK /\ RolesOK /\ RoomOK /\ PastOK /\ Types'
  BY TypesSuffice, TypesStep DEF IInv
<1> USE <1>0, Roles
\* A step that creates no link and counts no visit.
<1>a. ASSUME links' = links, made' = made, served' = served,
             gone' \subseteq 1..links, stopped' \subseteq 1..links
      PROVE  PastOK'
  BY <1>a DEF PastOK
<1>1. ASSUME NEW p \in Creators, NEW custom \in BOOLEAN, Create(p, custom) PROVE PastOK'
  BY <1>1, <1>a DEF Create, history, PastOK
<1>2. ASSUME NEW p \in Updaters, NEW c \in Codes, Disable(p, c) \/ UpdateRemark(p, c)
      PROVE  PastOK'
  BY <1>2, <1>a DEF Disable, UpdateRemark, Fetch, history, PastOK
<1>3. ASSUME NEW p \in Deleters, NEW c \in Codes, Delete(p, c) PROVE PastOK'
  <2>1. gone' \subseteq 1..links
    BY <1>3 DEF Delete, PastOK, PointersOK, Genuine
  <2> QED BY <1>3, <1>a, <2>1 DEF Delete, PastOK
<1>4. ASSUME NEW p \in Redirectors, NEW c \in Codes, Redirect(p, c) PROVE PastOK'
  BY <1>4, <1>a DEF Redirect, Fetch, history, PastOK
<1>5. CASE Sweep
  BY <1>5, <1>a DEF Sweep, history, PastOK
<1>6. CASE Expire
  BY <1>6, <1>a DEF Expire, history, PastOK
<1>7. ASSUME NEW p \in Procs, NEW c \in Codes, CheckExists(p, c) PROVE PastOK'
  BY <1>7, <1>a DEF CheckExists, history, PastOK
<1>8. ASSUME NEW p \in Procs, NEW limited \in BOOLEAN, NEW expires \in BOOLEAN,
             Insert(p, limited, expires)
      PROVE  PastOK'
  <2>1. UNCHANGED <<made, served, gone, stopped>>
    BY <1>8 DEF Insert
  <2>2. links' = links + 1 \/ links' = links
    BY <1>8 DEF Insert
  <2>3. links \in Nat
    BY NumbersOK DEF Types
  <2>4. 1..links \subseteq 1..links' /\ \A l \in Nat : l > links' => l > links
    BY <2>2, <2>3
  <2>5. \A l \in LinkIds : l \in Nat
    BY DEF LinkIds
  <2> QED BY <2>1, <2>4, <2>5 DEF PastOK
<1>9. ASSUME NEW p \in Procs, SetDisabled(p) PROVE PastOK'
  BY <1>9, <1>a DEF SetDisabled, history, PastOK
<1>10. ASSUME NEW p \in Procs, Overwrite(p) PROVE PastOK'
  <2>1. rec[ptr[p]].link \in 1..links
    BY <1>10, OverwriteStep DEF Genuine
  <2>2. stopped' \subseteq stopped \cup {rec[ptr[p]].link}
    BY <1>10 DEF Overwrite
  <2>3. stopped' \subseteq 1..links
    BY <2>1, <2>2 DEF PastOK
  <2> QED BY <1>10, <1>a, <2>3 DEF Overwrite, PastOK
<1>11. ASSUME NEW p \in Procs, CheckState(p) PROVE PastOK'
  BY <1>11, <1>a DEF CheckState, history, PastOK
<1>12. ASSUME NEW p \in Procs, Visit(p) PROVE PastOK'
  <2>1. UNCHANGED <<links, gone, stopped>>
    BY <1>12 DEF Visit
  <2>2. CASE urls[code[p]] = None
    BY <1>12, <1>a, <2>1, <2>2 DEF Visit, PastOK
  <2>3. CASE urls[code[p]] # None
    <3> DEFINE k == rec[urls[code[p]]].link
    <3>1. /\ Genuine(urls[code[p]]) /\ made' = [made EXCEPT ![k] = @ + 1]
          /\ served' = served \/ served' = [served EXCEPT ![k] = @ + 1]
      BY <1>12, <2>3, VisitStep
    <3>2. k \in LinkIds /\ k \in 1..links
      BY <3>1, GenuineTypes
    <3> HIDE DEF k
    <3>3. ASSUME NEW l \in LinkIds
          PROVE  served'[l] <= made'[l] /\ (l > links => made'[l] = 0)
      <4>1. /\ made[l] \in Nat /\ served[l] \in Nat
            /\ served[l] <= made[l] /\ (l > links => made[l] = 0)
        BY <3>3 DEF PastOK, Types
      <4>2. made'[l] = (IF l = k THEN made[l] + 1 ELSE made[l])
        BY <3>1, <3>3 DEF Types
      <4>3. served'[l] = served[l] \/ (l = k /\ served'[l] = served[l] + 1)
        BY <3>1, <3>3 DEF Types
      <4>4. l > links => l # k
        BY <3>2 DEF Types
      <4> QED BY <4>1, <4>2, <4>3, <4>4
    <3> QED BY <2>1, <3>3 DEF PastOK
  <2> QED BY <2>2, <2>3
<1>13. ASSUME NEW p \in Procs, Leave(p) PROVE PastOK'
  BY <1>13, <1>a DEF Leave, history, PastOK
<1>14. CASE Mark
  BY <1>14, <1>a DEF Mark, history, PastOK
<1>15. CASE UNCHANGED vars
  BY <1>15, <1>a DEF vars, PastOK
<1> QED
  BY <1>1, <1>2, <1>3, <1>4, <1>5, <1>6, <1>7, <1>8, <1>9, <1>10, <1>11, <1>12, <1>13,
     <1>14, <1>15 DEF Next, Step

-----------------------------------------------------------------------------
(* SectionOK *)

LEMMA SectionStep == IInv /\ [Next]_vars => SectionOK'
<1> SUFFICES ASSUME IInv, [Next]_vars PROVE SectionOK'
  OBVIOUS
<1>0. Types /\ PointersOK /\ RolesOK /\ RoomOK /\ PastOK /\ SectionOK /\ Types'
  BY TypesSuffice, TypesStep DEF IInv
<1> USE <1>0, Roles DEF Goto
\* A step outside of the critical sections.
<1>a. ASSUME locked' = locked, alive' = alive, made' = made, InSection' = InSection
      PROVE  SectionOK'
  BY <1>a DEF SectionOK
\* A step that enters one, and keeps the lock.
<1>b. ASSUME NEW p \in Procs, Enter(p), locked' = TRUE, alive' = alive,
             \A l \in LinkIds : made[l] <= made'[l]
      PROVE  SectionOK'
  <2>1. InSection' = InSection \cup {p}
    BY <1>b DEF Enter, InSection, Types
  <2>2. (\A l \in LinkIds : made'[l] < UnlockEvery) => \A l \in LinkIds : made[l] < UnlockEvery
    BY <1>b, NumbersOK DEF Types
  <2> QED BY <1>b, <2>1, <2>2 DEF SectionOK, Enter
<1>1. ASSUME NEW p \in Creators, NEW custom \in BOOLEAN, Create(p, custom) PROVE SectionOK'
  <2>1. InSection' = InSection
    BY <1>1 DEF Create, InSection, Types
  <2> QED BY <1>1, <1>a, <2>1 DEF Create, history
<1>2. ASSUME NEW p \in Procs, NEW c \in Codes, NEW label \in {"disable", "save", "check"},
             Fetch(p, c, label)
      PROVE  SectionOK'
  <2>1. InSection' = InSection
    BY <1>2 DEF Fetch, InSection, Types
  <2> QED BY <1>2, <1>a, <2>1 DEF Fetch, history
<1>3. ASSUME NEW p \in Deleters, NEW c \in Codes, Delete(p, c) PROVE SectionOK'
  BY <1>3, <1>b DEF Delete, Types
<1>4. CASE Sweep
  <2>1. InSection' = InSection
    BY <1>4 DEF Sweep, InSection, Types
  <2> QED BY <1>4, <1>a, <2>1 DEF Sweep, history
<1>5. CASE Expire
  BY <1>5, <1>a DEF Expire, locals, history, InSection
<1>6. ASSUME NEW p \in Procs, NEW c \in Codes, CheckExists(p, c) PROVE SectionOK'
  <2>1. InSection' = InSection
    BY <1>6 DEF CheckExists, InSection, Types
  <2> QED BY <1>6, <1>a, <2>1 DEF CheckExists, history
<1>7. ASSUME NEW p \in Procs, NEW limited \in BOOLEAN, NEW expires \in BOOLEAN,
             Insert(p, limited, expires)
      PROVE  SectionOK'
  BY <1>7, <1>b DEF Insert, Types
<1>8. ASSUME NEW p \in Procs, SetDisabled(p) PROVE SectionOK'
  <2>1. InSection' = InSection
    BY <1>8 DEF SetDisabled, InSection, Types
  <2> QED BY <1>8, <1>a, <2>1 DEF SetDisabled, history
<1>9. ASSUME NEW p \in Procs, Overwrite(p) PROVE SectionOK'
  BY <1>9, <1>b DEF Overwrite, Types
<1>10. ASSUME NEW p \in Procs, CheckState(p) PROVE SectionOK'
  <2>1. InSection' = InSection
    BY <1>10 DEF CheckState, InSection, Types
  <2> QED BY <1>10, <1>a, <2>1 DEF CheckState, history
\* The visit that unlocks twice has made as many visits.
<1>11. ASSUME NEW p \in Procs, Visit(p) PROVE SectionOK'
  <2>1. Enter(p) /\ alive' = alive
    BY <1>11 DEF Visit
  <2>2. CASE urls[code[p]] = None
    <3>1. locked' = TRUE /\ made' = made
      BY <1>11, <2>2 DEF Visit
    <3> QED BY <1>b, <2>1, <3>1 DEF Types
  <2>3. CASE urls[code[p]] # None
    <3> DEFINE o == urls[code[p]]
               k == rec[o].link
    <3>1. /\ Genuine(o) /\ made' = [made EXCEPT ![k] = @ + 1]
          /\ locked' = ((rec[o].visits + 1) % UnlockEvery # 0)
      BY <1>11, <2>3, VisitStep
    <3>2. /\ k \in LinkIds /\ made[k] \in 0..MaxMade /\ rec[o].visits <= made[k]
          /\ rec[o].visits \in 0..MaxMade
      BY <3>1, GenuineTypes
    <3>3. \A l \in LinkIds : made[l] <= made'[l]
      BY <3>1, <3>2 DEF Types
    <3>4. CASE locked' = TRUE
      BY <1>b, <2>1, <3>3, <3>4
    <3>5. CASE locked' = FALSE
      <4>1. (rec[o].visits + 1) % UnlockEvery = 0
        BY <3>1, <3>5
      <4>2. rec[o].visits + 1 >= UnlockEvery
        BY <3>2, <4>1, NumbersOK
      <4>3. made'[k] >= UnlockEvery
        BY <3>1, <3>2, <4>2, NumbersOK DEF Types
      <4>4. ~(made'[k] < UnlockEvery)
        BY <3>2, <4>3, NumbersOK DEF Types
      <4> QED BY <3>2, <3>5, <4>4 DEF SectionOK
    <3> QED BY <3>4, <3>5 DEF Types
  <2> QED BY <2>2, <2>3
\* The last one to leave cannot hold the lock, but may find it free.
<1>12. ASSUME NEW p \in Procs, Leave(p) PROVE SectionOK'
  <2>1. p \in InSection /\ InSection' = InSection \ {p}
    BY <1>12 DEF Leave, After, InSection, Types
  <2>2. locked' = FALSE /\ alive' = locked /\ made' = made
    BY <1>12 DEF Leave, Unlocked, history
  <2> QED BY <2>1, <2>2 DEF SectionOK
<1>13. CASE Mark
  <2>1. InSection' = InSection
    BY <1>13 DEF Mark, InSection, Types
  <2> QED BY <1>13, <1>a, <2>1 DEF Mark, history
<1>14. CASE UNCHANGED vars
  BY <1>14, <1>a DEF vars, InSection
<1> QED
  BY <1>1, <1>2, <1>3, <1>4, <1>5, <1>6, <1>7, <1>8, <1>9, <1>10, <1>11, <1>12, <1>13,
     <1>14 DEF Next, Step, Disable, UpdateRemark, Redirect

-----------------------------------------------------------------------------
(* CleanInv *)

\* HeldOK for one code, and what the map must hold.
HeldAt(c) ==
    urls[c] # None =>
        LET r == rec[urls[c]] IN
        /\ r.code = c
        /\ \A d \in Codes : urls[d] # None /\ rec[urls[d]].link = r.link => d = c
        /\ r.link \notin gone
        /\ r.link \in stopped => r.disabled
        /\ r.visits = made[r.link]
        /\ r.limited => served[r.link] < Limit
AllHeld == \A l \in 1..links : l \notin gone => Holds(l)

LEMMA CleanIs == CleanInv <=> (~raced => AllHeld /\ \A c \in Codes : HeldAt(c))
BY DEF CleanInv, HeldOK, HeldAt, AllHeld

\* A step that leaves the map and the history alone, and of the records it holds
\* changes at most the flag Disabled, which it may only set.
LEMMA CleanKept ==
    ASSUME Types, CleanInv, raced' = raced, urls' = urls,
           UNCHANGED <<links, gone, stopped, made, served>>,
           \A c \in Codes : urls[c] # None =>
                /\ rec'[urls[c]].link = rec[urls[c]].link
                /\ rec'[urls[c]].code = rec[urls[c]].code
                /\ rec'[urls[c]].visits = rec[urls[c]].visits
                /\ rec'[urls[c]].limited = rec[urls[c]].limited
                /\ rec[urls[c]].disabled => rec'[urls[c]].disabled
    PROVE  CleanInv'
BY DEF CleanInv, HeldOK, Holds

LEMMA CleanStep == IInv /\ [Next]_vars => CleanInv'
<1> SUFFICES ASSUME IInv, [Next]_vars PROVE CleanInv'
  OBVIOUS
<1>0. Types /\ PointersOK /\ RolesOK /\ RoomOK /\ PastOK /\ CleanInv /\ Types'
  BY TypesSuffice, TypesStep DEF IInv
<1> USE <1>0, Roles DEF Goto
<1>r. \A c \in Codes : urls[c] # None =>
        urls[c] \in Objs /\ Genuine(urls[c]) /\ rec[urls[c]] \in Records
  BY GenuineTypes DEF PointersOK
\* The collector keeps what the map holds.
<1>a. ASSUME urls' = urls, raced' = raced, UNCHANGED <<links, gone, stopped, made, served>>,
             \A o \in Objs \cap Live' : rec'[o] = rec[o]
      PROVE  CleanInv'
  <2>1. \A c \in Codes : urls[c] # None => rec'[urls[c]] = rec[urls[c]]
    BY <1>a, <1>r DEF Live
  <2> QED BY <1>a, <2>1, CleanKept
<1>1. ASSUME NEW p \in Creators, NEW custom \in BOOLEAN, Create(p, custom) PROVE CleanInv'
  BY <1>1, CleanKept DEF Create, history
<1>2. ASSUME NEW p \in Procs, NEW c \in Codes, NEW label \in {"disable", "save", "check"},
             Fetch(p, c, label)
      PROVE  CleanInv'
  BY <1>2, CleanKept DEF Fetch, history
\* The deleted link was at one code only.
<1>3. ASSUME NEW p \in Deleters, NEW c \in Codes, Delete(p, c) PROVE CleanInv'
  <2>1. /\ urls[c] # None /\ urls' = [urls EXCEPT ![c] = None]
        /\ gone' = gone \cup {rec[urls[c]].link}
        /\ UNCHANGED <<links, stopped, made, served, raced>>
    BY <1>3 DEF Delete, Without
  <2>2. \A d \in Codes : d # c => urls'[d] = urls[d]
    BY <2>1 DEF Types
  <2>3. urls'[c] = None
    BY <2>1 DEF Types
  <2>4. \A d \in Codes : d # c /\ urls[d] # None => rec'[urls[d]] = rec[urls[d]]
    BY <1>3, <2>2, <1>r, CollectedStep DEF Live
  <2>5. SUFFICES ASSUME ~raced PROVE AllHeld' /\ \A d \in Codes : HeldAt(d)'
    BY <2>1, CleanIs DEF CleanInv, HeldOK, HeldAt, AllHeld
  <2>6. AllHeld /\ \A d \in Codes : HeldAt(d)
    BY <2>5, CleanIs
  <2>7. ASSUME NEW d \in Codes PROVE HeldAt(d)'
    BY <2>1, <2>2, <2>3, <2>4, <2>6 DEF HeldAt
  <2>8. ASSUME NEW l \in 1..links, l \notin gone' PROVE Holds(l)'
    <3>1. PICK d \in Codes : urls[d] # None /\ rec[urls[d]].link = l
      BY <2>1, <2>6, <2>8 DEF AllHeld, Holds
    <3>2. d # c
      BY <2>1, <2>8, <3>1
    <3> QED BY <2>2, <2>4, <3>1, <3>2 DEF Holds
  <2> QED BY <2>1, <2>7, <2>8 DEF AllHeld
<1>4. CASE Sweep
  BY <1>4, CleanKept DEF Sweep, history
<1>5. CASE Expire
  BY <1>5, CleanKept DEF Expire, history
<1>6. ASSUME NEW p \in Procs, NEW c \in Codes, CheckExists(p, c) PROVE CleanInv'
  BY <1>6, CleanKept DEF CheckExists, history
\* The new link has no past, and its code was vacant.
<1>7. ASSUME NEW p \in Procs, NEW limited \in BOOLEAN, NEW expires \in BOOLEAN,
             Insert(p, limited, expires)
      PROVE  CleanInv'
  <2>1. UNCHANGED <<gone, stopped, made, served, raced>>
    BY <1>7 DEF Insert
  <2>2. CASE urls[code[p]] # None
    BY <1>7, <2>1, <2>2, CleanKept DEF Insert, Vacant
  <2>3. CASE urls[code[p]] = None
    <3>1. PICK o \in Objs \ Live :
            /\ urls' = [urls EXCEPT ![code[p]] = o] /\ links' = links + 1
            /\ links' \in 1..MaxLinks
            /\ rec'[o] = New(p, limited, expires)
            /\ \A q \in Objs \cap Live' : q # o => rec'[q] = rec[q]
      BY <1>7, <2>3, InsertStep
    <3>2. code[p] \in Codes /\ urls'[code[p]] = o /\ o # None
      BY <3>1, RolesDistinct DEF Types
    <3>3. \A d \in Codes : d # code[p] => urls'[d] = urls[d]
      BY <3>1 DEF Types
    <3>4. \A d \in Codes : d # code[p] /\ urls[d] # None => rec'[urls[d]] = rec[urls[d]]
      BY <3>1, <3>3, <1>r DEF Live
    <3>5. /\ rec'[o].link = links' /\ rec'[o].code = code[p] /\ rec'[o].visits = 0
          /\ rec'[o].link \in LinkIds
      BY <3>1 DEF New, LinkIds
    <3>6. links' \notin 1..links /\ 1..links' = 1..links \cup {links'}
      BY <3>1 DEF Types
    <3>7. \A d \in Codes : urls[d] # None => rec[urls[d]].link \in 1..links
      BY <1>r DEF Genuine
    <3>8. links' \notin gone /\ links' \notin stopped
      BY <3>6 DEF PastOK
    <3>9. made[links'] = 0 /\ served[links'] < Limit
      <4>1. links' > links /\ links' \in LinkIds
        BY <3>1 DEF Types, LinkIds
      <4>2. made[links'] = 0 /\ served[links'] <= made[links'] /\ served[links'] \in Nat
        BY <4>1 DEF PastOK, Types
      <4> QED BY <4>2, NumbersOK
    <3>10. SUFFICES ASSUME ~raced PROVE AllHeld' /\ \A d \in Codes : HeldAt(d)'
      BY <2>1, CleanIs DEF CleanInv, HeldOK, HeldAt, AllHeld
    <3>11. AllHeld /\ \A d \in Codes : HeldAt(d)
      BY <3>10, CleanIs
    <3>12. ASSUME NEW d \in Codes PROVE HeldAt(d)'
      <4>1. CASE d = code[p]
        BY <2>1, <3>2, <3>3, <3>4, <3>5, <3>6, <3>7, <3>8, <3>9, <4>1 DEF HeldAt
      <4>2. CASE d # code[p]
        <5>1. CASE urls[d] = None
          BY <3>3, <4>2, <5>1 DEF HeldAt
        <5>2. CASE urls[d] # None
          <6>1. /\ rec[urls[d]].code = d
                /\ \A e \in Codes :
                    urls[e] # None /\ rec[urls[e]].link = rec[urls[d]].link => e = d
                /\ rec[urls[d]].link \notin gone
                /\ rec[urls[d]].link \in stopped => rec[urls[d]].disabled
                /\ rec[urls[d]].visits = made[rec[urls[d]].link]
                /\ rec[urls[d]].limited => served[rec[urls[d]].link] < Limit
            BY <3>11, <5>2 DEF HeldAt
          <6>2. rec[urls[d]].link # links'
            BY <3>6, <3>7, <5>2
          <6>3. \A e \in Codes :
                    urls'[e] # None /\ rec'[urls'[e]].link = rec[urls[d]].link => e = d
            BY <3>2, <3>3, <3>4, <3>5, <6>1, <6>2
          <6> QED BY <2>1, <3>3, <3>4, <4>2, <5>2, <6>1, <6>3 DEF HeldAt
        <5> QED BY <5>1, <5>2
      <4> QED BY <4>1, <4>2
    <3>13. ASSUME NEW l \in 1..links', l \notin gone' PROVE Holds(l)'
      <4>1. CASE l = links'
        BY <3>2, <3>5, <4>1 DEF Holds
      <4>2. CASE l \in 1..links
        <5>1. PICK d \in Codes : urls[d] # None /\ rec[urls[d]].link = l
          BY <2>1, <3>11, <3>13, <4>2 DEF AllHeld, Holds
        <5>2. d # code[p]
          BY <2>3, <5>1
        <5> QED BY <3>3, <3>4, <5>1, <5>2 DEF Holds
      <4> QED BY <3>6, <4>1, <4>2
    <3> QED BY <3>12, <3>13 DEF AllHeld
  <2> QED BY <2>2, <2>3
<1>8. ASSUME NEW p \in Procs, SetDisabled(p) PROVE CleanInv'
  <2>1. ptr[p] \in Objs
    BY <1>8 DEF SetDisabled, PointersOK, Genuine
  <2>2. \A o \in Objs :
            /\ rec'[o].link = rec[o].link /\ rec'[o].code = rec[o].code
            /\ rec'[o].visits = rec[o].visits /\ rec'[o].limited = rec[o].limited
            /\ rec[o].disabled => rec'[o].disabled
    BY <1>8, <2>1 DEF SetDisabled, Types, Records
  <2> QED BY <1>8, <1>r, <2>2, CleanKept DEF SetDisabled, history
\* A copy that is not stale replaces what it is a copy of.
<1>9. ASSUME NEW p \in Procs, Overwrite(p) PROVE CleanInv'
  <2> DEFINE u == rec[ptr[p]]
  <2>1. SUFFICES ASSUME ~raced' PROVE AllHeld' /\ \A d \in Codes : HeldAt(d)'
    BY DEF CleanInv, HeldOK, HeldAt, AllHeld
  <2>2. ~raced /\ urls[u.code] = ptr[p] /\ UNCHANGED <<links, gone, made, served>>
    BY <1>9, <2>1 DEF Overwrite
  <2>3. stopped' = IF u.disabled THEN stopped \cup {u.link} ELSE stopped
    BY <1>9 DEF Overwrite
  <2>4. u.code \in Codes /\ ptr[p] \in Objs /\ ptr[p] # None
    BY <1>9, OverwriteStep, RolesDistinct DEF Genuine
  <2>5. PICK o \in Objs \ Live :
            /\ urls' = [urls EXCEPT ![u.code] = o]
            /\ rec'[o] = u
            /\ \A q \in Objs \cap Live' : q # o => rec'[q] = rec[q]
    BY <1>9, OverwriteStep
  <2>6. \A d \in Codes : urls'[d] = None <=> urls[d] = None
    BY <2>2, <2>4, <2>5, RolesDistinct DEF Types
  <2>7. \A d \in Codes : urls[d] # None => rec'[urls'[d]] = rec[urls[d]]
    <3>1. ASSUME NEW d \in Codes, urls[d] # None, d # u.code
          PROVE  rec'[urls'[d]] = rec[urls[d]]
      <4>1. urls'[d] = urls[d] /\ urls[d] \in Objs /\ urls[d] # o
        BY <3>1, <2>4, <2>5, <1>r DEF Types, Live
      <4> QED BY <4>1, <3>1, <2>5 DEF Live
    <3>2. rec'[urls'[u.code]] = rec[urls[u.code]]
      BY <2>2, <2>4, <2>5 DEF Types
    <3> QED BY <3>1, <3>2
  <2>8. AllHeld /\ \A c \in Codes : HeldAt(c)
    BY <2>2, CleanIs
  <2> HIDE DEF u
  <2>9. ASSUME NEW d \in Codes PROVE HeldAt(d)'
    <3>1. SUFFICES ASSUME urls[d] # None PROVE HeldAt(d)'
      BY <2>6 DEF HeldAt
    <3> DEFINE r == rec[urls[d]]
    <3>2. /\ r.code = d
          /\ \A e \in Codes : urls[e] # None /\ rec[urls[e]].link = r.link => e = d
          /\ r.link \notin gone
          /\ r.link \in stopped => r.disabled
          /\ r.visits = made[r.link]
          /\ r.limited => served[r.link] < Limit
      BY <2>8, <3>1 DEF HeldAt
    <3>3. rec'[urls'[d]] = r
      BY <2>7, <3>1
    <3>4. r.link \in stopped' => r.disabled
      <4>1. CASE r.link = u.link
        <5>1. u.code = d /\ r = u
          BY <2>2, <2>4, <3>2, <4>1 DEF u
        <5> QED BY <2>3, <3>2, <5>1
      <4>2. CASE r.link # u.link
        BY <2>3, <3>2, <4>2
      <4> QED BY <4>1, <4>2
    <3>5. \A e \in Codes : urls'[e] # None /\ rec'[urls'[e]].link = r.link => e = d
      BY <2>6, <2>7, <3>2
    <3> HIDE DEF r
    <3> QED BY <2>2, <3>2, <3>3, <3>4, <3>5 DEF HeldAt
  <2>10. ASSUME NEW l \in 1..links, l \notin gone PROVE Holds(l)'
    BY <2>6, <2>7, <2>8, <2>10 DEF AllHeld, Holds
  <2> QED BY <2>2, <2>9, <2>10 DEF AllHeld
<1>10. ASSUME NEW p \in Procs, CheckState(p) PROVE CleanInv'
  BY <1>10, <1>a, CollectedStep, SomeCode DEF CheckState, history
\* The record and the history count the visit together.
<1>11. ASSUME NEW p \in Procs, Visit(p) PROVE CleanInv'
  <2>1. UNCHANGED <<urls, links, gone, stopped, raced>>
    BY <1>11 DEF Visit
  <2>2. CASE urls[code[p]] = None
    BY <1>11, <2>1, <2>2, CleanKept DEF Visit
  <2>3. CASE urls[code[p]] # None
    <3> DEFINE o == urls[code[p]]
               k == rec[o].link
    <3>1. /\ Genuine(o) /\ code[p] \in Codes
          /\ rec' = [rec EXCEPT ![o] = [rec[o] EXCEPT !.visits = @ + 1]]
          /\ made' = [made EXCEPT ![k] = @ + 1]
          /\ rec[o].limited /\ rec[o].visits + 1 >= Limit => served' = served
          /\ served' = served \/ served' = [served EXCEPT ![k] = @ + 1]
      BY <1>11, <2>3, VisitStep
    <3>2. k \in LinkIds /\ made[k] \in 0..MaxMade /\ rec[o].visits \in 0..MaxMade
          /\ o \in Objs /\ rec[o] \in Records
      BY <3>1, GenuineTypes, SMTT(30)
    <3>3. /\ rec'[o].link = k /\ rec'[o].code = rec[o].code
          /\ rec'[o].visits = rec[o].visits + 1
          /\ rec'[o].limited = rec[o].limited /\ rec'[o].disabled = rec[o].disabled
      BY <3>1, <3>2 DEF Types, Records
    <3>4. \A d \in Codes : urls[d] # None /\ urls[d] # o => rec'[urls[d]] = rec[urls[d]]
      BY <3>1, <1>r DEF Types
    <3>5. SUFFICES ASSUME ~raced PROVE AllHeld' /\ \A d \in Codes : HeldAt(d)'
      BY <2>1, CleanIs DEF CleanInv, HeldOK, HeldAt, AllHeld
    <3>6. AllHeld /\ \A d \in Codes : HeldAt(d)
      BY <3>5, CleanIs
    <3>7. \A d \in Codes : urls[d] # None => rec'[urls[d]].link = rec[urls[d]].link
      BY <3>3, <3>4
    <3>8. \A d \in Codes : urls[d] # None /\ d # code[p] =>
                urls[d] # o /\ rec[urls[d]].link # k /\ rec[urls[d]].link \in LinkIds
      <4>1. ASSUME NEW d \in Codes, urls[d] # None, d # code[p]
            PROVE  rec[urls[d]].link # k
        BY <2>3, <3>1, <3>6, <4>1 DEF HeldAt
      <4> QED BY <4>1, <1>r, GenuineTypes
    <3> HIDE DEF o, k
    <3>9. ASSUME NEW d \in Codes PROVE HeldAt(d)'
      <4>1. CASE urls[d] = None
        BY <2>1, <4>1 DEF HeldAt
      <4>2. CASE d = code[p]
        <5>1. /\ rec[o].code = d /\ urls[d] = o
              /\ \A e \in Codes : urls[e] # None /\ rec[urls[e]].link = k => e = d
              /\ k \notin gone
              /\ k \in stopped => rec[o].disabled
              /\ rec[o].visits = made[k]
              /\ rec[o].limited => served[k] < Limit
          BY <2>3, <3>6, <4>2 DEF HeldAt, o, k
        <5>2. made'[k] = made[k] + 1
          BY <3>1, <3>2 DEF Types
        <5>3. rec[o].limited => served'[k] < Limit
          <6>1. CASE served' = served
            BY <5>1, <6>1
          <6>2. CASE served' # served /\ rec[o].limited
            <7>1. served'[k] = served[k] + 1 /\ ~(rec[o].visits + 1 >= Limit)
              BY <3>1, <3>2, <6>2 DEF Types
            <7>2. served[k] <= made[k] /\ served[k] \in Nat /\ made[k] \in Nat
              BY <3>2 DEF PastOK, Types
            <7> QED BY <5>1, <7>1, <7>2, NumbersOK
          <6> QED BY <6>1, <6>2
        <5>4. \A e \in Codes : urls[e] # None /\ rec'[urls[e]].link = k => e = d
          BY <3>7, <5>1
        <5> QED BY <2>1, <3>3, <4>2, <5>1, <5>2, <5>3, <5>4 DEF HeldAt
      <4>3. CASE urls[d] # None /\ d # code[p]
        <5> DEFINE r == rec[urls[d]]
        <5>1. /\ r.code = d
              /\ \A e \in Codes : urls[e] # None /\ rec[urls[e]].link = r.link => e = d
              /\ r.link \notin gone
              /\ r.link \in stopped => r.disabled
              /\ r.visits = made[r.link]
              /\ r.limited => served[r.link] < Limit
          BY <3>6, <4>3 DEF HeldAt
        <5>2. rec'[urls[d]] = r /\ r.link # k /\ r.link \in LinkIds
          BY <3>4, <3>8, <4>3
        <5> HIDE DEF r
        <5>3. made'[r.link] = made[r.link] /\ served'[r.link] = served[r.link]
          BY <3>1, <5>2 DEF Types
        <5>4. \A e \in Codes : urls[e] # None /\ rec'[urls[e]].link = r.link => e = d
          BY <3>7, <5>1
        <5> QED BY <2>1, <5>1, <5>2, <5>3, <5>4 DEF HeldAt
      <4> QED BY <4>1, <4>2, <4>3
    <3>10. AllHeld'
      BY <2>1, <3>6, <3>7 DEF AllHeld, Holds
    <3> QED BY <3>9, <3>10
  <2> QED BY <2>2, <2>3
<1>12. ASSUME NEW p \in Procs, Leave(p) PROVE CleanInv'
  BY <1>12, <1>a, CollectedStep, SomeCode DEF Leave, history
<1>13. CASE Mark
  <2>1. PICK o \in cands : rec' = [rec EXCEPT ![o].disabled = TRUE]
    BY <1>13 DEF Mark
  <2>2. \A q \in Objs :
            /\ rec'[q].link = rec[q].link /\ rec'[q].code = rec[q].code
            /\ rec'[q].visits = rec[q].visits /\ rec'[q].limited = rec[q].limited
            /\ rec[q].disabled => rec'[q].disabled
    BY <2>1 DEF Types, Records
  <2> QED BY <1>13, <1>r, <2>2, CleanKept DEF Mark, history
<1>14. CASE UNCHANGED vars
  BY <1>14, CleanKept DEF vars
<1> QED
  BY <1>1, <1>2, <1>3, <1>4, <1>5, <1>6, <1>7, <1>8, <1>9, <1>10, <1>11, <1>12, <1>13,
     <1>14 DEF Next, Step, Disable, UpdateRemark, Redirect

-----------------------------------------------------------------------------
(* Theorems *)

LEMMA InitIInv == Init => IInv
<1> SUFFICES ASSUME Init PROVE IInv
  OBVIOUS
<1>0. /\ rec = [o \in Objs |-> Blank] /\ urls = [c \in Codes |-> None]
      /\ locked = FALSE /\ alive = TRUE /\ late = FALSE
      /\ pc = [p \in Procs |-> "idle"] /\ ptr = [p \in Procs |-> None]
      /\ left = [p \in Procs |-> 0] /\ ontime = [p \in Procs |-> TRUE]
      /\ cands = {} /\ links = 0 /\ gone = {} /\ stopped = {}
      /\ made = [l \in LinkIds |-> 0] /\ served = [l \in LinkIds |-> 0] /\ raced = FALSE
  BY DEF Init
<1> USE NumbersOK, <1>0
<1>1. Types
  <2>1. (CHOOSE c \in Codes : TRUE) \in Codes
    BY SomeCode
  <2>2. rec \in [Objs -> Records]
    BY RecordTypes
  <2>3. code \in [Procs -> Codes]
    <3> DEFINE any == CHOOSE c \in Codes : TRUE
    <3>1. any \in Codes /\ code \in [Procs -> {any}]
      BY <2>1 DEF Init
    <3> HIDE DEF any
    <3> QED BY <3>1
  <2>4. made \in [LinkIds -> 0..MaxMade] /\ served \in [LinkIds -> 0..MaxMade]
    OBVIOUS
  <2>5. left \in [Procs -> 0..Retries] /\ links \in 0..MaxLinks
    OBVIOUS
  <2>6. /\ urls \in [Codes -> Objs \cup {None}] /\ ptr \in [Procs -> Objs \cup {None}]
        /\ pc \in [Procs -> {"idle", "exists", "insert", "disable", "save", "check",
                             "visit", "sweep", "leave"}]
        /\ ontime \in [Procs -> BOOLEAN]
    OBVIOUS
  <2> QED BY <2>2, <2>3, <2>4, <2>5, <2>6 DEF Types
<1>2. PointersOK /\ RolesOK /\ InSection = {}
  BY DEF PointersOK, RolesOK, InSection
<1>3. Creating = {} /\ Redirecting = {}
  BY Roles DEF Creating, Redirecting
<1>4. RoomOK
  BY <1>3, FS_EmptySet DEF RoomOK
<1>5. PastOK
  BY DEF PastOK, LinkIds
<1>6. SectionOK
  BY <1>2 DEF SectionOK
<1>7. CleanInv
  BY DEF CleanInv, HeldOK
<1> QED BY <1>1, <1>2, <1>4, <1>5, <1>6, <1>7, PointersTyped DEF IInv

LEMMA Inductive == IInv /\ [Next]_vars => IInv'
<1>1. IInv /\ [Next]_vars => TypeOK'
  <2>1. Types /\ PointersOK => TypeOK
    BY PointersTyped
  <2>2. Types' /\ PointersOK' => TypeOK'
    BY <2>1, RolesDistinct DEF Types, TypeOK, PointersOK, Genuine
  <2> QED BY <2>2, TypesStep, PointersStep
<1> QED BY <1>1, PointersStep, RolesStep, RoomStep, PastStep, SectionStep, CleanStep DEF IInv

LEMMA Invariant == Spec => []IInv
BY InitIInv, Inductive, PTL DEF Spec

\* The record of a link that the map holds, wherever it is.
LEMMA RecordOfIs ==
    ASSUME HeldOK, NEW c \in Codes, urls[c] # None
    PROVE  RecordOf(rec[urls[c]].link) = rec[urls[c]]
<1> DEFINE l == rec[urls[c]].link
           o == CHOOSE o \in Installed : rec[o].link = l
<1>1. urls[c] \in Installed
  BY DEF Installed
<1>2. o \in Installed /\ rec[o].link = l
  BY <1>1
<1> HIDE DEF o
<1>3. PICK d \in Codes : o = urls[d] /\ urls[d] # None
  BY <1>2 DEF Installed
<1>4. d = c
  BY <1>2, <1>3 DEF HeldOK
<1> QED BY <1>3, <1>4 DEF RecordOf, o

\* Every variable keeps to its kind, and a request past Get works on the record of
\* a link.
THEOREM LinksTyped == Spec => []TypeOK
BY Invariant, PTL DEF IInv

\* However creations, deletions, updates, redirects and sweeps interleave over the
\* pointers that Get hands out, the map holds exactly the links that were created
\* and not deleted, as long as no stale copy has been saved (url_service.go:91-114,
\* url_store.go Save and Delete).
THEOREM MapExact == Spec => []LinksExact
<1>1. IInv => LinksExact
  <2> SUFFICES ASSUME IInv, ~raced, NEW l \in 1..links
               PROVE  Holds(l) <=> l \notin gone
    BY DEF LinksExact
  <2> QED BY DEF IInv, CleanInv, HeldOK, Holds
<1> QED BY <1>1, Invariant, PTL

\* As long as no stale copy has been saved, no interleaving enables a link again
\* after a Disable or the janitor has saved it disabled (url_service.go Disable,
\* janitor_service.go, url_store.go Save).
THEOREM DisabledForGood == Spec => []DisabledStaysDisabled
<1>1. IInv => DisabledStaysDisabled
  <2> SUFFICES ASSUME IInv, ~raced, NEW l \in stopped, Holds(l)
               PROVE  RecordOf(l).disabled
    BY DEF DisabledStaysDisabled
  <2>1. HeldOK
    BY DEF IInv, CleanInv
  <2>2. PICK c \in Codes : urls[c] # None /\ rec[urls[c]].link = l
    BY DEF Holds
  <2>3. RecordOf(l) = rec[urls[c]]
    BY <2>1, <2>2, RecordOfIs
  <2> QED BY <2>1, <2>2, <2>3 DEF HeldOK
<1> QED BY <1>1, Invariant, PTL

\* As long as no stale copy has been saved, the count of a link is the number of
\* its visits: none is lost in a clone that a concurrent Save installs (url_store.go
\* IncrementVisits and Save).
THEOREM EveryVisitCounts == Spec => []VisitsKeptUnlessRaced
<1>1. IInv => VisitsKeptUnlessRaced
  <2> SUFFICES ASSUME IInv, ~raced, NEW l \in 1..links, Holds(l)
               PROVE  RecordOf(l).visits = made[l]
    BY DEF VisitsKeptUnlessRaced, VisitsKept
  <2>1. HeldOK
    BY DEF IInv, CleanInv
  <2>2. PICK c \in Codes : urls[c] # None /\ rec[urls[c]].link = l
    BY DEF Holds
  <2>3. RecordOf(l) = rec[urls[c]]
    BY <2>1, <2>2, RecordOfIs
  <2> QED BY <2>1, <2>2, <2>3 DEF HeldOK
<1> QED BY <1>1, Invariant, PTL

\* As long as no stale copy has been saved, a link with a limit is answered by 302
\* fewer than Limit times, whatever redirects run at once (redirect_service.go
\* HandleRedirect).
THEOREM LimitKept == Spec => []BudgetKept
<1>1. IInv => BudgetKept
  <2> SUFFICES ASSUME IInv, ~raced, NEW l \in 1..links, Holds(l), RecordOf(l).limited
               PROVE  served[l] < Limit
    BY DEF BudgetKept
  <2>1. HeldOK
    BY DEF IInv, CleanInv
  <2>2. PICK c \in Codes : urls[c] # None /\ rec[urls[c]].link = l
    BY DEF Holds
  <2>3. RecordOf(l) = rec[urls[c]]
    BY <2>1, <2>2, RecordOfIs
  <2> QED BY <2>1, <2>2, <2>3 DEF HeldOK
<1> QED BY <1>1, Invariant, PTL

\* The write lock is never held by nobody; and until some link reaches the visit at
\* which IncrementVisits unlocks twice, one goroutine at a time is in a critical
\* section and no Unlock ends the process (url_store.go IncrementVisits).
THEOREM LockExcludes == Spec => []LockOK
<1>1. IInv => LockOK
  <2> SUFFICES ASSUME IInv PROVE LockOK
    OBVIOUS
  <2>1. SectionOK
    BY DEF IInv
  <2>2. Cardinality({}) = 0 /\ \A p \in Procs : Cardinality({p}) = 1
    BY FS_EmptySet, FS_Singleton
  <2> QED BY <2>1, <2>2 DEF SectionOK, LockOK
<1> QED BY <1>1, Invariant, PTL

\* All of this holds of the executions without a stale copy.
LEMMA CleanIsSpec == CleanSpec => Spec
BY PTL DEF CleanSpec, Spec
=============================================================================
