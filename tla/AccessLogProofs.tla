-------------------------- MODULE AccessLogProofs --------------------------
(***************************************************************************)
(* What the access log keeps of what it was given, for any number of       *)
(* writers, lines, crashes and I/O errors.                                 *)
(*                                                                         *)
(* Inductive: the lines in the file have different numbers; a batch that   *)
(* waits is not in the file, and of the one that is being written a first  *)
(* part is, whole but for its last line; half lines are paid for by faults;*)
(* what Sync and Close have promised is below synced.                      *)
(***************************************************************************)
EXTENDS Standalone, SequenceTheorems, FiniteSetTheorems, TLAPS

LineRecord == [id : Nat, code : Codes, whole : BOOLEAN]

LogTypes ==
    /\ file \in Seq(LineRecord) /\ synced \in 0..Len(file)
    /\ ready \in BOOLEAN /\ open \in BOOLEAN /\ swallowed \in BOOLEAN
    /\ holder \in Writers \cup {None} /\ batch \in [Writers -> Seq(LineRecord)]
    /\ made \in Nat /\ faults \in Nat

FileOK ==
    /\ \A i \in 1..Len(file) : file[i].id \in 1..made
    /\ \A i, j \in 1..Len(file) : file[i].id = file[j].id => i = j

\* Nobody else has the lines of a batch, and before it is written neither has the file.
BatchOK ==
    /\ \A w \in Writers : \A i \in 1..Len(batch[w]) :
        batch[w][i].whole = TRUE /\ batch[w][i].id \in 1..made
    /\ \A w, v \in Writers : \A i \in 1..Len(batch[w]), j \in 1..Len(batch[v]) :
        batch[w][i].id = batch[v][j].id => w = v /\ i = j
    /\ \A w \in Writers \ {holder} : \A i \in 1..Len(batch[w]), j \in 1..Len(file) :
        batch[w][i].id # file[j].id

\* k lines of the batch of w and half of the next are the last in the file.
Written(w, k) ==
    /\ k + 1 <= Len(file)
    /\ \A i \in 1..k : file[(Len(file) - (k + 1)) + i] = batch[w][i]
    /\ file[Len(file)] = Half(batch[w][k + 1])
    /\ \A i \in 1..Len(batch[w]), j \in 1..Len(file) : i > k + 1 => batch[w][i].id # file[j].id

HolderOK == holder # None => open /\ \E k \in 0..(Len(batch[holder]) - 1) : Written(holder, k)

AckedOK == \A i \in acked : \E j \in 1..Len(file) : file[j].id = i /\ file[j].whole

Halves == {i \in 1..Len(file) : ~file[i].whole}
HalvesOK == Cardinality(Halves) <= faults + (IF holder = None THEN 0 ELSE 1)

PromisedOK == swallowed \/ \A i \in promised : \E j \in 1..synced : file[j].id = i /\ file[j].whole

\* A closed log is on the disk, unless the sync of Close failed.
ClosedOK ==
    /\ ready = open
    /\ closer = "closed" => ~open /\ (swallowed \/ synced = Len(file))

LogInv ==
    LogTypes /\ FileOK /\ BatchOK /\ HolderOK /\ AckedOK /\ HalvesOK /\ PromisedOK /\ ClosedOK

-----------------------------------------------------------------------------

LEMMA LogBehaves == Spec => LogInit /\ [][LogNext]_logVars
<1>1. Init => LogInit
  BY DEF Init
<1>2. [Next]_standaloneVars => [LogNext]_logVars
  BY DEF Next, standaloneVars
<1> QED BY <1>1, <1>2, PTL DEF Spec

LEMMA LogInitially == LogInit => LogInv
<1> SUFFICES ASSUME LogInit PROVE LogInv
  OBVIOUS
<1>1. /\ file = <<>> /\ synced = 0 /\ ready = FALSE /\ open = FALSE /\ closer = "no"
      /\ holder = None /\ batch = [w \in Writers |-> <<>>] /\ made = 0 /\ faults = 0
      /\ acked = {} /\ promised = {} /\ swallowed = FALSE
  BY DEF LogInit
<1>2. /\ file \in Seq(LineRecord) /\ Len(file) = 0 /\ 1..Len(file) = {} /\ 1..0 = {}
      /\ \A w \in Writers : batch[w] \in Seq(LineRecord) /\ 1..Len(batch[w]) = {}
  BY <1>1, EmptySeq
<1>3. LogTypes
  <2>1. batch \in [Writers -> Seq(LineRecord)]
    BY <1>1, EmptySeq
  <2>2. synced \in 0..Len(file)
    BY <1>1, <1>2
  <2> QED BY <1>1, <1>2, <2>1, <2>2 DEF LogTypes
<1>4. HalvesOK
  <2>1. Halves = {}
    BY <1>2 DEF Halves
  <2>2. Cardinality(Halves) = 0
    BY <2>1, FS_EmptySet
  <2> QED BY <1>1, <2>2 DEF HalvesOK
<1>5. FileOK /\ BatchOK /\ HolderOK /\ AckedOK /\ PromisedOK /\ ClosedOK
  <2>1. FileOK /\ BatchOK
    BY <1>2 DEF FileOK, BatchOK
  <2>2. HolderOK /\ AckedOK /\ PromisedOK /\ ClosedOK
    BY <1>1, <1>2 DEF HolderOK, AckedOK, PromisedOK, ClosedOK
  <2> QED BY <2>1, <2>2
<1> QED BY <1>3, <1>4, <1>5 DEF LogInv

LEMMA LineAt ==
    ASSUME LogTypes, NEW i \in 1..Len(file)
    PROVE  file[i] \in LineRecord /\ Len(file) \in Nat
BY ElementOfSeq, LenProperties DEF LogTypes

LEMMA BatchAt ==
    ASSUME LogTypes, NEW w \in Writers
    PROVE  /\ batch[w] \in Seq(LineRecord) /\ Len(batch[w]) \in Nat
           /\ \A i \in 1..Len(batch[w]) : batch[w][i] \in LineRecord
           /\ Len(file) \in Nat
<1>1. batch[w] \in Seq(LineRecord) /\ file \in Seq(LineRecord)
  BY DEF LogTypes
<1> QED BY <1>1, ElementOfSeq, LenProperties

LEMMA HalfIs ==
    ASSUME NEW r \in LineRecord
    PROVE  Half(r) \in LineRecord /\ Half(r).id = r.id /\ Half(r).whole = FALSE /\ Half(r).code = r.code
BY DEF Half, LineRecord

LEMMA HalvesFinite == file \in Seq(LineRecord) => IsFiniteSet(Halves) /\ Cardinality(Halves) \in Nat
<1> SUFFICES ASSUME file \in Seq(LineRecord) PROVE IsFiniteSet(Halves) /\ Cardinality(Halves) \in Nat
  OBVIOUS
<1>1. Len(file) \in Nat /\ Halves \subseteq 1..Len(file)
  BY LenProperties DEF Halves
<1>2. IsFiniteSet(1..Len(file))
  BY <1>1, FS_Interval
<1>3. IsFiniteSet(Halves)
  BY <1>1, <1>2, FS_Subset
<1> QED BY <1>3, FS_CardinalityType

-----------------------------------------------------------------------------
(* Steps that write nothing *)

\* Open, the syncer, Sync, CloseBegin and CloseEnd.
LEMMA Quiet ==
    ASSUME LogInv, UNCHANGED <<file, holder, batch, made, acked>>,
           ready' = open', open' \in BOOLEAN, swallowed' \in BOOLEAN, swallowed => swallowed',
           synced' = synced \/ synced' = Len(file),
           faults' \in Nat, faults <= faults',
           holder # None => open',
           closer' = "closed" => ~open' /\ (swallowed' \/ synced' = Len(file)),
           \/ promised' = promised
           \/ promised' = promised \cup WholeIds /\ (swallowed' \/ synced' = Len(file))
    PROVE  LogInv'
<1>1. LogTypes'
  <2>1. Len(file) \in Nat
    BY LenProperties DEF LogInv, LogTypes
  <2> QED BY <2>1 DEF LogInv, LogTypes
<1>2. FileOK' /\ BatchOK' /\ AckedOK'
  BY DEF LogInv, FileOK, BatchOK, AckedOK
<1>3. HolderOK'
  BY DEF LogInv, HolderOK, Written
<1>4. HalvesOK'
  <2>1. Cardinality(Halves) \in Nat /\ faults \in Nat /\ Halves' = Halves
    BY HalvesFinite DEF LogInv, LogTypes, Halves
  <2> QED BY <2>1 DEF LogInv, HalvesOK
<1>5. PromisedOK'
  <2> SUFFICES ASSUME ~swallowed', NEW i \in promised'
               PROVE  \E j \in 1..synced' : file[j].id = i /\ file[j].whole
    BY DEF PromisedOK
  <2>1. synced \in 0..Len(file) /\ Len(file) \in Nat /\ DOMAIN file = 1..Len(file)
    BY LenProperties DEF LogInv, LogTypes
  <2>2. CASE i \in promised
    <3>1. PICK j \in 1..synced : file[j].id = i /\ file[j].whole
      BY <2>2 DEF LogInv, PromisedOK
    <3>2. j \in 1..synced'
      BY <2>1
    <3> QED BY <3>1, <3>2
  <2>3. CASE i \notin promised
    <3>1. i \in WholeIds /\ synced' = Len(file)
      BY <2>3
    <3>2. PICK j \in 1..Len(file) : file[j].whole /\ file[j].id = i
      BY <2>1, <3>1 DEF WholeIds
    <3> QED BY <3>1, <3>2
  <2> QED BY <2>2, <2>3
<1>6. ClosedOK'
  BY DEF ClosedOK
<1> QED BY <1>1, <1>2, <1>3, <1>4, <1>5, <1>6 DEF LogInv

LEMMA FsyncIs ==
    ASSUME NEW ok \in BOOLEAN, Fsync(ok), faults \in Nat
    PROVE  /\ synced' = (IF ok THEN Len(file) ELSE synced)
           /\ faults' \in Nat /\ faults <= faults'
BY DEF Fsync

LEMMA OpenInv ==
    ASSUME LogInv, Open
    PROVE  LogInv'
<1>1. faults \in Nat /\ faults <= faults
  BY DEF LogInv, LogTypes
<1>2. UNCHANGED <<file, synced, closer, holder, batch, made, faults, acked, promised, swallowed>>
  BY DEF Open, writing, logHistory
<1> QED BY <1>1, <1>2, Quiet DEF Open, LogInv, LogTypes

LEMMA SyncerInv ==
    ASSUME LogInv, ContextEnds \/ \E last \in BOOLEAN, ok \in BOOLEAN : SyncerRound(last, ok)
    PROVE  LogInv'
<1>1. faults \in Nat /\ faults <= faults
  BY DEF LogInv, LogTypes
<1>2. CASE ContextEnds
  <2>1. UNCHANGED <<file, synced, ready, open, closer, holder, batch, made, faults, acked, promised, swallowed>>
    BY <1>2 DEF ContextEnds, writing, logHistory
  <2> QED BY <1>1, <2>1, Quiet DEF LogInv, LogTypes, ClosedOK, HolderOK
<1>3. CASE \E last \in BOOLEAN, ok \in BOOLEAN : SyncerRound(last, ok)
  <2>1. PICK last \in BOOLEAN, ok \in BOOLEAN : SyncerRound(last, ok)
    BY <1>3
  <2>2. Fsync(ok) /\ UNCHANGED <<file, ready, open, closer, holder, batch, made, acked, promised, swallowed>>
    BY <2>1 DEF SyncerRound, writing, logHistory
  <2>3. /\ synced' = synced \/ synced' = Len(file)
        /\ faults' \in Nat /\ faults <= faults'
    BY <1>1, <2>2, FsyncIs
  <2>4. closer' = "closed" => ~open' /\ (swallowed' \/ synced' = Len(file))
    BY <2>2, <2>3 DEF LogInv, ClosedOK
  <2>5. ready' = open' /\ (holder # None => open')
    BY <2>2 DEF LogInv, ClosedOK, HolderOK
  <2> QED BY <2>2, <2>3, <2>4, <2>5, Quiet DEF LogInv, LogTypes
<1> QED BY <1>2, <1>3

\* Sync answers nil after a sync, or when the log is closed.
LEMMA SyncInv ==
    ASSUME LogInv, NEW ok \in BOOLEAN, Sync(ok)
    PROVE  LogInv'
<1>1. faults \in Nat /\ faults <= faults
  BY DEF LogInv, LogTypes
<1>2. /\ UNCHANGED <<file, ready, open, closer, holder, batch, made, acked, swallowed>>
      /\ open \/ closer = "closed"
      /\ promised' = IF ok THEN promised \cup WholeIds ELSE promised
  BY DEF Sync, process, writing
<1>3. /\ synced' = synced \/ synced' = Len(file)
      /\ faults' \in Nat /\ faults <= faults'
      /\ ok => swallowed \/ synced' = Len(file)
  <2>1. CASE ready
    BY <1>1, <2>1, FsyncIs DEF Sync
  <2>2. CASE ~ready
    BY <1>1, <1>2, <2>2 DEF Sync, LogInv, ClosedOK
  <2> QED BY <2>1, <2>2
<1>4. closer' = "closed" => ~open' /\ (swallowed' \/ synced' = Len(file))
  BY <1>2, <1>3 DEF LogInv, ClosedOK
<1>5. ready' = open' /\ (holder # None => open')
  BY <1>2 DEF LogInv, ClosedOK, HolderOK
<1>6. \/ promised' = promised
      \/ promised' = promised \cup WholeIds /\ (swallowed' \/ synced' = Len(file))
  BY <1>2, <1>3
<1> QED BY <1>2, <1>3, <1>4, <1>5, <1>6, Quiet DEF LogInv, LogTypes

LEMMA CloseBeginInv ==
    ASSUME LogInv, CloseBegin
    PROVE  LogInv'
<1>1. faults \in Nat /\ faults <= faults
  BY DEF LogInv, LogTypes
<1>2. /\ UNCHANGED <<file, synced, ready, open, holder, batch, made, faults, acked, promised, swallowed>>
      /\ closer' = "waits"
  BY DEF CloseBegin, writing, logHistory
<1> QED BY <1>1, <1>2, Quiet DEF LogInv, LogTypes, ClosedOK, HolderOK

LEMMA CloseEndInv ==
    ASSUME LogInv, NEW ok \in BOOLEAN, CloseEnd(ok)
    PROVE  LogInv'
<1>1. faults \in Nat /\ faults <= faults
  BY DEF LogInv, LogTypes
<1>2. /\ UNCHANGED <<file, holder, batch, made, acked>> /\ holder = None /\ Fsync(ok)
      /\ swallowed' = (swallowed \/ ~ok) /\ open' = FALSE /\ ready' = FALSE
      /\ promised' = promised \cup WholeIds
  BY DEF CloseEnd, LastSync, writing
<1>3. /\ synced' = (IF ok THEN Len(file) ELSE synced) /\ faults' \in Nat /\ faults <= faults'
  BY <1>1, <1>2, FsyncIs
<1>4. swallowed' \/ synced' = Len(file)
  BY <1>2, <1>3
<1> QED BY <1>2, <1>3, <1>4, Quiet DEF LogInv, LogTypes

-----------------------------------------------------------------------------
(* Append *)

LEMMA BeginInv ==
    ASSUME LogInv, NEW w \in Writers, NEW codes \in Batches, Begin(w, codes)
    PROVE  LogInv'
<1> DEFINE b == [i \in DOMAIN codes |-> Line(made + i, codes[i])]
<1>1. /\ batch[w] = <<>> /\ ready /\ batch' = [batch EXCEPT ![w] = b] /\ made' = made + Len(codes)
      /\ UNCHANGED <<file, synced, ready, open, closer, holder, faults, acked, promised, swallowed>>
  BY DEF Begin, process, logHistory
<1>2. PICK size \in Sizes : codes \in [1..size -> Codes]
  BY DEF Batches
<1>3. size \in Nat
  BY <1>2, LogConstantsOK
<1>4. codes \in Seq(Codes) /\ DOMAIN codes = 1..size /\ Len(codes) = size
  <2>1. codes \in Seq(Codes) /\ DOMAIN codes = 1..size
    BY <1>2, <1>3, SeqDef
  <2> QED BY <1>3, <2>1, LenProperties
<1>5. made \in Nat
  BY DEF LogInv, LogTypes
<1>6. b \in [1..size -> LineRecord] /\ \A i \in 1..size : b[i].id = made + i /\ b[i].whole = TRUE
  <2>1. \A i \in 1..size : /\ Line(made + i, codes[i]) \in LineRecord
                           /\ Line(made + i, codes[i]).id = made + i
                           /\ Line(made + i, codes[i]).whole = TRUE
    BY <1>2, <1>5 DEF Line, LineRecord
  <2> QED BY <1>4, <2>1
<1> HIDE DEF b
<1>7. b \in Seq(LineRecord) /\ Len(b) = size
  <2>1. b \in Seq(LineRecord) /\ DOMAIN b = 1..size
    BY <1>3, <1>6, SeqDef
  <2> QED BY <1>3, <2>1, LenProperties
<1>8. w # holder
  <2>1. Len(batch[w]) = 0
    BY <1>1, EmptySeq
  <2> QED BY <2>1, LogConstantsOK DEF LogInv, HolderOK
<1>9. batch'[w] = b /\ \A v \in Writers : v # w => batch'[v] = batch[v]
  BY <1>1 DEF LogInv, LogTypes
<1>10. LogTypes'
  BY <1>1, <1>3, <1>4, <1>5, <1>7 DEF LogInv, LogTypes
<1>11. FileOK'
  BY <1>1, <1>3, <1>4, <1>5 DEF LogInv, FileOK
<1>12. BatchOK'
  <2>1. \A v \in Writers : \A i \in 1..Len(batch'[v]) :
            batch'[v][i].whole = TRUE /\ batch'[v][i].id \in 1..made'
    <3> SUFFICES ASSUME NEW v \in Writers, NEW i \in 1..Len(batch'[v])
                 PROVE  batch'[v][i].whole = TRUE /\ batch'[v][i].id \in 1..made'
      OBVIOUS
    <3>1. CASE v = w
      BY <1>1, <1>3, <1>4, <1>5, <1>6, <1>7, <1>9, <3>1
    <3>2. CASE v # w
      BY <1>1, <1>3, <1>4, <1>5, <1>9, <3>2 DEF LogInv, BatchOK
    <3> QED BY <3>1, <3>2
  <2>2. \A v, u \in Writers : \A i \in 1..Len(batch'[v]), j \in 1..Len(batch'[u]) :
            batch'[v][i].id = batch'[u][j].id => v = u /\ i = j
    <3> SUFFICES ASSUME NEW v \in Writers, NEW u \in Writers,
                        NEW i \in 1..Len(batch'[v]), NEW j \in 1..Len(batch'[u]),
                        batch'[v][i].id = batch'[u][j].id
                 PROVE  v = u /\ i = j
      OBVIOUS
    <3>1. CASE v = w /\ u = w
      BY <1>3, <1>5, <1>6, <1>7, <1>9, <3>1
    <3>2. CASE v = w /\ u # w
      <4>1. batch'[u][j].id <= made /\ batch'[u][j].id \in Nat
        BY <1>5, <1>9, <3>2 DEF LogInv, BatchOK
      <4>2. batch'[v][i].id = made + i /\ i \in 1..size
        BY <1>6, <1>7, <1>9, <3>2
      <4> QED BY <1>5, <4>1, <4>2
    <3>3. CASE v # w /\ u = w
      <4>1. batch'[v][i].id <= made /\ batch'[v][i].id \in Nat
        BY <1>5, <1>9, <3>3 DEF LogInv, BatchOK
      <4>2. batch'[u][j].id = made + j /\ j \in 1..size
        BY <1>6, <1>7, <1>9, <3>3
      <4> QED BY <1>5, <4>1, <4>2
    <3>4. CASE v # w /\ u # w
      BY <1>9, <3>4, SMTT(30) DEF LogInv, BatchOK
    <3> QED BY <3>1, <3>2, <3>3, <3>4
  <2>3. \A v \in Writers \ {holder} : \A i \in 1..Len(batch'[v]), j \in 1..Len(file) :
            batch'[v][i].id # file[j].id
    <3> SUFFICES ASSUME NEW v \in Writers \ {holder}, NEW i \in 1..Len(batch'[v]), NEW j \in 1..Len(file)
                 PROVE  batch'[v][i].id # file[j].id
      OBVIOUS
    <3>1. file[j].id \in 1..made
      BY DEF LogInv, FileOK
    <3>2. CASE v = w
      BY <1>5, <1>6, <1>7, <1>9, <3>1, <3>2
    <3>3. CASE v # w
      BY <1>9, <3>3 DEF LogInv, BatchOK
    <3> QED BY <3>2, <3>3
  <2> QED BY <1>1, <2>1, <2>2, <2>3 DEF BatchOK
<1>13. HolderOK'
  <2>1. holder # None => batch'[holder] = batch[holder]
    BY <1>8, <1>9 DEF LogInv, LogTypes
  <2> QED BY <1>1, <2>1 DEF LogInv, HolderOK, Written
<1>14. AckedOK' /\ HalvesOK' /\ PromisedOK' /\ ClosedOK'
  BY <1>1 DEF LogInv, AckedOK, HalvesOK, Halves, PromisedOK, ClosedOK
<1> QED BY <1>10, <1>11, <1>12, <1>13, <1>14 DEF LogInv

\* A batch that is given up, with half a line in the file if it had been begun.
LEMMA Dropped ==
    ASSUME LogInv, NEW w \in Writers, holder \in {None, w}, holder' = None,
           batch' = [batch EXCEPT ![w] = <<>>],
           faults' \in Nat, faults + (IF holder = None THEN 0 ELSE 1) <= faults',
           UNCHANGED <<file, synced, ready, open, closer, made, acked, promised, swallowed>>
    PROVE  LogInv'
<1> DEFINE e == <<>>
<1>1. e \in Seq(LineRecord) /\ Len(e) = 0
  BY EmptySeq
<1>2. batch' = [batch EXCEPT ![w] = e]
  OBVIOUS
<1> HIDE DEF e
<1>3. /\ batch' \in [Writers -> Seq(LineRecord)] /\ batch'[w] = e
      /\ \A v \in Writers : v # w => batch'[v] = batch[v]
  BY <1>1, <1>2 DEF LogInv, LogTypes
<1>4. LogTypes'
  BY <1>3 DEF LogInv, LogTypes
<1>5. BatchOK'
  <2>1. 1..Len(batch'[w]) = {}
    BY <1>1, <1>3
  <2>2. \A v \in Writers : \A i \in 1..Len(batch'[v]) : v # w /\ batch'[v] = batch[v]
    BY <1>3, <2>1
  <2> QED BY <2>2 DEF LogInv, BatchOK
<1>6. HalvesOK'
  <2>1. Cardinality(Halves) \in Nat /\ faults \in Nat /\ Halves' = Halves
    BY HalvesFinite DEF LogInv, LogTypes, Halves
  <2> QED BY <2>1 DEF LogInv, HalvesOK
<1>7. FileOK' /\ HolderOK' /\ AckedOK' /\ PromisedOK' /\ ClosedOK'
  BY DEF LogInv, FileOK, HolderOK, AckedOK, PromisedOK, ClosedOK
<1> QED BY <1>4, <1>5, <1>6, <1>7 DEF LogInv

LEMMA GivenUpInv ==
    ASSUME LogInv, NEW w \in Writers, Refused(w) \/ FailWrite(w)
    PROVE  LogInv'
<1>1. faults \in Nat /\ None \notin Writers
  BY LogConstantsOK DEF LogInv, LogTypes
<1>2. CASE Refused(w)
  <2>1. /\ holder = None /\ holder' = None /\ batch' = [batch EXCEPT ![w] = <<>>] /\ faults' = faults
        /\ UNCHANGED <<file, synced, ready, open, closer, made, acked, promised, swallowed>>
    BY <1>2 DEF Refused, process, logHistory
  <2>2. holder \in {None, w} /\ faults' \in Nat /\ faults + (IF holder = None THEN 0 ELSE 1) <= faults'
    BY <1>1, <2>1
  <2> QED BY <2>1, <2>2, Dropped
<1>3. CASE FailWrite(w)
  <2>1. /\ holder = w /\ holder' = None /\ batch' = [batch EXCEPT ![w] = <<>>] /\ faults' = faults + 1
        /\ UNCHANGED <<file, synced, ready, open, closer, made, acked, promised, swallowed>>
    BY <1>3 DEF FailWrite, process, logHistory
  <2>2. holder \in {None, w} /\ faults' \in Nat /\ faults + (IF holder = None THEN 0 ELSE 1) <= faults'
    BY <1>1, <2>1
  <2> QED BY <2>1, <2>2, Dropped
<1> QED BY <1>2, <1>3

\* What StartWrite leaves in the file.
LEMMA StartWriteIs ==
    ASSUME LogTypes, NEW w \in Writers, NEW k \in 0..(Len(batch[w]) - 1), StartWrite(w, k)
    PROVE  /\ file' \in Seq(LineRecord) /\ Len(file') = Len(file) + (k + 1)
           /\ \A i \in 1..Len(file) : file'[i] = file[i]
           /\ \A i \in 1..k : file'[Len(file) + i] = batch[w][i]
           /\ file'[Len(file) + (k + 1)] = Half(batch[w][k + 1])
<1>1. /\ batch[w] \in Seq(LineRecord) /\ Len(batch[w]) \in Nat
      /\ \A i \in 1..Len(batch[w]) : batch[w][i] \in LineRecord
      /\ Len(file) \in Nat /\ file \in Seq(LineRecord)
  BY BatchAt DEF LogTypes
<1> DEFINE p == SubSeq(batch[w], 1, k)
           h == Half(batch[w][k + 1])
           l == <<h>>
           s == file \o p
<1>2. k \in Nat /\ k + 1 \in 1..Len(batch[w])
  BY <1>1
<1>3. p \in Seq(LineRecord) /\ Len(p) = k /\ \A i \in 1..k : p[i] = batch[w][i]
  BY <1>1, <1>2, SubSeqProperties
<1>4. h \in LineRecord
  BY <1>1, <1>2, HalfIs
<1>5. file' = s \o l
  BY DEF StartWrite
<1> HIDE DEF h, p
<1>6. l \in Seq(LineRecord) /\ Len(l) = 1 /\ l[1] = h
  BY <1>4
<1> HIDE DEF l
<1>7. /\ s \in Seq(LineRecord) /\ Len(s) = Len(file) + k
      /\ \A i \in 1..Len(file) + k : s[i] = IF i <= Len(file) THEN file[i] ELSE p[i - Len(file)]
  BY <1>1, <1>3, ConcatProperties
<1> HIDE DEF s
<1>8. PICK m \in Nat : m = Len(file)
  BY <1>1
<1>9. /\ file' \in Seq(LineRecord) /\ Len(file') = (m + k) + 1
      /\ \A i \in 1..(m + k) + 1 : file'[i] = IF i <= m + k THEN s[i] ELSE l[i - (m + k)]
  <2>1. Len(s) = m + k /\ m + k \in Nat
    BY <1>2, <1>7, <1>8
  <2>2. l \in Seq(LineRecord)
    BY <1>6
  <2>3. s \in Seq(LineRecord)
    BY <1>7
  <2>4. /\ s \o l \in Seq(LineRecord) /\ Len(s \o l) = Len(s) + Len(l)
        /\ \A i \in 1..(Len(s) + Len(l)) : (s \o l)[i] = IF i <= Len(s) THEN s[i] ELSE l[i - Len(s)]
    BY <2>2, <2>3, ConcatProperties
  <2>5. /\ file' \in Seq(LineRecord) /\ Len(file') = Len(s) + Len(l)
        /\ \A i \in 1..(Len(s) + Len(l)) : file'[i] = IF i <= Len(s) THEN s[i] ELSE l[i - Len(s)]
    BY <1>5, <2>4, Zenon
  <2> QED BY <1>6, <2>1, <2>5
<1>10. \A i \in 1..m : file'[i] = file[i]
  BY <1>2, <1>7, <1>8, <1>9
<1>11. \A i \in 1..k : file'[m + i] = batch[w][i]
  <2> TAKE i \in 1..k
  <2>1. m + i \in 1..(m + k) /\ m + i \in 1..(m + k) + 1 /\ ~(m + i <= m) /\ (m + i) - m = i
    BY <1>2
  <2>2. file'[m + i] = s[m + i]
    BY <1>9, <2>1
  <2>3. s[m + i] = p[i]
    BY <1>7, <1>8, <2>1
  <2> QED BY <1>3, <2>2, <2>3
<1>12. file'[m + (k + 1)] = h
  BY <1>2, <1>6, <1>9
<1>13. /\ file' \in Seq(LineRecord) /\ Len(file') = m + (k + 1)
       /\ file'[m + (k + 1)] = Half(batch[w][k + 1])
  BY <1>2, <1>9, <1>12 DEF h
<1> QED BY <1>8, <1>10, <1>11, <1>13, Zenon

LEMMA StartWriteInv ==
    ASSUME LogInv, NEW w \in Writers, NEW k \in 0..(Len(batch[w]) - 1), StartWrite(w, k)
    PROVE  LogInv'
<1>1. /\ holder = None /\ holder' = w /\ open /\ w # holder
      /\ UNCHANGED <<synced, ready, open, closer, batch, made, faults, acked, promised, swallowed>>
  BY LogConstantsOK DEF StartWrite, Free, process, logHistory
<1>2. LogTypes
  BY DEF LogInv
<1>3. PICK m \in Nat : m = Len(file)
  BY <1>2, LenProperties DEF LogTypes
<1>4. /\ Len(batch[w]) \in Nat /\ k \in Nat /\ k + 1 \in 1..Len(batch[w])
      /\ \A i \in 1..Len(batch[w]) : batch[w][i] \in LineRecord /\ batch[w][i].whole = TRUE
  <2>1. Len(batch[w]) \in Nat /\ \A i \in 1..Len(batch[w]) : batch[w][i] \in LineRecord
    BY <1>2, BatchAt
  <2> QED BY <2>1 DEF LogInv, BatchOK
<1>5. /\ file' \in Seq(LineRecord) /\ Len(file') = m + (k + 1)
      /\ \A i \in 1..m : file'[i] = file[i]
      /\ \A i \in 1..k : file'[m + i] = batch[w][i]
      /\ file'[m + (k + 1)] = Half(batch[w][k + 1])
  BY <1>2, <1>3, StartWriteIs
<1>6. /\ Half(batch[w][k + 1]).id = batch[w][k + 1].id
      /\ Half(batch[w][k + 1]).whole = FALSE
  BY <1>4, HalfIs
<1>7. \A i \in 1..k + 1 : i \in 1..Len(batch[w]) /\ file'[m + i].id = batch[w][i].id
  <2> TAKE i \in 1..k + 1
  <2>1. CASE i = k + 1
    BY <1>4, <1>5, <1>6, <2>1
  <2>2. CASE i # k + 1
    <3>1. i \in 1..k /\ i \in 1..Len(batch[w])
      BY <1>4, <2>2
    <3> QED BY <1>5, <3>1
  <2> QED BY <2>1, <2>2
<1>8. ASSUME NEW i \in 1..m + (k + 1)
      PROVE  \/ i \in 1..m /\ file'[i] = file[i]
             \/ i - m \in 1..k + 1 /\ i - m \in 1..Len(batch[w]) /\ file'[i].id = batch[w][i - m].id
  <2>1. CASE i <= m
    BY <1>3, <1>5, <2>1
  <2>2. CASE i > m
    <3>1. i - m \in 1..k + 1 /\ m + (i - m) = i
      BY <1>3, <1>4, <2>2
    <3> QED BY <1>7, <3>1
  <2> QED BY <1>3, <2>1, <2>2
<1>9. \A i \in 1..Len(batch[w]), j \in 1..m : batch[w][i].id # file[j].id
  BY <1>1, <1>3 DEF LogInv, BatchOK
<1>10. LogTypes'
  <2>1. synced' \in 0..Len(file')
    BY <1>1, <1>2, <1>3, <1>4, <1>5 DEF LogTypes
  <2> QED BY <1>1, <1>2, <1>5, <2>1 DEF LogTypes
<1>11. FileOK'
  <2>1. \A i \in 1..Len(file') : file'[i].id \in 1..made'
    <3> SUFFICES ASSUME NEW i \in 1..m + (k + 1) PROVE file'[i].id \in 1..made
      BY <1>1, <1>5
    <3>1. CASE i \in 1..m /\ file'[i] = file[i]
      BY <1>3, <3>1 DEF LogInv, FileOK
    <3>2. CASE i - m \in 1..Len(batch[w]) /\ file'[i].id = batch[w][i - m].id
      BY <3>2 DEF LogInv, BatchOK
    <3> QED BY <1>8, <3>1, <3>2
  <2>2. \A i, j \in 1..Len(file') : file'[i].id = file'[j].id => i = j
    <3> SUFFICES ASSUME NEW i \in 1..m + (k + 1), NEW j \in 1..m + (k + 1), file'[i].id = file'[j].id
                 PROVE  i = j
      BY <1>5
    <3>1. CASE i \in 1..m /\ file'[i] = file[i]
      <4>1. CASE j \in 1..m /\ file'[j] = file[j]
        BY <1>3, <3>1, <4>1 DEF LogInv, FileOK
      <4>2. CASE j - m \in 1..Len(batch[w]) /\ file'[j].id = batch[w][j - m].id
        BY <1>9, <3>1, <4>2
      <4> QED BY <1>8, <4>1, <4>2
    <3>2. CASE i - m \in 1..Len(batch[w]) /\ file'[i].id = batch[w][i - m].id
      <4>1. CASE j \in 1..m /\ file'[j] = file[j]
        BY <1>9, <3>2, <4>1
      <4>2. CASE j - m \in 1..Len(batch[w]) /\ file'[j].id = batch[w][j - m].id
        <5>1. batch[w][i - m].id = batch[w][j - m].id
          BY <3>2, <4>2
        <5>2. \A a, b \in 1..Len(batch[w]) : batch[w][a].id = batch[w][b].id => a = b
          BY DEF LogInv, BatchOK
        <5>3. i - m = j - m
          BY <3>2, <4>2, <5>1, <5>2
        <5> QED BY <1>3, <1>4, <5>3
      <4> QED BY <1>8, <4>1, <4>2
    <3> QED BY <1>8, <3>1, <3>2
  <2> QED BY <2>1, <2>2 DEF FileOK
<1>12. BatchOK'
  <2>1. \A v \in Writers \ {w} : \A i \in 1..Len(batch[v]), j \in 1..Len(file') : batch[v][i].id # file'[j].id
    <3> SUFFICES ASSUME NEW v \in Writers \ {w}, NEW i \in 1..Len(batch[v]), NEW j \in 1..m + (k + 1)
                 PROVE  batch[v][i].id # file'[j].id
      BY <1>5
    <3>1. CASE j \in 1..m /\ file'[j] = file[j]
      <4>1. v # holder
        BY <1>1, LogConstantsOK
      <4> QED BY <1>3, <3>1, <4>1 DEF LogInv, BatchOK
    <3>2. CASE j - m \in 1..Len(batch[w]) /\ file'[j].id = batch[w][j - m].id
      BY <3>2 DEF LogInv, BatchOK
    <3> QED BY <1>8, <3>1, <3>2
  <2>2. BatchOK
    BY DEF LogInv
  <2>3. batch' = batch /\ made' = made /\ holder' = w
    BY <1>1
  <2>4. /\ \A v \in Writers : \A i \in 1..Len(batch'[v]) :
              batch'[v][i].whole = TRUE /\ batch'[v][i].id \in 1..made'
        /\ \A u, v \in Writers : \A i \in 1..Len(batch'[u]), j \in 1..Len(batch'[v]) :
              batch'[u][i].id = batch'[v][j].id => u = v /\ i = j
    <3> DEFINE b == batch'
               q == made'
    <3>1. b = batch /\ q = made
      BY <2>3
    <3> HIDE DEF b, q
    <3>2. /\ \A v \in Writers : \A i \in 1..Len(b[v]) : b[v][i].whole = TRUE /\ b[v][i].id \in 1..q
          /\ \A u, v \in Writers : \A i \in 1..Len(b[u]), j \in 1..Len(b[v]) :
                b[u][i].id = b[v][j].id => u = v /\ i = j
      BY <2>2, <3>1 DEF BatchOK
    <3> QED BY <3>2 DEF b, q
  <2>5. \A v \in Writers \ {holder'} : \A i \in 1..Len(batch'[v]), j \in 1..Len(file') : batch'[v][i].id # file'[j].id
    BY <2>1, <2>3, ZenonT(40)
  <2> QED BY <2>4, <2>5 DEF BatchOK
<1>13. HolderOK'
  <2>1. /\ k + 1 <= m + (k + 1) /\ (m + (k + 1)) - (k + 1) = m
        /\ k \in 0..(Len(batch[w]) - 1)
    BY <1>4
  <2>2. ASSUME NEW i \in 1..Len(batch[w]), NEW j \in 1..m + (k + 1), i > k + 1
        PROVE  batch[w][i].id # file'[j].id
    <3>1. CASE j \in 1..m /\ file'[j] = file[j]
      BY <1>9, <3>1
    <3>2. CASE j - m \in 1..k + 1 /\ j - m \in 1..Len(batch[w]) /\ file'[j].id = batch[w][j - m].id
      <4>1. i # j - m
        BY <1>4, <2>2, <3>2
      <4> QED BY <3>2, <4>1 DEF LogInv, BatchOK
    <3> QED BY <1>8, <3>1, <3>2
  <2>3. Written(w, k)'
    BY <1>1, <1>5, <2>1, <2>2 DEF Written
  <2> QED BY <1>1, <2>1, <2>3 DEF HolderOK
<1>14. AckedOK'
  <2> SUFFICES ASSUME NEW i \in acked PROVE \E j \in 1..Len(file') : file'[j].id = i /\ file'[j].whole
    BY <1>1 DEF AckedOK
  <2>1. PICK j \in 1..m : file[j].id = i /\ file[j].whole
    BY <1>3 DEF LogInv, AckedOK
  <2>2. j \in 1..m + (k + 1)
    BY <1>4
  <2> QED BY <1>5, <2>1, <2>2
<1>15. HalvesOK'
  <2>1. Halves' = Halves \cup {m + (k + 1)}
    <3>1. ASSUME NEW i \in 1..m + (k + 1)
          PROVE  ~file'[i].whole <=> i \in Halves \/ i = m + (k + 1)
      <4>1. CASE i \in 1..m
        BY <1>3, <1>4, <1>5, <4>1 DEF Halves
      <4>2. CASE i = m + (k + 1)
        BY <1>5, <1>6, <4>2
      <4>3. CASE i \notin 1..m /\ i # m + (k + 1)
        <5>1. i - m \in 1..k /\ m + (i - m) = i /\ i - m \in 1..Len(batch[w])
          BY <1>3, <1>4, <4>3
        <5>2. file'[i] = batch[w][i - m]
          BY <1>5, <5>1
        <5> QED BY <1>3, <1>4, <4>3, <5>1, <5>2 DEF Halves
      <4> QED BY <4>1, <4>2, <4>3
    <3>2. Halves \cup {m + (k + 1)} \subseteq 1..m + (k + 1)
      BY <1>3, <1>4 DEF Halves
    <3>3. Halves' = {i \in 1..m + (k + 1) : ~file'[i].whole}
      BY <1>5 DEF Halves
    <3> QED BY <3>1, <3>2, <3>3
  <2>2. m + (k + 1) \notin Halves
    BY <1>3, <1>4 DEF Halves
  <2>3. IsFiniteSet(Halves) /\ Cardinality(Halves) \in Nat
    BY <1>2, HalvesFinite DEF LogTypes
  <2>4. Cardinality(Halves') = Cardinality(Halves) + 1
    BY <2>1, <2>2, <2>3, FS_AddElement
  <2>5. Cardinality(Halves) <= faults /\ faults \in Nat
    BY <1>1, <1>2 DEF LogInv, HalvesOK, LogTypes
  <2> QED BY <1>1, <2>3, <2>4, <2>5, LogConstantsOK DEF HalvesOK
<1>16. PromisedOK'
  <2> SUFFICES ASSUME ~swallowed, NEW i \in promised
               PROVE  \E j \in 1..synced : file'[j].id = i /\ file'[j].whole
    BY <1>1 DEF PromisedOK
  <2>1. PICK j \in 1..synced : file[j].id = i /\ file[j].whole
    BY DEF LogInv, PromisedOK
  <2>2. j \in 1..m
    BY <1>2, <1>3 DEF LogTypes
  <2> QED BY <1>5, <2>1, <2>2
<1>17. ClosedOK'
  BY <1>1 DEF LogInv, ClosedOK
<1> QED BY <1>10, <1>11, <1>12, <1>13, <1>14, <1>15, <1>16, <1>17 DEF LogInv

\* What EndWrite makes of the last k + 1 lines.
LEMMA EndWriteIs ==
    ASSUME LogTypes, NEW w \in Writers, NEW k \in 0..(Len(batch[w]) - 1), Written(w, k),
           \A i \in 1..Len(batch[w]) : batch[w][i].whole = TRUE,
           \A i, j \in 1..Len(batch[w]) : batch[w][i].id = batch[w][j].id => i = j
    PROVE  \E s \in Seq(LineRecord) :
               /\ Continued(w) = s
               /\ Len(s) = (Len(file) - (k + 1)) + Len(batch[w])
               /\ \A i \in 1..(Len(file) - (k + 1)) : s[i] = file[i]
               /\ \A i \in 1..Len(batch[w]) : s[(Len(file) - (k + 1)) + i] = batch[w][i]
<1>1. /\ batch[w] \in Seq(LineRecord) /\ Len(batch[w]) \in Nat
      /\ \A i \in 1..Len(batch[w]) : batch[w][i] \in LineRecord
      /\ Len(file) \in Nat /\ file \in Seq(LineRecord)
  BY BatchAt DEF LogTypes
<1>2. PICK z \in Nat : z = Len(batch[w])
  BY <1>1
<1>3. PICK m \in Nat : m = Len(file) - (k + 1) /\ Len(file) = m + (k + 1)
  <2>1. k \in Nat /\ k + 1 <= Len(file)
    BY <1>1 DEF Written
  <2>2. Len(file) - (k + 1) \in Nat /\ Len(file) = (Len(file) - (k + 1)) + (k + 1)
    BY <1>1, <2>1
  <2> QED BY <2>2
<1>4. k \in Nat /\ k + 1 \in 1..z
  BY <1>2
<1> DEFINE half == Last(file)
           r == [half EXCEPT !.whole = TRUE]
           cut == CHOOSE i \in DOMAIN batch[w] : batch[w][i].id = half.id
           left == SubSeq(batch[w], cut + 1, Len(batch[w]))
           f == Front(file)
           l == <<r>>
           s == f \o l
           t == s \o left
<1>5. half = Half(batch[w][k + 1])
  BY <1>3, <1>4 DEF Written, Last
<1>6. r = batch[w][k + 1]
  <2>1. batch[w][k + 1] \in LineRecord /\ batch[w][k + 1].whole = TRUE
    BY <1>1, <1>2, <1>4
  <2> QED BY <1>5, <2>1 DEF Half, LineRecord
<1>7. half.id = batch[w][k + 1].id
  BY <1>1, <1>2, <1>4, <1>5, HalfIs
<1>8. DOMAIN batch[w] = 1..z
  BY <1>1, <1>2, LenProperties
<1>9. half.id \in Ids(batch[w])
  BY <1>4, <1>7, <1>8 DEF Ids
<1>10. cut = k + 1
  <2>1. \A i \in DOMAIN batch[w] : batch[w][i].id = half.id <=> i = k + 1
    BY <1>2, <1>4, <1>7, <1>8
  <2> QED BY <1>4, <1>8, <2>1
<1>11. Continued(w) = t
  BY <1>9 DEF Continued
<1> HIDE DEF half, cut
<1>12. left \in Seq(LineRecord) /\ Len(left) = z - (k + 1) /\ \A i \in 1..(z - (k + 1)) : left[i] = batch[w][(k + 1) + i]
  <2>1. left = SubSeq(batch[w], k + 2, z)
    <3>1. cut + 1 = k + 2
      BY <1>4, <1>10
    <3> QED BY <1>2, <3>1
  <2> HIDE DEF left
  <2>2. k + 2 \in Int /\ z \in Int /\ \A i \in (k + 2)..z : batch[w][i] \in LineRecord
    BY <1>1, <1>2, <1>4
  <2>3. /\ SubSeq(batch[w], k + 2, z) \in Seq(LineRecord)
        /\ Len(SubSeq(batch[w], k + 2, z)) = (IF k + 2 <= z THEN z - (k + 2) + 1 ELSE 0)
        /\ \A i \in 1..(z - (k + 2) + 1) : SubSeq(batch[w], k + 2, z)[i] = batch[w][k + 2 + i - 1]
    BY <2>2, SubSeqProperties
  <2>4. Len(left) = z - (k + 1)
    <3>1. (IF k + 2 <= z THEN z - (k + 2) + 1 ELSE 0) = z - (k + 1)
      BY <1>2, <1>4
    <3> QED BY <2>1, <2>3, <3>1
  <2>5. ASSUME NEW i \in 1..(z - (k + 1)) PROVE left[i] = batch[w][(k + 1) + i]
    <3>1. k \in Nat /\ z \in Nat /\ i \in Nat /\ 1 <= i /\ i <= z - (k + 1)
      BY <1>2, <1>4
    <3>2. i \in 1..(z - (k + 2) + 1)
      BY <3>1
    <3>3. k + 2 + i - 1 = (k + 1) + i
      BY <3>1
    <3> QED BY <2>1, <2>3, <3>2, <3>3
  <2> QED BY <2>1, <2>3, <2>4, <2>5
<1> HIDE DEF left
<1>13. f \in Seq(LineRecord) /\ Len(f) = m + k /\ \A i \in 1..(m + k) : f[i] = file[i]
  <2>1. f = SubSeq(file, 1, m + k)
    <3>1. Len(file) - 1 = m + k
      BY <1>3, <1>4
    <3> QED BY <3>1 DEF Front
  <2> HIDE DEF f
  <2>2. m + k \in Int /\ \A i \in 1..(m + k) : file[i] \in LineRecord
    BY <1>3, <1>4, LineAt
  <2>3. /\ SubSeq(file, 1, m + k) \in Seq(LineRecord)
        /\ Len(SubSeq(file, 1, m + k)) = (IF 1 <= m + k THEN m + k - 1 + 1 ELSE 0)
        /\ \A i \in 1..(m + k - 1 + 1) : SubSeq(file, 1, m + k)[i] = file[1 + i - 1]
    BY <2>2, SubSeqProperties
  <2>4. Len(f) = m + k
    BY <1>3, <1>4, <2>1, <2>3
  <2>5. ASSUME NEW i \in 1..(m + k) PROVE f[i] = file[i]
    <3>1. i \in 1..(m + k - 1 + 1) /\ 1 + i - 1 = i
      BY <1>3, <1>4
    <3> QED BY <2>1, <2>3, <3>1
  <2> QED BY <2>1, <2>3, <2>4, <2>5
<1> HIDE DEF f
<1>14. l \in Seq(LineRecord) /\ Len(l) = 1 /\ l[1] = batch[w][k + 1]
  <2>1. r \in LineRecord
    BY <1>1, <1>2, <1>4, <1>6
  <2> HIDE DEF r
  <2>2. l \in Seq(LineRecord) /\ Len(l) = 1 /\ l[1] = r
    BY <2>1
  <2> QED BY <1>6, <2>2
<1> HIDE DEF r, l
<1>15. s \in Seq(LineRecord) /\ Len(s) = m + (k + 1) /\ \A i \in 1..(m + (k + 1)) : s[i] = IF i <= m + k THEN file[i] ELSE batch[w][k + 1]
  <2>1. f \in Seq(LineRecord) /\ l \in Seq(LineRecord)
    BY <1>13, <1>14
  <2>2. /\ s \in Seq(LineRecord) /\ Len(s) = Len(f) + Len(l)
        /\ \A i \in 1..(Len(f) + Len(l)) : s[i] = IF i <= Len(f) THEN f[i] ELSE l[i - Len(f)]
    BY <2>1, ConcatProperties
  <2> HIDE DEF s
  <2>3. Len(s) = m + (k + 1)
    BY <1>4, <1>13, <1>14, <2>2
  <2>4. ASSUME NEW i \in 1..(m + (k + 1)) PROVE s[i] = IF i <= m + k THEN file[i] ELSE batch[w][k + 1]
    <3>1. i \in 1..(Len(f) + Len(l)) /\ Len(f) = m + k
      BY <1>4, <1>13, <1>14
    <3>2. s[i] = IF i <= m + k THEN f[i] ELSE l[i - (m + k)]
      BY <2>2, <3>1
    <3>3. CASE i <= m + k
      BY <1>4, <1>13, <3>2, <3>3
    <3>4. CASE i > m + k
      <4>1. i - (m + k) = 1
        BY <1>4, <3>4, SMTT(30)
      <4> QED BY <1>4, <1>14, <3>2, <3>4, <4>1
    <3> QED BY <1>4, <3>3, <3>4
  <2> QED BY <2>2, <2>3, <2>4
<1> HIDE DEF s
<1>16. t \in Seq(LineRecord) /\ Len(t) = m + z /\ \A i \in 1..(m + z) : t[i] = IF i <= m + (k + 1) THEN s[i] ELSE left[i - (m + (k + 1))]
  <2>1. s \in Seq(LineRecord) /\ left \in Seq(LineRecord)
    BY <1>12, <1>15
  <2>2. /\ t \in Seq(LineRecord) /\ Len(t) = Len(s) + Len(left)
        /\ \A i \in 1..(Len(s) + Len(left)) : t[i] = IF i <= Len(s) THEN s[i] ELSE left[i - Len(s)]
    BY <2>1, ConcatProperties
  <2> HIDE DEF t
  <2>3. Len(s) = m + (k + 1) /\ Len(s) + Len(left) = m + z
    BY <1>4, <1>12, <1>15
  <2> QED BY <2>2, <2>3
<1> HIDE DEF t
<1>17. \A i \in 1..m : t[i] = file[i]
  <2> TAKE i \in 1..m
  <2>1. i \in 1..(m + z) /\ i \in 1..(m + (k + 1)) /\ i <= m + k /\ i <= m + (k + 1)
    BY <1>4
  <2> QED BY <1>15, <1>16, <2>1
<1>18. \A i \in 1..z : t[m + i] = batch[w][i]
  <2> TAKE i \in 1..z
  <2>1. m + i \in 1..(m + z)
    OBVIOUS
  <2>2. CASE i <= k
    <3>1. m + i \in 1..(m + (k + 1)) /\ m + i <= m + k /\ m + i <= m + (k + 1)
      BY <1>4, <2>2
    <3>2. t[m + i] = file[m + i]
      BY <1>15, <1>16, <2>1, <3>1
    <3>3. i \in 1..k
      BY <1>4, <2>2
    <3> QED BY <1>3, <3>2, <3>3 DEF Written
  <2>3. CASE i = k + 1
    <3>1. m + i \in 1..(m + (k + 1)) /\ ~(m + i <= m + k) /\ m + i <= m + (k + 1)
      BY <1>4, <2>3
    <3> QED BY <1>15, <1>16, <2>1, <2>3, <3>1
  <2>4. CASE i > k + 1
    <3>1. ~(m + i <= m + (k + 1)) /\ (m + i) - (m + (k + 1)) = i - (k + 1) /\ i - (k + 1) \in 1..(z - (k + 1)) /\ (k + 1) + (i - (k + 1)) = i
      BY <1>4, <2>4
    <3>2. t[m + i] = left[i - (k + 1)]
      BY <1>16, <2>1, <3>1
    <3> QED BY <1>12, <3>1, <3>2
  <2> QED BY <1>4, <2>2, <2>3, <2>4
<1> QED BY <1>2, <1>3, <1>11, <1>16, <1>17, <1>18, ZenonT(40)

LEMMA EndWriteInv ==
    ASSUME LogInv, NEW w \in Writers, NEW ok \in BOOLEAN, EndWrite(w, ok)
    PROVE  LogInv'
<1>1. /\ holder = w /\ holder' = None /\ file' = Continued(w) /\ acked' = acked \cup Ids(batch[w])
      /\ batch' = [batch EXCEPT ![w] = <<>>]
      /\ UNCHANGED <<ready, open, closer, made, promised, swallowed>>
  BY DEF EndWrite, process
<1>2. LogTypes
  BY DEF LogInv
<1>3. w # None /\ open
  BY <1>1, LogConstantsOK DEF LogInv, HolderOK
<1>4. PICK k \in 0..(Len(batch[w]) - 1) : Written(w, k)
  BY <1>1, <1>3 DEF LogInv, HolderOK
<1>5. PICK z \in Nat : z = Len(batch[w])
  BY <1>2, BatchAt
<1>6. k \in Nat /\ k + 1 \in 1..z
  BY <1>5
<1>7. PICK m \in Nat : m = Len(file) - (k + 1) /\ Len(file) = m + (k + 1)
  <2>1. k + 1 <= Len(file) /\ Len(file) \in Nat
    BY <1>2, <1>4, LenProperties DEF Written, LogTypes
  <2>2. Len(file) - (k + 1) \in Nat /\ Len(file) = (Len(file) - (k + 1)) + (k + 1)
    BY <1>6, <2>1
  <2> QED BY <2>2
<1>8. \A i \in 1..z : batch[w][i].whole = TRUE /\ batch[w][i].id \in 1..made
  BY <1>5 DEF LogInv, BatchOK
<1>9. \A i, j \in 1..z : batch[w][i].id = batch[w][j].id => i = j
  BY <1>5 DEF LogInv, BatchOK
<1>9a. file[Len(file)].id = batch[w][k + 1].id /\ file[Len(file)].whole = FALSE
  <2>1. batch[w][k + 1] \in LineRecord
    BY <1>2, <1>5, <1>6, BatchAt
  <2>2. file[Len(file)] = Half(batch[w][k + 1])
    BY <1>4 DEF Written
  <2>3. Half(batch[w][k + 1]).id = batch[w][k + 1].id /\ Half(batch[w][k + 1]).whole = FALSE
    BY <2>1, HalfIs
  <2> QED BY <2>2, <2>3
<1>9b. /\ m \in Nat /\ k \in Nat /\ z \in Nat /\ k + 1 <= z
       /\ \A i \in 1..m : i \in 1..Len(file)
       /\ Len(file) \in 1..Len(file) /\ ~(Len(file) <= m) /\ Len(file) <= m + z
  <2>1. m \in Nat /\ k \in Nat /\ z \in Nat /\ k + 1 <= z /\ Len(file) = m + (k + 1)
    BY <1>5, <1>6, <1>7
  <2>2. \A i \in 1..m : i \in 1..Len(file)
    BY <2>1
  <2>3. Len(file) \in 1..Len(file) /\ ~(Len(file) <= m) /\ Len(file) <= m + z
    BY <2>1
  <2> QED BY <2>1, <2>2, <2>3
<1>10. /\ file' \in Seq(LineRecord) /\ Len(file') = m + z
       /\ \A i \in 1..m : file'[i] = file[i]
       /\ \A i \in 1..z : file'[m + i] = batch[w][i]
  <2>1. \E s \in Seq(LineRecord) :
            /\ Continued(w) = s
            /\ Len(s) = (Len(file) - (k + 1)) + Len(batch[w])
            /\ \A i \in 1..(Len(file) - (k + 1)) : s[i] = file[i]
            /\ \A i \in 1..Len(batch[w]) : s[(Len(file) - (k + 1)) + i] = batch[w][i]
    BY <1>2, <1>4, <1>5, <1>8, <1>9, EndWriteIs, ZenonT(40)
  <2>2. PICK s \in Seq(LineRecord) :
            /\ Continued(w) = s
            /\ Len(s) = m + z
            /\ \A i \in 1..m : s[i] = file[i]
            /\ \A i \in 1..z : s[m + i] = batch[w][i]
    BY <1>5, <1>7, <2>1
  <2> QED BY <1>1, <2>2, Zenon
<1>11. ASSUME NEW i \in 1..m + z
       PROVE  \/ i \in 1..m /\ file'[i] = file[i]
              \/ i - m \in 1..z /\ file'[i] = batch[w][i - m]
  <2>1. CASE i <= m
    BY <1>7, <1>10, <2>1
  <2>2. CASE i > m
    <3>1. i - m \in 1..z /\ m + (i - m) = i
      BY <1>9b, <2>2
    <3> QED BY <1>10, <3>1
  <2> QED BY <1>5, <1>7, <2>1, <2>2
\* The batch is not in the file before it was begun.
<1>12. ASSUME NEW i \in 1..z, NEW j \in 1..m
       PROVE  batch[w][i].id # file[j].id
  <2>1. j \in 1..Len(file)
    BY <1>6, <1>7
  <2>2. CASE i > k + 1
    BY <1>4, <1>5, <2>1, <2>2 DEF Written
  <2>3. CASE i <= k + 1
    <3>1. m + i \in 1..Len(file) /\ m + i # j
      BY <1>6, <1>7, <2>3
    <3>2. file[m + i].id = batch[w][i].id
      <4>1. CASE i = k + 1
        <5>1. m + i = Len(file)
          BY <1>7, <4>1
        <5> QED BY <1>9a, <4>1, <5>1
      <4>2. CASE i # k + 1
        <5>1. i \in 1..k
          BY <1>6, <2>3, <4>2
        <5> QED BY <1>4, <1>7, <5>1 DEF Written
      <4> QED BY <4>1, <4>2
    <3>3. file[m + i].id # file[j].id
      BY <2>1, <3>1 DEF LogInv, FileOK
    <3> QED BY <3>2, <3>3
  <2> QED BY <1>6, <2>2, <2>3
\* The lines that are whole stay where they are.
<1>13. ASSUME NEW j \in 1..Len(file), file[j].whole
       PROVE  j \in 1..Len(file') /\ file'[j] = file[j]
  <2>1. j \in 1..m + (k + 1) /\ j \in 1..Len(file')
    BY <1>5, <1>6, <1>7, <1>10
  <2>2. CASE j <= m
    BY <1>7, <1>10, <2>1, <2>2
  <2>3. CASE j = m + (k + 1)
    BY <1>7, <1>9a, <1>13, <2>3
  <2>4. CASE j > m /\ j # m + (k + 1)
    <3>1. j - m \in 1..k /\ j - m \in 1..z /\ m + (j - m) = j
      BY <1>5, <1>6, <1>7, <2>1, <2>4, SMTT(30)
    <3>2. file[m + (j - m)] = batch[w][j - m]
      BY <1>4, <1>7, <3>1 DEF Written
    <3>3. file'[m + (j - m)] = batch[w][j - m]
      BY <1>10, <3>1
    <3> QED BY <2>1, <3>1, <3>2, <3>3
  <2> QED BY <1>6, <1>7, <2>1, <2>2, <2>3, <2>4
<1>14. /\ synced' = synced \/ synced' = Len(file')
       /\ faults' \in Nat /\ faults <= faults'
  <2>1. faults \in Nat
    BY <1>2 DEF LogTypes
  <2>2. CASE FlushOnWrite
    BY <2>1, <2>2 DEF EndWrite
  <2>3. CASE ~FlushOnWrite
    BY <2>1, <2>3 DEF EndWrite
  <2> QED BY <2>2, <2>3
<1> DEFINE e == <<>>
<1>15. e \in Seq(LineRecord) /\ Len(e) = 0 /\ batch' = [batch EXCEPT ![w] = e]
  BY <1>1, EmptySeq
<1> HIDE DEF e
<1>16. /\ batch' \in [Writers -> Seq(LineRecord)] /\ batch'[w] = e
       /\ \A v \in Writers : v # w => batch'[v] = batch[v]
  BY <1>2, <1>15 DEF LogTypes
<1>17. LogTypes'
  <2>1. synced' \in 0..Len(file')
    <3>1. synced \in Nat /\ synced <= m + z /\ m + z \in Nat
      <4>1. synced \in 0..Len(file)
        BY <1>2 DEF LogTypes
      <4>2. Len(file) \in Nat /\ Len(file) <= m + z /\ m + z \in Nat
        BY <1>7, <1>9b
      <4> QED BY <4>1, <4>2
    <3> QED BY <1>10, <1>14, <3>1
  <2> QED BY <1>1, <1>2, <1>10, <1>14, <1>16, <2>1 DEF LogTypes
<1>18. FileOK'
  <2>1. \A i \in 1..Len(file') : file'[i].id \in 1..made'
    <3> SUFFICES ASSUME NEW i \in 1..m + z PROVE file'[i].id \in 1..made
      BY <1>1, <1>10
    <3>1. CASE i \in 1..m /\ file'[i] = file[i]
      <4>1. i \in 1..Len(file)
        BY <1>6, <1>7, <3>1
      <4> QED BY <3>1, <4>1 DEF LogInv, FileOK
    <3>2. CASE i - m \in 1..z /\ file'[i] = batch[w][i - m]
      BY <1>8, <3>2
    <3> QED BY <1>11, <3>1, <3>2
  <2>2. \A i, j \in 1..Len(file') : file'[i].id = file'[j].id => i = j
    <3> SUFFICES ASSUME NEW i \in 1..m + z, NEW j \in 1..m + z, file'[i].id = file'[j].id
                 PROVE  i = j
      BY <1>10
    <3>1. CASE i \in 1..m /\ file'[i] = file[i]
      <4>1. CASE j \in 1..m /\ file'[j] = file[j]
        <5>1. i \in 1..Len(file) /\ j \in 1..Len(file)
          BY <1>9b, <3>1, <4>1
        <5> QED BY <3>1, <4>1, <5>1 DEF LogInv, FileOK
      <4>2. CASE j - m \in 1..z /\ file'[j] = batch[w][j - m]
        BY <1>12, <3>1, <4>2
      <4> QED BY <1>11, <4>1, <4>2
    <3>2. CASE i - m \in 1..z /\ file'[i] = batch[w][i - m]
      <4>1. CASE j \in 1..m /\ file'[j] = file[j]
        BY <1>12, <3>2, <4>1
      <4>2. CASE j - m \in 1..z /\ file'[j] = batch[w][j - m]
        <5>1. i - m = j - m
          BY <1>9, <3>2, <4>2
        <5> QED BY <1>5, <1>7, <5>1
      <4> QED BY <1>11, <4>1, <4>2
    <3> QED BY <1>11, <3>1, <3>2
  <2> QED BY <2>1, <2>2 DEF FileOK
<1>19. BatchOK'
  <2>1. \A v \in Writers : \A i \in 1..Len(batch'[v]) : v # w /\ batch'[v] = batch[v]
    <3>1. 1..Len(batch'[w]) = {}
      BY <1>15, <1>16
    <3> QED BY <1>16, <3>1
  <2>2. ASSUME NEW v \in Writers, NEW i \in 1..Len(batch'[v]), NEW j \in 1..m + z
        PROVE  batch'[v][i].id # file'[j].id
    <3>1. v # w /\ batch'[v] = batch[v] /\ i \in 1..Len(batch[v])
      BY <2>1
    <3>2. CASE j \in 1..m /\ file'[j] = file[j]
      <4>1. j \in 1..Len(file) /\ v # holder
        BY <1>1, <1>6, <1>7, <3>1, <3>2
      <4> QED BY <3>1, <3>2, <4>1 DEF LogInv, BatchOK
    <3>3. CASE j - m \in 1..z /\ file'[j] = batch[w][j - m]
      BY <1>5, <3>1, <3>3, SMTT(30) DEF LogInv, BatchOK
    <3> QED BY <1>11, <3>2, <3>3
  <2>3. /\ \A v \in Writers : \A i \in 1..Len(batch'[v]) :
               batch'[v][i].whole = TRUE /\ batch'[v][i].id \in 1..made'
        /\ \A v, u \in Writers : \A i \in 1..Len(batch'[v]), j \in 1..Len(batch'[u]) :
               batch'[v][i].id = batch'[u][j].id => v = u /\ i = j
    BY <1>1, <2>1 DEF LogInv, BatchOK
  <2> QED BY <1>10, <2>2, <2>3 DEF BatchOK
<1>20. HolderOK' /\ ClosedOK'
  BY <1>1, <1>3 DEF LogInv, HolderOK, ClosedOK
<1>21. AckedOK'
  <2> SUFFICES ASSUME NEW i \in acked' PROVE \E j \in 1..Len(file') : file'[j].id = i /\ file'[j].whole
    BY DEF AckedOK
  <2>1. CASE i \in acked
    <3>1. PICK j \in 1..Len(file) : file[j].id = i /\ file[j].whole
      BY <2>1 DEF LogInv, AckedOK
    <3> QED BY <1>13, <3>1
  <2>2. CASE i \in Ids(batch[w])
    <3>1. batch[w] \in Seq(LineRecord) /\ DOMAIN batch[w] = 1..z
      BY <1>2, <1>5, BatchAt, LenProperties
    <3>2. PICK a \in 1..z : batch[w][a].id = i
      BY <2>2, <3>1 DEF Ids
    <3>3. m + a \in 1..Len(file')
      BY <1>10
    <3> QED BY <1>8, <1>10, <3>2, <3>3
  <2> QED BY <1>1, <2>1, <2>2
<1>22. HalvesOK'
  <2>1. Halves' \subseteq Halves \ {Len(file)}
    <3> SUFFICES ASSUME NEW i \in 1..m + z, ~file'[i].whole
                 PROVE  i \in Halves /\ i # Len(file)
      BY <1>10 DEF Halves
    <3>1. i \in 1..m /\ file'[i] = file[i]
      BY <1>8, <1>11
    <3>2. i \in 1..Len(file) /\ i <= m
      BY <1>9b, <3>1
    <3> QED BY <1>9b, <3>1, <3>2 DEF Halves
  <2>2. Len(file) \in Halves
    BY <1>9a, <1>9b DEF Halves
  <2>3. IsFiniteSet(Halves) /\ Cardinality(Halves) \in Nat
    BY <1>2, HalvesFinite DEF LogTypes
  <2>4. IsFiniteSet(Halves \ {Len(file)}) /\ Cardinality(Halves \ {Len(file)}) = Cardinality(Halves) - 1
    BY <2>2, <2>3, FS_RemoveElement
  <2>5. Cardinality(Halves') <= Cardinality(Halves) - 1
    BY <2>1, <2>4, FS_Subset
  <2>6. Cardinality(Halves) <= faults + 1 /\ faults \in Nat
    BY <1>1, <1>2, <1>3 DEF LogInv, HalvesOK, LogTypes
  <2>7. Cardinality(Halves') \in Nat
    <3>1. IsFiniteSet(Halves')
      BY <2>1, <2>4, FS_Subset
    <3> QED BY <3>1, FS_CardinalityType
  <2> QED BY <1>1, <1>14, <2>3, <2>5, <2>6, <2>7 DEF HalvesOK
<1>23. PromisedOK'
  <2> SUFFICES ASSUME ~swallowed, NEW i \in promised
               PROVE  \E j \in 1..synced' : file'[j].id = i /\ file'[j].whole
    BY <1>1 DEF PromisedOK
  <2>1. PICK j \in 1..synced : file[j].id = i /\ file[j].whole
    BY DEF LogInv, PromisedOK
  <2>2. j \in 1..Len(file)
    BY <1>2, <1>7 DEF LogTypes
  <2>3. j \in 1..Len(file') /\ file'[j] = file[j]
    BY <1>13, <2>1, <2>2
  <2>4. j \in 1..synced'
    BY <1>14, <2>3
  <2> QED BY <2>1, <2>3, <2>4
<1> QED BY <1>17, <1>18, <1>19, <1>20, <1>21, <1>22, <1>23 DEF LogInv

-----------------------------------------------------------------------------
(* Crashes *)

LEMMA LeftIs ==
    ASSUME LogTypes, NEW k \in synced..Len(file), NEW rest \in Left(k)
    PROVE  /\ rest \in Seq(LineRecord) /\ Len(rest) \in {k, k + 1} /\ Len(rest) <= Len(file)
           /\ \A i \in 1..k : rest[i] = file[i]
           /\ \A i \in 1..Len(rest) : rest[i].id = file[i].id
<1>1. Len(file) \in Nat /\ synced \in Nat /\ DOMAIN file = 1..Len(file)
  BY LenProperties DEF LogTypes
<1>2. k \in Nat /\ k <= Len(file)
  BY <1>1
<1> DEFINE p == SubSeq(file, 1, k)
<1>3. p \in Seq(LineRecord) /\ Len(p) = k /\ \A i \in 1..k : p[i] = file[i]
  <2>1. \A i \in 1..k : file[i] \in LineRecord
    BY <1>1, <1>2, LineAt
  <2>2. /\ SubSeq(file, 1, k) \in Seq(LineRecord)
        /\ Len(SubSeq(file, 1, k)) = (IF 1 <= k THEN k - 1 + 1 ELSE 0)
        /\ \A i \in 1..(k - 1 + 1) : SubSeq(file, 1, k)[i] = file[1 + i - 1]
    BY <1>2, <2>1, SubSeqProperties
  <2> HIDE DEF p
  <2>3. p = SubSeq(file, 1, k)
    BY DEF p
  <2>4. Len(p) = k
    BY <1>2, <2>2, <2>3
  <2>5. ASSUME NEW i \in 1..k PROVE p[i] = file[i]
    <3>1. i \in 1..(k - 1 + 1) /\ 1 + i - 1 = i
      BY <1>2
    <3> QED BY <2>2, <2>3, <3>1
  <2> QED BY <2>2, <2>3, <2>4, <2>5
<1> HIDE DEF p
<1>4. CASE rest = p
  BY <1>2, <1>3, <1>4
<1>5. CASE k + 1 \in DOMAIN file /\ rest = p \o <<Half(file[k + 1])>>
  <2> DEFINE h == Half(file[k + 1])
             l == <<h>>
             s == p \o l
  <2>1. k + 1 \in 1..Len(file)
    BY <1>1, <1>5
  <2>2. h \in LineRecord /\ h.id = file[k + 1].id
    BY <2>1, LineAt, HalfIs
  <2> HIDE DEF h
  <2>3. l \in Seq(LineRecord) /\ Len(l) = 1 /\ l[1] = h
    BY <2>2
  <2>4. rest = s
    BY <1>5 DEF h
  <2> HIDE DEF l
  <2>5. p \in Seq(LineRecord) /\ l \in Seq(LineRecord)
    BY <1>3, <2>3
  <2>6. /\ s \in Seq(LineRecord) /\ Len(s) = Len(p) + Len(l)
        /\ \A i \in 1..(Len(p) + Len(l)) : s[i] = IF i <= Len(p) THEN p[i] ELSE l[i - Len(p)]
    BY <2>5, ConcatProperties
  <2> HIDE DEF s
  <2>7. Len(s) = k + 1
    BY <1>2, <1>3, <2>3, <2>6
  <2>8. ASSUME NEW i \in 1..k PROVE s[i] = file[i]
    <3>1. i \in 1..(Len(p) + Len(l)) /\ i <= Len(p)
      BY <1>2, <1>3, <2>3
    <3> QED BY <1>3, <2>6, <3>1
  <2>9. s[k + 1] = h
    <3>1. k + 1 \in 1..(Len(p) + Len(l)) /\ ~(k + 1 <= Len(p)) /\ (k + 1) - Len(p) = 1
      BY <1>2, <1>3, <2>3
    <3> QED BY <2>3, <2>6, <3>1
  <2>10. ASSUME NEW i \in 1..Len(s) PROVE s[i].id = file[i].id
    <3>1. i \in 1..k \/ i = k + 1
      BY <1>2, <2>7
    <3> QED BY <2>2, <2>8, <2>9, <3>1
  <2> QED BY <2>1, <2>4, <2>6, <2>7, <2>8, <2>10
<1> QED BY <1>4, <1>5 DEF Left, p

LEMMA CrashInv ==
    ASSUME LogInv, NEW k \in synced..Len(file), NEW rest \in Left(k), Crash(rest)
    PROVE  LogInv'
<1>1. LogTypes /\ Len(file) \in Nat /\ synced \in Nat
  BY LenProperties DEF LogInv, LogTypes
<1>2. k \in Nat /\ k <= Len(file) /\ synced <= k
  BY <1>1
<1>3. /\ file' = rest /\ faults' = faults + 1 /\ holder' = None /\ closer' = "no"
      /\ ready' = FALSE /\ open' = FALSE /\ batch' = [v \in Writers |-> <<>>]
      /\ acked' = {i \in acked : \E j \in DOMAIN rest : rest[j].id = i /\ rest[j].whole}
      /\ UNCHANGED <<made, promised, swallowed>>
  BY DEF Crash
<1>4. /\ rest \in Seq(LineRecord) /\ Len(rest) \in {k, k + 1} /\ Len(rest) <= Len(file)
      /\ \A i \in 1..k : rest[i] = file[i]
      /\ \A i \in 1..Len(rest) : rest[i].id = file[i].id
  BY <1>1, LeftIs
<1>5. PICK z \in Nat : z = Len(rest)
  BY <1>2, <1>4
<1>6. z \in {k, k + 1} /\ z <= Len(file) /\ Len(file') = z /\ DOMAIN rest = 1..z
  BY <1>3, <1>4, <1>5, LenProperties
<1>7. synced' \in Nat /\ synced <= synced' /\ synced' <= z
  <2>1. synced' = z \/ (rest = file /\ synced' = synced)
    BY <1>5 DEF Crash
  <2>2. CASE synced' = z
    BY <1>1, <1>2, <1>5, <1>6, <2>2
  <2>3. CASE rest = file /\ synced' = synced
    BY <1>1, <1>2, <1>5, <1>6, <2>3
  <2> QED BY <2>1, <2>2, <2>3
<1> DEFINE e == <<>>
<1>8. e \in Seq(LineRecord) /\ Len(e) = 0 /\ batch' = [v \in Writers |-> e]
  BY <1>3, EmptySeq
<1> HIDE DEF e
<1>9. batch' \in [Writers -> Seq(LineRecord)] /\ \A v \in Writers : 1..Len(batch'[v]) = {}
  BY <1>8
<1>10. LogTypes'
  <2>1. synced' \in 0..Len(file')
    BY <1>6, <1>7
  <2>2. file' \in Seq(LineRecord)
    BY <1>3, <1>4
  <2>3. made' \in Nat /\ faults' \in Nat /\ swallowed' \in BOOLEAN
    BY <1>1, <1>3 DEF LogTypes
  <2>4. holder' \in Writers \cup {None} /\ ready' \in BOOLEAN /\ open' \in BOOLEAN
    BY <1>3
  <2>5. batch' \in [Writers -> Seq(LineRecord)]
    BY <1>9
  <2> QED BY <2>1, <2>2, <2>3, <2>4, <2>5 DEF LogTypes
<1>11. FileOK'
  <2> SUFFICES ASSUME NEW i \in 1..z, NEW j \in 1..z
               PROVE  file'[i].id \in 1..made /\ (file'[i].id = file'[j].id => i = j)
    BY <1>3, <1>6 DEF FileOK
  <2>1. i \in 1..Len(file) /\ j \in 1..Len(file)
    BY <1>1, <1>5, <1>6
  <2>2. file'[i].id = file[i].id /\ file'[j].id = file[j].id
    BY <1>3, <1>4, <1>5
  <2> QED BY <2>1, <2>2 DEF LogInv, FileOK
<1>12. BatchOK' /\ HolderOK' /\ ClosedOK'
  BY <1>3, <1>9 DEF BatchOK, HolderOK, ClosedOK
<1>13. AckedOK'
  BY <1>3, <1>6 DEF AckedOK
<1>14. HalvesOK'
  <2> DEFINE rem == Halves \ {Len(file)}
             all == rem \cup {z}
  <2>1. IsFiniteSet(Halves) /\ Cardinality(Halves) \in Nat /\ faults \in Nat
    BY <1>1, HalvesFinite DEF LogTypes
  <2>2. IsFiniteSet(rem) /\ Cardinality(rem) \in Nat /\ Cardinality(rem) <= faults
    <3>1. IsFiniteSet(rem) /\ Cardinality(rem) \in Nat
          /\ Cardinality(rem) = IF Len(file) \in Halves THEN Cardinality(Halves) - 1 ELSE Cardinality(Halves)
      BY <2>1, FS_RemoveElement, FS_CardinalityType
    <3>2. CASE holder = None
      BY <2>1, <3>1, <3>2 DEF LogInv, HalvesOK
    <3>3. CASE holder # None
      <4>1. holder \in Writers
        BY <1>1, <3>3 DEF LogTypes
      <4>2. PICK a \in 0..(Len(batch[holder]) - 1) : Written(holder, a)
        BY <3>3 DEF LogInv, HolderOK
      <4>3. Len(batch[holder]) \in Nat
        BY <1>1, <4>1, BatchAt
      <4>4. a + 1 \in 1..Len(batch[holder]) /\ a + 1 <= Len(file) /\ a \in Nat
        BY <4>2, <4>3 DEF Written
      <4>5. batch[holder][a + 1] \in LineRecord
        BY <1>1, <4>1, <4>4, BatchAt
      <4>6. file[Len(file)] = Half(batch[holder][a + 1])
        BY <4>2 DEF Written
      <4>7. Half(batch[holder][a + 1]).whole = FALSE
        BY <4>5, HalfIs
      <4>8. Len(file) \in Halves
        BY <1>1, <4>4, <4>6, <4>7 DEF Halves
      <4> QED BY <2>1, <3>1, <3>3, <4>8 DEF LogInv, HalvesOK
    <3> QED BY <3>2, <3>3
  <2>3. Halves' \subseteq all
    <3> SUFFICES ASSUME NEW i \in 1..z, ~file'[i].whole, i # z PROVE i \in rem
      BY <1>6 DEF Halves
    <3>1. i \in 1..k /\ i \in 1..Len(file) /\ i # Len(file)
      BY <1>1, <1>2, <1>5, <1>6
    <3>2. file'[i] = file[i]
      BY <1>3, <1>4, <3>1
    <3> QED BY <3>1, <3>2 DEF Halves
  <2> HIDE DEF rem
  <2>4. IsFiniteSet(all) /\ Cardinality(all) <= Cardinality(rem) + 1 /\ Cardinality(all) \in Nat
    <3>1. IsFiniteSet(all) /\ Cardinality(all) = IF z \in rem THEN Cardinality(rem) ELSE Cardinality(rem) + 1
      BY <2>2, FS_AddElement
    <3> QED BY <2>2, <3>1
  <2> HIDE DEF all
  <2>5. Cardinality(Halves') <= Cardinality(all) /\ Cardinality(Halves') \in Nat
    <3>1. IsFiniteSet(Halves') /\ Cardinality(Halves') <= Cardinality(all)
      BY <2>3, <2>4, FS_Subset
    <3> QED BY <3>1, FS_CardinalityType
  <2>6. Cardinality(Halves') <= faults'
    BY <1>3, <2>1, <2>2, <2>4, <2>5
  <2> QED BY <1>3, <2>6, <2>1 DEF HalvesOK
<1>15. PromisedOK'
  <2> SUFFICES ASSUME ~swallowed, NEW i \in promised
               PROVE  \E j \in 1..synced' : file'[j].id = i /\ file'[j].whole
    BY <1>3 DEF PromisedOK
  <2>1. PICK j \in 1..synced : file[j].id = i /\ file[j].whole
    BY DEF LogInv, PromisedOK
  <2>2. j \in 1..k /\ j \in 1..synced'
    BY <1>1, <1>2, <1>7
  <2> QED BY <1>3, <1>4, <2>1, <2>2
<1> QED BY <1>10, <1>11, <1>12, <1>13, <1>14, <1>15 DEF LogInv

-----------------------------------------------------------------------------

LEMMA LogInductive == Spec => []LogInv
<1>1. LogInit => LogInv
  BY LogInitially
<1>2. LogInv /\ [LogNext]_logVars => LogInv'
  <2> SUFFICES ASSUME LogInv, [LogNext]_logVars PROVE LogInv'
    OBVIOUS
  <2>1. CASE Open
    BY <2>1, OpenInv
  <2>2. CASE AppendStep
    <3>1. PICK w \in Writers :
              \/ \E codes \in Batches : Begin(w, codes)
              \/ \E k \in 0..(Len(batch[w]) - 1) : StartWrite(w, k)
              \/ Refused(w) \/ FailWrite(w)
              \/ \E ok \in BOOLEAN : EndWrite(w, ok)
      BY <2>2 DEF AppendStep
    <3> QED BY <3>1, BeginInv, StartWriteInv, GivenUpInv, EndWriteInv
  <2>3. CASE SyncStep
    BY <2>3, SyncerInv, SyncInv DEF SyncStep
  <2>4. CASE CloseBegin
    BY <2>4, CloseBeginInv
  <2>5. CASE \E ok \in BOOLEAN : CloseEnd(ok)
    BY <2>5, CloseEndInv
  <2>6. CASE \/ \E r \in Readers : BadLine(r) \/ CountLines(r)
             \/ UNCHANGED logVars
    <3>1. UNCHANGED <<file, synced, ready, open, closer, holder, batch, made, faults, acked, promised, swallowed>>
      BY <2>6 DEF BadLine, CountLines, notReaders, logVars, process, writing, logHistory
    <3> QED BY <3>1 DEF LogInv, LogTypes, FileOK, BatchOK, HolderOK, Written, AckedOK, HalvesOK, Halves,
                        PromisedOK, ClosedOK
  <2>7. CASE \E k \in synced..Len(file) : \E rest \in Left(k) : Crash(rest)
    BY <2>7, CrashInv
  <2> QED BY <2>1, <2>2, <2>3, <2>4, <2>5, <2>6, <2>7 DEF LogNext
<1> QED BY <1>1, <1>2, LogBehaves, PTL

\* Appends, syncs, I/O errors, Close and crashes in any order: a line whose Append
\* returned nil is in the file, whole and once, and half lines are no more than the
\* writes and processes that were cut off, and the one that is being written.
THEOREM LogKeepsLines == Spec => []LogIntact
<1>1. LogInv => LogIntact
  <2> SUFFICES ASSUME LogInv PROVE LogIntact
    OBVIOUS
  <2>1. LogTypes /\ DOMAIN file = 1..Len(file) /\ Len(file) \in Nat
    BY LenProperties DEF LogInv, LogTypes
  <2>2. acked \subseteq WholeIds
    BY <2>1 DEF LogInv, AckedOK, WholeIds
  <2>3. \A i, j \in DOMAIN file : file[i].id = file[j].id => i = j
    BY <2>1 DEF LogInv, FileOK
  <2>4. {i \in DOMAIN file : ~file[i].whole} = Halves
    BY <2>1 DEF Halves
  <2>5. holder # None => Len(file) \in Halves
    <3> SUFFICES ASSUME holder # None PROVE Len(file) \in Halves
      OBVIOUS
    <3>1. holder \in Writers
      BY <2>1 DEF LogTypes
    <3>2. PICK a \in 0..(Len(batch[holder]) - 1) : Written(holder, a)
      BY DEF LogInv, HolderOK
    <3>3. Len(batch[holder]) \in Nat
      BY <2>1, <3>1, BatchAt
    <3>4. a + 1 \in 1..Len(batch[holder]) /\ a + 1 <= Len(file) /\ a \in Nat
      BY <3>2, <3>3 DEF Written
    <3>5. batch[holder][a + 1] \in LineRecord
      BY <2>1, <3>1, <3>4, BatchAt
    <3>6. file[Len(file)] = Half(batch[holder][a + 1])
      BY <3>2 DEF Written
    <3>7. Half(batch[holder][a + 1]).whole = FALSE
      BY <3>5, HalfIs
    <3> QED BY <2>1, <3>4, <3>6, <3>7 DEF Halves
  <2> QED BY <2>2, <2>3, <2>4, <2>5 DEF LogInv, HalvesOK, LogIntact
<1> QED BY <1>1, LogInductive, PTL

\* A line that was in the file when Sync or Close returned nil survives every
\* crash, unless it was a Close whose own sync had failed.
THEOREM SyncedIsSafe == Spec => []SyncedLinesSurvive
<1>1. LogInv => SyncedLinesSurvive
  <2> SUFFICES ASSUME LogInv, ~swallowed, NEW i \in promised PROVE i \in WholeIds
    BY DEF SyncedLinesSurvive
  <2>1. PICK j \in 1..synced : file[j].id = i /\ file[j].whole
    BY DEF LogInv, PromisedOK
  <2>2. j \in DOMAIN file
    BY LenProperties DEF LogInv, LogTypes
  <2> QED BY <2>1, <2>2 DEF WholeIds
<1> QED BY <1>1, LogInductive, PTL

-----------------------------------------------------------------------------
(* Kinds and bounds *)

\* What the inductive invariant leaves open: the sizes of batches, the places of the
\* readers, and the bounds.
LogBounds ==
    /\ ended \in BOOLEAN /\ syncer \in {"none", "runs", "ended"} /\ closer \in {"no", "waits", "closed"}
    /\ \A w \in Writers : Len(batch[w]) \in {0} \cup Sizes
    /\ reader \in [Readers -> [goal : {"none", "count"}, pos : 0..Len(file), err : BOOLEAN]]
    /\ made <= MaxLines /\ faults <= MaxFaults /\ promised \subseteq 1..made

LEMMA WholeIsMade == LogInv => WholeIds \subseteq 1..made /\ acked \subseteq 1..made
<1> SUFFICES ASSUME LogInv PROVE WholeIds \subseteq 1..made /\ acked \subseteq 1..made
  OBVIOUS
<1>1. DOMAIN file = 1..Len(file) /\ \A i \in 1..Len(file) : file[i].id \in 1..made
  BY LenProperties DEF LogInv, LogTypes, FileOK
<1>2. WholeIds \subseteq 1..made
  BY <1>1 DEF WholeIds
<1>3. acked \subseteq 1..made
  BY <1>1 DEF LogInv, AckedOK
<1> QED BY <1>2, <1>3

\* Only a crash makes the file shorter.
LEMMA FileGrows ==
    ASSUME LogInv, AppendStep
    PROVE  Len(file) \in Nat /\ Len(file') \in Nat /\ Len(file) <= Len(file')
<1>1. LogTypes /\ BatchOK /\ HolderOK /\ Len(file) \in Nat
  BY LenProperties DEF LogInv, LogTypes
<1>2. PICK w \in Writers :
          \/ \E codes \in Batches : Begin(w, codes)
          \/ \E k \in 0..(Len(batch[w]) - 1) : StartWrite(w, k)
          \/ Refused(w) \/ FailWrite(w)
          \/ \E ok \in BOOLEAN : EndWrite(w, ok)
  BY DEF AppendStep
<1>3. Len(batch[w]) \in Nat
  BY <1>1, BatchAt
<1>4. CASE (\E codes \in Batches : Begin(w, codes)) \/ Refused(w) \/ FailWrite(w)
  BY <1>1, <1>4 DEF Begin, Refused, FailWrite
<1>5. ASSUME NEW k \in 0..(Len(batch[w]) - 1), StartWrite(w, k)
      PROVE  Len(file') \in Nat /\ Len(file) <= Len(file')
  BY <1>1, <1>3, <1>5, StartWriteIs
<1>6. ASSUME NEW ok \in BOOLEAN, EndWrite(w, ok)
      PROVE  Len(file') \in Nat /\ Len(file) <= Len(file')
  <2>1. holder = w /\ holder # None /\ file' = Continued(w)
    BY <1>6, LogConstantsOK DEF EndWrite
  <2>2. PICK k \in 0..(Len(batch[w]) - 1) : Written(w, k)
    BY <1>1, <2>1 DEF HolderOK
  <2>3. /\ \A i \in 1..Len(batch[w]) : batch[w][i].whole = TRUE
        /\ \A i, j \in 1..Len(batch[w]) : batch[w][i].id = batch[w][j].id => i = j
    BY <1>1 DEF BatchOK
  <2>4. Len(file') = (Len(file) - (k + 1)) + Len(batch[w])
    BY <1>1, <2>1, <2>2, <2>3, EndWriteIs
  <2> QED BY <1>1, <1>3, <2>4
<1> QED BY <1>1, <1>2, <1>4, <1>5, <1>6

\* A step of a goroutine that appends.
LEMMA AppendBounds ==
    ASSUME LogInv, LogBounds, AppendStep
    PROVE  LogBounds'
<1>1. /\ batch \in [Writers -> Seq(LineRecord)] /\ made \in Nat /\ faults \in Nat
      /\ MaxLines \in Nat /\ MaxFaults \in Nat /\ Sizes \subseteq Nat
  BY LogConstantsOK DEF LogInv, LogTypes
<1>2. PICK w \in Writers :
          \/ \E codes \in Batches : Begin(w, codes)
          \/ \E k \in 0..(Len(batch[w]) - 1) : StartWrite(w, k)
          \/ Refused(w) \/ FailWrite(w)
          \/ \E ok \in BOOLEAN : EndWrite(w, ok)
  BY DEF AppendStep
<1>3. UNCHANGED <<ended, syncer, closer, reader>>
  BY <1>2 DEF Begin, StartWrite, Refused, FailWrite, EndWrite, process
<1>4. Len(<<>>) = 0
  OBVIOUS
<1>5. faults' <= MaxFaults
  <2>1. faults' = faults \/ (faults' = faults + 1 /\ faults < MaxFaults)
    BY <1>2 DEF Begin, StartWrite, Refused, FailWrite, EndWrite
  <2> QED BY <1>1, <2>1 DEF LogBounds
<1>6. made' <= MaxLines
  BY <1>2 DEF LogBounds, Begin, StartWrite, Refused, FailWrite, EndWrite
<1>7. \A v \in Writers : Len(batch'[v]) \in {0} \cup Sizes
  <2>1. CASE \E codes \in Batches : Begin(w, codes)
    <3>1. PICK codes \in Batches : Begin(w, codes)
      BY <2>1
    <3>0. PICK size \in Sizes : codes \in [1..size -> Codes]
      BY DEF Batches
    <3> DEFINE b == [i \in DOMAIN codes |-> Line(made + i, codes[i])]
    <3>2. Len(b) = size
      BY <1>1, <3>0
    <3>3. batch' = [batch EXCEPT ![w] = b]
      BY <3>1 DEF Begin
    <3> HIDE DEF b
    <3> QED BY <1>1, <3>0, <3>2, <3>3 DEF LogBounds
  <2>2. CASE \E k \in 0..(Len(batch[w]) - 1) : StartWrite(w, k)
    BY <2>2 DEF StartWrite, LogBounds
  <2>3. CASE Refused(w) \/ FailWrite(w) \/ \E ok \in BOOLEAN : EndWrite(w, ok)
    <3>1. batch' = [batch EXCEPT ![w] = <<>>]
      BY <2>3 DEF Refused, FailWrite, EndWrite
    <3> QED BY <1>1, <1>4, <3>1 DEF LogBounds
  <2> QED BY <1>2, <2>1, <2>2, <2>3
<1>8. 0..Len(file) \subseteq 0..Len(file')
  BY FileGrows
<1>9. reader' \in [Readers -> [goal : {"none", "count"}, pos : 0..Len(file'), err : BOOLEAN]]
  BY <1>3, <1>8 DEF LogBounds
<1>10. promised' \subseteq 1..made'
  <2>1. made' \in Nat /\ made <= made'
    <3>1. made' = made \/ \E codes \in Batches : Begin(w, codes)
      BY <1>2 DEF StartWrite, Refused, FailWrite, EndWrite
    <3>2. ASSUME NEW codes \in Batches, Begin(w, codes) PROVE made' \in Nat /\ made <= made'
      <4>1. Len(codes) \in Nat
        BY <1>1 DEF Batches
      <4> QED BY <1>1, <3>2, <4>1 DEF Begin
    <3> QED BY <1>1, <3>1, <3>2
  <2>2. promised' = promised
    BY <1>2 DEF Begin, StartWrite, Refused, FailWrite, EndWrite, logHistory
  <2> QED BY <1>1, <2>1, <2>2 DEF LogBounds
<1> QED BY <1>3, <1>5, <1>6, <1>7, <1>9, <1>10 DEF LogBounds

\* A step of the syncer, of Sync or of Close, and Open.
LEMMA QuietBounds ==
    ASSUME LogInv, LogBounds,
           Open \/ SyncStep \/ CloseBegin \/ \E ok \in BOOLEAN : CloseEnd(ok)
    PROVE  LogBounds'
<1>1. faults \in Nat /\ MaxFaults \in Nat
  BY LogConstantsOK DEF LogInv, LogTypes
<1>2. UNCHANGED <<file, batch, reader, made>>
  BY DEF Open, SyncStep, ContextEnds, Sync, SyncerRound, CloseBegin, CloseEnd, writing
<1>3. ended' \in BOOLEAN /\ syncer' \in {"none", "runs", "ended"} /\ closer' \in {"no", "waits", "closed"}
  BY DEF LogBounds, Open, SyncStep, ContextEnds, Sync, SyncerRound, CloseBegin, CloseEnd, process
<1>4. faults' <= MaxFaults
  <2>1. faults' = faults \/ \E ok \in BOOLEAN : Fsync(ok)
    BY DEF Open, SyncStep, ContextEnds, Sync, SyncerRound, CloseBegin, CloseEnd, LastSync
  <2> QED BY <1>1, <2>1 DEF LogBounds, Fsync
<1>5. promised' \subseteq promised \cup WholeIds
  BY DEF Open, SyncStep, ContextEnds, Sync, SyncerRound, CloseBegin, CloseEnd, logHistory
<1>6. promised' \subseteq 1..made'
  BY <1>2, <1>5, WholeIsMade DEF LogBounds
<1> QED BY <1>2, <1>3, <1>4, <1>6 DEF LogBounds

LEMMA ReaderBounds ==
    ASSUME LogInv, LogBounds, NEW r \in Readers, BadLine(r) \/ CountLines(r)
    PROVE  LogBounds'
<1>1. /\ UNCHANGED <<file, batch, made, faults, ended, syncer, closer, promised>> /\ Len(file) \in Nat
      /\ reader \in [Readers -> [goal : {"none", "count"}, pos : 0..Len(file), err : BOOLEAN]]
  BY LenProperties DEF BadLine, CountLines, notReaders, process, writing, logHistory, LogInv, LogTypes, LogBounds
<1>2. \E f \in [goal : {"none", "count"}, pos : 0..Len(file), err : BOOLEAN] : reader' = [reader EXCEPT ![r] = f]
  <2>1. CASE BadLine(r)
    <3> DEFINE f == [reader[r] EXCEPT !.err = TRUE]
    <3>1. f \in [goal : {"none", "count"}, pos : 0..Len(file), err : BOOLEAN]
      BY <1>1
    <3> QED BY <2>1, <3>1 DEF BadLine
  <2>2. CASE CountLines(r) /\ ScanBegins(r, "count")
    <3> DEFINE f == [goal |-> "count", pos |-> 0, err |-> FALSE]
    <3>1. f \in [goal : {"none", "count"}, pos : 0..Len(file), err : BOOLEAN]
      BY <1>1
    <3> QED BY <2>2, <3>1 DEF ScanBegins
  <2>3. CASE OnLine(r) /\ Advance(r)
    <3> DEFINE f == [reader[r] EXCEPT !.pos = @ + 1]
    <3>1. f \in [goal : {"none", "count"}, pos : 0..Len(file), err : BOOLEAN]
      BY <1>1, <2>3 DEF OnLine
    <3>2. reader' = [reader EXCEPT ![r] = f]
      BY <1>1, <2>3 DEF Advance
    <3> QED BY <3>1, <3>2
  <2>4. CASE ScanEnds(r)
    <3>1. Resting \in [goal : {"none", "count"}, pos : 0..Len(file), err : BOOLEAN]
      BY <1>1 DEF Resting
    <3> QED BY <2>4, <3>1 DEF ScanEnds
  <2> QED BY <2>1, <2>2, <2>3, <2>4 DEF CountLines
<1> QED BY <1>1, <1>2 DEF LogBounds

LEMMA CrashBounds ==
    ASSUME LogInv, LogBounds, NEW rest, rest \in Seq(LineRecord), Crash(rest)
    PROVE  LogBounds'
<1>1. faults \in Nat /\ MaxFaults \in Nat /\ Len(rest) \in Nat
  BY LogConstantsOK, LenProperties DEF LogInv, LogTypes
<1>2. /\ file' = rest /\ syncer' = "none" /\ ended' = FALSE /\ closer' = "no" /\ made' = made /\ promised' = promised
      /\ batch' = [w \in Writers |-> <<>>] /\ reader' = [r \in Readers |-> Resting]
      /\ faults' = faults + 1 /\ faults < MaxFaults
  BY DEF Crash
<1>3. Resting \in [goal : {"none", "count"}, pos : 0..Len(rest), err : BOOLEAN]
  BY <1>1 DEF Resting
<1>4. reader' \in [Readers -> [goal : {"none", "count"}, pos : 0..Len(file'), err : BOOLEAN]]
  BY <1>2, <1>3
<1>5. \A w \in Writers : Len(batch'[w]) = 0
  BY <1>2
<1>6. faults' <= MaxFaults
  BY <1>1, <1>2
<1>7. made' <= MaxLines /\ promised' \subseteq 1..made'
  BY <1>2 DEF LogBounds
<1> QED BY <1>2, <1>4, <1>5, <1>6, <1>7 DEF LogBounds

\* Whatever happens, the disk is not ahead of the file nor a reader of its end, and who
\* holds the mutex has something to write (access_store.go Append, Scan).
THEOREM LogTyped == Spec => []LogTypeOK
<1>1. LogInit => LogBounds
  <2> SUFFICES ASSUME LogInit PROVE LogBounds
    OBVIOUS
  <2>1. file = <<>> /\ promised = {} /\ made = 0 /\ faults = 0 /\ ended = FALSE /\ syncer = "none" /\ closer = "no"
    BY DEF LogInit
  <2>2. Len(file) = 0 /\ \A w \in Writers : Len(batch[w]) = 0
    BY <2>1 DEF LogInit
  <2>3. Resting \in [goal : {"none", "count"}, pos : 0..Len(file), err : BOOLEAN]
    BY <2>2 DEF Resting
  <2>4. reader \in [Readers -> [goal : {"none", "count"}, pos : 0..Len(file), err : BOOLEAN]]
    BY <2>3 DEF LogInit
  <2>5. 0 <= MaxLines /\ 0 <= MaxFaults
    BY LogConstantsOK
  <2> QED BY <2>1, <2>2, <2>4, <2>5 DEF LogBounds
<1>2. LogInv /\ LogInv' /\ LogBounds /\ [LogNext]_logVars => LogBounds'
  <2> SUFFICES ASSUME LogInv, LogInv', LogBounds, [LogNext]_logVars PROVE LogBounds'
    OBVIOUS
  <2>1. CASE UNCHANGED logVars
    BY <2>1 DEF logVars, LogBounds
  <2>2. ASSUME NEW k \in synced..Len(file), NEW rest \in Left(k), Crash(rest) PROVE LogBounds'
    <3>1. rest \in Seq(LineRecord)
      BY <2>2 DEF LogInv, LogTypes, Crash
    <3> QED BY <2>2, <3>1, CrashBounds
  <2> QED BY <2>1, <2>2, AppendBounds, QuietBounds, ReaderBounds DEF LogNext
<1>3. LogInv /\ LogBounds => LogTypeOK
  <2> SUFFICES ASSUME LogInv, LogBounds PROVE LogTypeOK
    OBVIOUS
  <2>1. LogTypes /\ FileOK /\ MaxLines \in Nat /\ made \in Nat /\ Len(file) \in Nat
    BY LogConstantsOK, LenProperties DEF LogInv, LogTypes
  <2>2. file \in Seq([id : 1..MaxLines, code : Codes, whole : BOOLEAN])
    <3>1. ASSUME NEW i \in 1..Len(file) PROVE file[i] \in [id : 1..MaxLines, code : Codes, whole : BOOLEAN]
      <4>1. file[i] \in LineRecord /\ file[i].id \in 1..made /\ made <= MaxLines
        BY <2>1, LineAt DEF FileOK, LogBounds
      <4>2. file[i].id \in 1..MaxLines
        BY <2>1, <4>1
      <4> QED BY <4>1, <4>2 DEF LineRecord
    <3>2. DOMAIN file = 1..Len(file) /\ file = [i \in DOMAIN file |-> file[i]]
      BY <2>1, LenProperties DEF LogTypes
    <3> DEFINE lines == [id : 1..MaxLines, code : Codes, whole : BOOLEAN]
    <3>3. \A i \in 1..Len(file) : file[i] \in lines
      BY <3>1
    <3> HIDE DEF lines
    <3>4. file \in [1..Len(file) -> lines]
      BY <3>2, <3>3
    <3>5. file \in Seq(lines)
      BY <2>1, <3>4, SeqDef
    <3> QED BY <3>5 DEF lines
  <2>3. holder # None => holder \in Writers /\ batch[holder] # <<>>
    <3> SUFFICES ASSUME holder # None PROVE holder \in Writers /\ batch[holder] # <<>>
      OBVIOUS
    <3>1. holder \in Writers
      BY <2>1 DEF LogTypes
    <3>2. Len(batch[holder]) \in Nat /\ \E k \in 0..(Len(batch[holder]) - 1) : TRUE
      BY <2>1, <3>1, BatchAt DEF LogInv, HolderOK
    <3> QED BY <3>1, <3>2
  <2>4. \A r \in Readers : reader[r].pos \in 0..Len(file) /\ reader[r].err \in BOOLEAN
    BY DEF LogBounds
  <2>5. made \in 0..MaxLines /\ faults \in 0..MaxFaults
    BY <2>1, LogConstantsOK DEF LogTypes, LogBounds
  <2>6. {ready, open, ended, swallowed} \subseteq BOOLEAN /\ synced \in 0..Len(file)
    BY <2>1 DEF LogTypes, LogBounds
  <2>7. /\ syncer \in {"none", "runs", "ended"} /\ closer \in {"no", "waits", "closed"}
        /\ \A w \in Writers : Len(batch[w]) \in {0} \cup Sizes
    BY DEF LogBounds
  <2>8. acked \subseteq 1..MaxLines /\ promised \subseteq 1..MaxLines
    <3>1. 1..made \subseteq 1..MaxLines
      BY <2>1 DEF LogBounds
    <3> QED BY <3>1, WholeIsMade DEF LogBounds
  <2> QED BY <2>2, <2>3, <2>4, <2>5, <2>6, <2>7, <2>8 DEF LogTypeOK
<1> QED BY <1>1, <1>2, <1>3, LogInductive, LogBehaves, PTL
=============================================================================
