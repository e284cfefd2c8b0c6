-------------------------- MODULE StatisticsProofs --------------------------
(***************************************************************************)
(* What the reports of Statistics are worth for every number of requests,  *)
(* codes, writers and lines, and every limit of the scans and the cache.   *)
(*                                                                         *)
(* Inductive: a scan has counted the lines of its code up to its position, *)
(* which later appends leave as they are; a report on its way and one in   *)
(* the cache count what they say, of a prefix that has what was in the log *)
(* when the report was begun.                                              *)
(***************************************************************************)
EXTENDS Statistics, SequenceTheorems, FiniteSetTheorems, TLAPS

LineRecord == [id : 1..MaxLines, code : Codes, whole : BOOLEAN]
Decoder == [goal : {"none", "first", "second"}, pos : Nat, err : BOOLEAN]
Question == [step : {"first", "second", "store"}, code : Codes, asked : Asked]
Data == [pv : Nat, upTo : Nat, daily : Nat, dailyUpTo : Nat, least : Nat, began : Nat, cut : BOOLEAN]
Entry == [code : Codes, days : 1..90, exp : Nat, data : Data]

-----------------------------------------------------------------------------
(* The inductive invariant *)

\* LogTypeOK, without a Close that is waited for.
LogTypes ==
    /\ file \in Seq(LineRecord) /\ synced \in 0..Len(file)
    /\ ready \in BOOLEAN /\ open \in BOOLEAN /\ ended \in BOOLEAN /\ swallowed \in BOOLEAN
    /\ ready = open /\ (open => closer = "no")
    /\ syncer \in {"none", "runs", "ended"} /\ closer \in {"no", "closed"}
    /\ holder # None => holder \in Writers /\ batch[holder] # <<>> /\ file # <<>>
    /\ batch \in [Writers -> Seq(LineRecord)]
    /\ \A w \in Writers : Len(batch[w]) \in {0} \cup Sizes
    /\ made \in 0..MaxLines /\ faults \in 0..MaxFaults
    /\ acked \subseteq 1..MaxLines /\ promised \subseteq 1..MaxLines

StatTypes ==
    /\ now \in 0..MaxTime /\ begun \in 0..MaxReports
    /\ reader \in [Readers -> Decoder]
    /\ request \in [Readers -> {NoRequest} \cup Question]
    /\ report \in [Readers -> Data]
    /\ cache \in [DOMAIN cache -> Entry] /\ DOMAIN cache \subseteq Codes \X (1..90)

\* What a scan finds in the log only grows.
TimesOK ==
    /\ lenAt \in Seq(Nat) /\ Len(lenAt) = now
    /\ \A i \in 1..now : lenAt[i] <= MaxRec /\ lenAt[i] <= Len(file)
    /\ \A i, j \in 1..now : i <= j => lenAt[i] <= lenAt[j]

\* A report has at least what was there when it was begun ...
Dated(d) ==
    /\ d.began <= now /\ d.least <= MaxRec /\ d.least <= Len(file)
    /\ \A i \in 1..d.began : lenAt[i] <= d.least

\* ... and its total is that of a first part of the log, ...
Totalled(code, d) ==
    /\ d.upTo >= d.least /\ d.upTo <= MaxRec /\ d.upTo <= Len(file)
    /\ d.pv = LinesOf(code, d.upTo)

\* ... as are its days, unless the log was closed.
Broken(code, d) ==
    IF d.cut THEN d.daily = 0 /\ closer = "closed"
    ELSE /\ d.dailyUpTo >= d.upTo /\ d.dailyUpTo <= MaxRec /\ d.dailyUpTo <= Len(file)
         /\ d.daily = LinesOf(code, d.dailyUpTo)

Sound(code, d) == Dated(d) /\ Totalled(code, d) /\ Broken(code, d)

ScanOK(q, d, scan) ==
    /\ scan.pos <= Len(file) /\ scan.pos <= MaxRec /\ (scan.goal = "none" => scan.pos = 0)
    /\ q.step = "none" => d = NoReport /\ scan.goal = "none"
    /\ q.step # "none" => (open \/ closer = "closed") /\ Dated(d)
    /\ q.step = "first" =>
        scan.goal = "first" /\ d.pv = LinesOf(q.code, scan.pos) /\ d.daily = 0 /\ ~d.cut
    /\ q.step = "second" =>
        /\ scan.goal \in {"none", "second"} /\ Totalled(q.code, d)
        /\ d.daily = LinesOf(q.code, scan.pos) /\ ~d.cut
    /\ q.step = "store" => scan.goal = "none" /\ Totalled(q.code, d) /\ Broken(q.code, d)

ReaderOK(r) == ScanOK(request[r], report[r], reader[r])

\* An entry is for its key, and was put there TTL before it expires.
EntryOK(k) ==
    /\ cache[k].code = k[1] /\ cache[k].days = k[2]
    /\ cache[k].exp - TTL >= cache[k].data.began /\ cache[k].exp - TTL <= now
    /\ Sound(k[1], cache[k].data)

\* Above CacheMax nothing is left that had expired when the last was put there.
SizeOK ==
    /\ IsFiniteSet(DOMAIN cache)
    /\ Cardinality(DOMAIN cache) > CacheMax =>
        \A k, last \in DOMAIN cache : cache[k].exp >= cache[last].exp - TTL

StatInv ==
    /\ LogTypes /\ StatTypes /\ TimesOK
    /\ \A r \in Readers : ReaderOK(r)
    /\ \A k \in DOMAIN cache : EntryOK(k)
    /\ SizeOK

-----------------------------------------------------------------------------
(* The log under the reports *)

LEMMA Limits ==
    /\ MaxRec \in Nat /\ MaxRec > 0 /\ CacheMax \in Nat /\ TTL \in Nat
    /\ MaxTime \in Nat /\ MaxReports \in Nat /\ MaxLines \in Nat /\ MaxFaults \in Nat
    /\ Sizes \subseteq Nat \ {0} /\ None \notin Writers
BY StatsConstantsOK, LogConstantsOK

\* What nothing undoes: lines stay where they are, with their code, and a log that
\* was closed stays so.
Ahead ==
    /\ Len(file) <= Len(file') /\ \A i \in 1..Len(file) : file'[i].code = file[i].code
    /\ (open \/ closer = "closed") => (open' \/ closer' = "closed")
    /\ closer = "closed" => closer' = "closed"
    /\ now <= now' /\ \A i \in 1..now : lenAt'[i] = lenAt[i]

LEMMA LineAt ==
    ASSUME LogTypes
    PROVE  /\ Len(file) \in Nat /\ DOMAIN file = 1..Len(file)
           /\ \A i \in 1..Len(file) : file[i] \in LineRecord
BY DEF LogTypes

LEMMA BatchAt ==
    ASSUME LogTypes, NEW w \in Writers
    PROVE  /\ batch[w] \in Seq(LineRecord) /\ Len(batch[w]) \in Nat
           /\ DOMAIN batch[w] = 1..Len(batch[w])
           /\ \A i \in 1..Len(batch[w]) : batch[w][i] \in LineRecord
<1>1. batch[w] \in Seq(LineRecord)
  BY DEF LogTypes
<1> QED BY <1>1

LEMMA HalfIs ==
    ASSUME NEW line \in LineRecord
    PROVE  Half(line) \in LineRecord /\ Half(line).code = line.code /\ Half(line).id = line.id
BY DEF Half, LineRecord

LEMMA OpenTypes ==
    ASSUME LogTypes, Open
    PROVE  LogTypes'
BY DEF LogTypes, Open, writing, logHistory

LEMMA ClosedTypes ==
    ASSUME LogTypes, Closed
    PROVE  LogTypes'
BY DEF LogTypes, Closed, writing, logHistory

LEMMA BeginTypes ==
    ASSUME LogTypes, NEW w \in Writers, NEW codes \in Batches, Begin(w, codes)
    PROVE  LogTypes'
<1>1. PICK size \in Sizes : codes \in [1..size -> Codes]
  BY DEF Batches
<1>2. size \in Nat /\ size > 0 /\ Len(codes) = size /\ codes \in Seq(Codes)
  BY <1>1, Limits
<1>3. made \in Nat /\ made + size <= MaxLines /\ made' = made + size
  BY <1>2, Limits DEF LogTypes, Begin
<1> DEFINE lines == [i \in DOMAIN codes |-> Line(made + i, codes[i])]
<1>4. lines \in Seq(LineRecord) /\ Len(lines) = size
  <2>1. lines = [i \in 1..size |-> Line(made + i, codes[i])]
    BY <1>1
  <2>2. \A i \in 1..size : Line(made + i, codes[i]) \in LineRecord
    <3> TAKE i \in 1..size
    <3>1. made + i \in 1..MaxLines
      BY <1>2, <1>3, Limits
    <3>2. codes[i] \in Codes
      BY <1>1
    <3> QED BY <3>1, <3>2 DEF Line, LineRecord
  <2> QED BY <1>2, <2>1, <2>2
<1>5. batch' = [batch EXCEPT ![w] = lines]
  BY DEF Begin
<1> HIDE DEF lines
<1>6. \A v \in Writers : batch'[v] = IF v = w THEN lines ELSE batch[v]
  BY <1>5 DEF LogTypes
<1>7. batch' \in [Writers -> Seq(LineRecord)]
  BY <1>4, <1>5 DEF LogTypes
<1>8. \A v \in Writers : Len(batch'[v]) \in {0} \cup Sizes
  BY <1>4, <1>6 DEF LogTypes
<1>9. lines # <<>>
  BY <1>2, <1>4
<1>10. holder # None => batch'[holder] # <<>>
  BY <1>6, <1>9 DEF LogTypes
<1>11. made' \in 0..MaxLines
  BY <1>2, <1>3, Limits
<1> QED BY <1>7, <1>8, <1>10, <1>11 DEF LogTypes, Begin, process, logHistory

\* A batch that is done with.
LEMMA Emptied ==
    ASSUME LogTypes, NEW w \in Writers, batch' = [batch EXCEPT ![w] = <<>>]
    PROVE  /\ batch' \in [Writers -> Seq(LineRecord)]
           /\ \A v \in Writers : Len(batch'[v]) \in {0} \cup Sizes
<1>1. \A v \in Writers : batch'[v] = IF v = w THEN <<>> ELSE batch[v]
  BY DEF LogTypes
<1>2. batch' \in [Writers -> Seq(LineRecord)]
  BY DEF LogTypes
<1>3. \A v \in Writers : Len(batch'[v]) \in {0} \cup Sizes
  BY <1>1 DEF LogTypes
<1> QED BY <1>2, <1>3

LEMMA RefusedTypes ==
    ASSUME LogTypes, NEW w \in Writers, Refused(w)
    PROVE  LogTypes'
<1>1. /\ batch' \in [Writers -> Seq(LineRecord)]
      /\ \A v \in Writers : Len(batch'[v]) \in {0} \cup Sizes
  BY Emptied DEF Refused
<1>2. holder' = None
  BY DEF Refused
<1> QED BY <1>1, <1>2 DEF LogTypes, Refused, process, logHistory

LEMMA FailWriteTypes ==
    ASSUME LogTypes, NEW w \in Writers, FailWrite(w)
    PROVE  LogTypes'
<1>1. /\ batch' \in [Writers -> Seq(LineRecord)]
      /\ \A v \in Writers : Len(batch'[v]) \in {0} \cup Sizes
  BY Emptied DEF FailWrite
<1>2. holder' = None /\ faults' \in 0..MaxFaults
  BY Limits DEF FailWrite, LogTypes
<1> QED BY <1>1, <1>2 DEF LogTypes, FailWrite, process, logHistory

\* A write appends to the file.
LEMMA StartWriteTypes ==
    ASSUME LogTypes, NEW w \in Writers, NEW k \in 0..(Len(batch[w]) - 1), StartWrite(w, k)
    PROVE  /\ LogTypes' /\ Len(file) <= Len(file')
           /\ \A i \in 1..Len(file) : file'[i] = file[i]
<1>1. /\ batch[w] \in Seq(LineRecord) /\ Len(batch[w]) \in Nat
      /\ \A i \in 1..Len(batch[w]) : batch[w][i] \in LineRecord
      /\ Len(file) \in Nat /\ file \in Seq(LineRecord)
  BY BatchAt DEF LogTypes
<1> DEFINE p == SubSeq(batch[w], 1, k)
           h == Half(batch[w][k + 1])
           l == <<h>>
           s == file \o p
<1>2. k \in Nat /\ k + 1 \in 1..Len(batch[w])
  BY <1>1
<1>3. p \in Seq(LineRecord) /\ Len(p) = k
  BY <1>1, <1>2, SubSeqProperties
<1>4. h \in LineRecord
  BY <1>1, <1>2, HalfIs
<1>5. file' = s \o l
  BY DEF StartWrite
<1> HIDE DEF h, p
<1>6. l \in Seq(LineRecord) /\ Len(l) = 1
  BY <1>4
<1> HIDE DEF l
<1>7. /\ s \in Seq(LineRecord) /\ Len(s) = Len(file) + k
      /\ \A i \in 1..Len(file) + k : s[i] = IF i <= Len(file) THEN file[i] ELSE p[i - Len(file)]
  BY <1>1, <1>3, ConcatProperties
<1> HIDE DEF s
<1>8. PICK m \in Nat : m = Len(file)
  BY <1>1
<1>9. /\ s \o l \in Seq(LineRecord) /\ Len(s \o l) = Len(s) + Len(l)
      /\ \A i \in 1..(Len(s) + Len(l)) : (s \o l)[i] = IF i <= Len(s) THEN s[i] ELSE l[i - Len(s)]
  <2>1. s \in Seq(LineRecord)
    BY <1>7
  <2>2. l \in Seq(LineRecord)
    BY <1>6
  <2> QED BY <2>1, <2>2, ConcatProperties
<1>10. /\ file' \in Seq(LineRecord) /\ Len(file') = Len(s) + Len(l)
       /\ \A i \in 1..(Len(s) + Len(l)) : file'[i] = IF i <= Len(s) THEN s[i] ELSE l[i - Len(s)]
  BY <1>5, <1>9, Zenon
<1>11. Len(file') = (m + k) + 1
  BY <1>6, <1>7, <1>8, <1>10
<1>12. \A i \in 1..m : file'[i] = file[i]
  <2> TAKE i \in 1..m
  <2>1. i \in 1..(Len(s) + Len(l)) /\ i <= Len(s) /\ i \in 1..Len(file) + k /\ i <= Len(file)
    BY <1>2, <1>6, <1>7, <1>8
  <2> QED BY <1>7, <1>10, <2>1
<1>13. file' # <<>>
  <2>1. Len(file') # 0
    BY <1>2, <1>8, <1>11
  <2> QED BY <2>1
<1>14. batch[w] # <<>>
  BY <1>2
<1>15. synced \in 0..Len(file')
  <2>1. m <= Len(file') /\ Len(file') \in Nat
    BY <1>2, <1>8, <1>11
  <2> QED BY <1>8, <2>1 DEF LogTypes
<1>16. LogTypes'
  BY <1>10, <1>13, <1>14, <1>15 DEF LogTypes, StartWrite, process, logHistory
<1>17. Len(file) <= Len(file')
  BY <1>2, <1>8, <1>11
<1> QED BY <1>8, <1>12, <1>16, <1>17

\* The rest of a write makes the last line whole or follows it.
LEMMA EndWriteTypes ==
    ASSUME LogTypes, NEW w \in Writers, NEW ok \in BOOLEAN, EndWrite(w, ok)
    PROVE  /\ LogTypes' /\ Len(file) <= Len(file')
           /\ \A i \in 1..Len(file) : file'[i].code = file[i].code
<1>1. /\ batch[w] \in Seq(LineRecord) /\ Len(batch[w]) \in Nat
      /\ DOMAIN batch[w] = 1..Len(batch[w])
      /\ \A i \in 1..Len(batch[w]) : batch[w][i] \in LineRecord
  BY BatchAt
<1>2. batch[w] # <<>> /\ file # <<>> /\ file \in Seq(LineRecord)
  <2>1. holder = w /\ w # None
    BY Limits DEF EndWrite
  <2> QED BY <2>1 DEF LogTypes
<1>3. PICK m \in Nat : Len(file) = m + 1
  <2>1. Len(file) \in Nat /\ Len(file) # 0
    BY <1>2
  <2> QED BY <2>1
<1>4. \A i \in 1..(m + 1) : file[i] \in LineRecord
  BY <1>3, LineAt
<1> DEFINE half == Last(file)
           whole == [half EXCEPT !.whole = TRUE]
           cut == CHOOSE i \in DOMAIN batch[w] : batch[w][i].id = half.id
           left == SubSeq(batch[w], cut + 1, Len(batch[w]))
           f == Front(file)
           l == <<whole>>
           s == f \o l
           t == s \o left
           h == Half(Last(batch[w]))
           u == file \o <<h>>
<1>5. half = file[m + 1] /\ half \in LineRecord
  BY <1>3, <1>4 DEF Last
<1>6. whole \in LineRecord /\ whole.code = half.code
  <2> HIDE DEF half
  <2> QED BY <1>5 DEF LineRecord
<1>7. file' = IF half.id \in Ids(batch[w]) THEN t ELSE u
  BY DEF EndWrite, Continued
<1>8. half.id \in Ids(batch[w]) => cut \in 1..Len(batch[w])
  <2> HIDE DEF half
  <2> QED BY <1>1 DEF Ids
<1> HIDE DEF half, cut
<1>9. ASSUME half.id \in Ids(batch[w])
      PROVE  /\ file' \in Seq(LineRecord) /\ Len(file') >= m + 1
             /\ \A i \in 1..(m + 1) : file'[i].code = file[i].code
  <2>1. left \in Seq(LineRecord) /\ Len(left) \in Nat
    <3>1. cut + 1 \in Int /\ \A i \in (cut + 1)..Len(batch[w]) : batch[w][i] \in LineRecord
      BY <1>1, <1>8, <1>9
    <3>2. left \in Seq(LineRecord)
      BY <1>1, <3>1, SubSeqProperties
    <3> QED BY <3>2
  <2> HIDE DEF left
  <2>2. f \in Seq(LineRecord) /\ Len(f) = m /\ \A i \in 1..m : f[i] = file[i]
    <3>1. f = SubSeq(file, 1, m)
      <4>1. Len(file) - 1 = m
        BY <1>3
      <4> QED BY <4>1 DEF Front
    <3> HIDE DEF f
    <3>2. \A i \in 1..m : file[i] \in LineRecord
      BY <1>4
    <3>3. /\ SubSeq(file, 1, m) \in Seq(LineRecord)
          /\ Len(SubSeq(file, 1, m)) = (IF 1 <= m THEN m - 1 + 1 ELSE 0)
          /\ \A i \in 1..(m - 1 + 1) : SubSeq(file, 1, m)[i] = file[1 + i - 1]
      BY <3>2, SubSeqProperties
    <3>4. Len(f) = m
      BY <3>1, <3>3
    <3>5. ASSUME NEW i \in 1..m PROVE f[i] = file[i]
      <4>1. i \in 1..(m - 1 + 1) /\ 1 + i - 1 = i
        OBVIOUS
      <4> QED BY <3>1, <3>3, <4>1
    <3> QED BY <3>1, <3>3, <3>4, <3>5
  <2> HIDE DEF f
  <2> HIDE DEF whole
  <2>3. l \in Seq(LineRecord) /\ Len(l) = 1 /\ l[1] = whole
    BY <1>6
  <2> HIDE DEF l
  <2>4. /\ s \in Seq(LineRecord) /\ Len(s) = Len(f) + Len(l)
        /\ \A i \in 1..(Len(f) + Len(l)) : s[i] = IF i <= Len(f) THEN f[i] ELSE l[i - Len(f)]
    BY <2>2, <2>3, ConcatProperties
  <2> HIDE DEF s
  <2>5. /\ t \in Seq(LineRecord) /\ Len(t) = Len(s) + Len(left)
        /\ \A i \in 1..(Len(s) + Len(left)) : t[i] = IF i <= Len(s) THEN s[i] ELSE left[i - Len(s)]
    <3>1. s \in Seq(LineRecord)
      BY <2>4
    <3>2. left \in Seq(LineRecord)
      BY <2>1
    <3> QED BY <3>1, <3>2, ConcatProperties
  <2> HIDE DEF t
  <2>6. Len(s) = m + 1 /\ Len(t) >= m + 1
    BY <2>1, <2>2, <2>3, <2>4, <2>5
  <2>7. ASSUME NEW i \in 1..(m + 1) PROVE t[i].code = file[i].code
    <3>1. t[i] = s[i]
      BY <2>1, <2>5, <2>6
    <3>2. CASE i <= m
      <4>1. s[i] = f[i] /\ f[i] = file[i]
        BY <2>2, <2>3, <2>4, <3>2
      <4> QED BY <3>1, <4>1
    <3>3. CASE ~(i <= m)
      <4>1. i = m + 1 /\ (m + 1) - m = 1
        BY <3>3
      <4>2. s[m + 1] = l[(m + 1) - m]
        BY <2>2, <2>3, <2>4
      <4> QED BY <1>5, <1>6, <2>3, <3>1, <4>1, <4>2
    <3> QED BY <3>2, <3>3
  <2>8. file' = t
    BY <1>7, <1>9
  <2> QED BY <2>5, <2>6, <2>7, <2>8
<1>10. ASSUME half.id \notin Ids(batch[w])
       PROVE  /\ file' \in Seq(LineRecord) /\ Len(file') >= m + 1
              /\ \A i \in 1..(m + 1) : file'[i].code = file[i].code
  <2>1. h \in LineRecord
    <3>1. Len(batch[w]) \in 1..Len(batch[w])
      BY <1>1, <1>2
    <3> QED BY <1>1, <3>1, HalfIs DEF Last
  <2> HIDE DEF h
  <2> DEFINE e == <<h>>
  <2>2. e \in Seq(LineRecord) /\ Len(e) = 1
    BY <2>1
  <2> HIDE DEF e
  <2>3. /\ file \o e \in Seq(LineRecord) /\ Len(file \o e) = Len(file) + Len(e)
        /\ \A i \in 1..(Len(file) + Len(e)) : (file \o e)[i] = IF i <= Len(file) THEN file[i] ELSE e[i - Len(file)]
    BY <1>2, <2>2, ConcatProperties
  <2>4. u = file \o e
    BY DEF e
  <2> HIDE DEF u
  <2>5. u \in Seq(LineRecord) /\ Len(u) >= m + 1
    BY <1>3, <2>2, <2>3, <2>4
  <2>6. \A i \in 1..(m + 1) : u[i] = file[i]
    BY <1>3, <2>2, <2>3, <2>4
  <2>7. file' = u
    BY <1>7, <1>10
  <2> QED BY <2>5, <2>6, <2>7
<1>11. /\ file' \in Seq(LineRecord) /\ Len(file') >= m + 1
       /\ \A i \in 1..(m + 1) : file'[i].code = file[i].code
  BY <1>9, <1>10
<1>12. synced' \in 0..Len(file') /\ faults' \in 0..MaxFaults
  <2>1. synced \in 0..(m + 1) /\ Len(file') \in Nat /\ faults \in 0..MaxFaults
    BY <1>3, <1>11 DEF LogTypes
  <2>2. synced' = synced \/ synced' = Len(file')
    BY DEF EndWrite
  <2>3. faults' = faults \/ (faults < MaxFaults /\ faults' = faults + 1)
    BY DEF EndWrite
  <2> QED BY <1>11, <2>1, <2>2, <2>3, Limits
<1>13. /\ batch' \in [Writers -> Seq(LineRecord)]
       /\ \A v \in Writers : Len(batch'[v]) \in {0} \cup Sizes
  BY Emptied DEF EndWrite
<1>14. Ids(batch[w]) \subseteq 1..MaxLines
  BY <1>1 DEF Ids, LineRecord
<1>15. acked' \subseteq 1..MaxLines
  BY <1>14 DEF EndWrite, LogTypes
<1>16. holder' = None
  BY DEF EndWrite
<1>17. LogTypes'
  BY <1>11, <1>12, <1>13, <1>15, <1>16 DEF LogTypes, EndWrite, process
<1> QED BY <1>3, <1>11, <1>17

\* A step of the log as the service sees it.
LEMMA LogStepOK ==
    ASSUME LogTypes, TimesOK, StatTypes, LogStep, UNCHANGED statsVars
    PROVE  /\ LogTypes' /\ Ahead
           /\ \A r \in Readers : /\ reader'[r].goal = reader[r].goal /\ reader'[r].pos = reader[r].pos
                                 /\ reader'[r] \in Decoder
           /\ reader' \in [Readers -> Decoder]
<1>1. now' = now /\ lenAt' = lenAt /\ now \in Nat /\ Len(file) \in Nat
  BY Limits, LineAt DEF statsVars, StatTypes
<1>2. \A r \in Readers : reader[r] \in Decoder
  BY DEF StatTypes
<1>3. ASSUME reader' = reader
      PROVE  /\ \A r \in Readers : /\ reader'[r].goal = reader[r].goal /\ reader'[r].pos = reader[r].pos
                                   /\ reader'[r] \in Decoder
             /\ reader' \in [Readers -> Decoder]
  BY <1>2, <1>3 DEF StatTypes
<1>4. CASE Open
  <2>1. LogTypes'
    BY <1>4, OpenTypes
  <2>2. file' = file /\ reader' = reader /\ open' = TRUE /\ closer # "closed"
    BY <1>4 DEF Open
  <2>3. Ahead
    BY <1>1, <2>2 DEF Ahead
  <2> QED BY <1>3, <2>1, <2>2, <2>3
<1>5. CASE Closed
  <2>1. LogTypes'
    BY <1>5, ClosedTypes
  <2>2. file' = file /\ reader' = reader /\ closer' = "closed"
    BY <1>5 DEF Closed
  <2>3. Ahead
    BY <1>1, <2>2 DEF Ahead
  <2> QED BY <1>3, <2>1, <2>2, <2>3
<1>6. CASE \E r \in Readers : BadLine(r)
  <2>1. PICK r \in Readers : BadLine(r)
    BY <1>6
  <2>2. UNCHANGED notReaders /\ reader' = [reader EXCEPT ![r].err = TRUE]
    BY <2>1 DEF BadLine
  <2>3. UNCHANGED <<file, synced, ready, open, syncer, ended, closer, holder, batch, made, faults, acked, promised, swallowed>>
    BY <2>2 DEF notReaders, process, writing, logHistory
  <2>4. LogTypes' /\ Ahead
    BY <1>1, <2>3 DEF LogTypes, Ahead
  <2>5. \A q \in Readers : /\ reader'[q].goal = reader[q].goal /\ reader'[q].pos = reader[q].pos
                           /\ reader'[q] \in Decoder
    BY <1>2, <2>2 DEF Decoder, StatTypes
  <2>6. reader' \in [Readers -> Decoder]
    <3>1. DOMAIN reader = Readers
      BY DEF StatTypes
    <3>2. reader' = [q \in Readers |-> reader'[q]]
      BY <2>2, <3>1
    <3> QED BY <2>5, <3>2
  <2> QED BY <2>4, <2>5, <2>6
<1>7. CASE AppendStep
  <2>1. PICK w \in Writers :
           \/ \E codes \in Batches : Begin(w, codes)
           \/ \E k \in 0..(Len(batch[w]) - 1) : StartWrite(w, k)
           \/ Refused(w) \/ FailWrite(w)
           \/ \E ok \in BOOLEAN : EndWrite(w, ok)
    BY <1>7 DEF AppendStep
  <2>2. CASE \E codes \in Batches : Begin(w, codes)
    <3>1. LogTypes'
      BY <2>2, BeginTypes
    <3>2. UNCHANGED <<file, open, closer, reader>>
      BY <2>2 DEF Begin, process
    <3>3. Ahead
      BY <1>1, <3>2 DEF Ahead
    <3> QED BY <1>3, <3>1, <3>2, <3>3
  <2>3. CASE Refused(w) \/ FailWrite(w)
    <3>1. LogTypes'
      BY <2>3, RefusedTypes, FailWriteTypes
    <3>2. UNCHANGED <<file, open, closer, reader>>
      BY <2>3 DEF Refused, FailWrite, process
    <3>3. Ahead
      BY <1>1, <3>2 DEF Ahead
    <3> QED BY <1>3, <3>1, <3>2, <3>3
  <2>4. CASE \E k \in 0..(Len(batch[w]) - 1) : StartWrite(w, k)
    <3>1. /\ LogTypes' /\ Len(file) <= Len(file')
          /\ \A i \in 1..Len(file) : file'[i] = file[i]
      BY <2>4, StartWriteTypes
    <3>2. UNCHANGED <<open, closer, reader>>
      BY <2>4 DEF StartWrite, process
    <3>3. Ahead
      BY <1>1, <3>1, <3>2 DEF Ahead
    <3> QED BY <1>3, <3>1, <3>2, <3>3
  <2>5. CASE \E ok \in BOOLEAN : EndWrite(w, ok)
    <3>1. /\ LogTypes' /\ Len(file) <= Len(file')
          /\ \A i \in 1..Len(file) : file'[i].code = file[i].code
      BY <2>5, EndWriteTypes
    <3>2. UNCHANGED <<open, closer, reader>>
      BY <2>5 DEF EndWrite, process
    <3>3. Ahead
      BY <1>1, <3>1, <3>2 DEF Ahead
    <3> QED BY <1>3, <3>1, <3>2, <3>3
  <2> QED BY <2>1, <2>2, <2>3, <2>4, <2>5
<1> QED BY <1>4, <1>5, <1>6, <1>7 DEF LogStep

-----------------------------------------------------------------------------
(* Counting lines *)

LEMMA NoLines == ASSUME NEW code PROVE LinesOf(code, 0) = 0
<1>1. {i \in 1..0 : file[i].code = code} = {}
  OBVIOUS
<1> QED BY <1>1, FS_EmptySet DEF LinesOf

LEMMA LinesBound ==
    ASSUME NEW code, NEW size \in Nat
    PROVE  LinesOf(code, size) \in 0..size
<1> DEFINE S == {i \in 1..size : file[i].code = code}
<1>1. IsFiniteSet(1..size) /\ Cardinality(1..size) = size
  <2>1. Cardinality(1..size) = IF 1 > size THEN 0 ELSE size - 1 + 1
    BY FS_Interval
  <2> QED BY <2>1, FS_Interval
<1>2. S \in SUBSET (1..size)
  OBVIOUS
<1>3. IsFiniteSet(S) /\ Cardinality(S) <= size
  BY <1>1, <1>2, FS_Subset
<1>4. Cardinality(S) \in Nat
  BY <1>3, FS_CardinalityType
<1> QED BY <1>3, <1>4 DEF LinesOf

LEMMA LinesNext ==
    ASSUME NEW code, NEW size \in Nat
    PROVE  LinesOf(code, size + 1) = LinesOf(code, size) + (IF file[size + 1].code = code THEN 1 ELSE 0)
<1> DEFINE S == {i \in 1..size : file[i].code = code}
           T == {i \in 1..(size + 1) : file[i].code = code}
<1>1. IsFiniteSet(S)
  <2>1. IsFiniteSet(1..size)
    BY FS_Interval
  <2>2. S \in SUBSET (1..size)
    OBVIOUS
  <2> QED BY <2>1, <2>2, FS_Subset
<1>2. CASE file[size + 1].code = code
  <2>1. T = S \cup {size + 1} /\ size + 1 \notin S
    BY <1>2
  <2> HIDE DEF S, T
  <2>2. Cardinality(T) = Cardinality(S) + 1
    BY <1>1, <2>1, FS_AddElement
  <2> QED BY <1>2, <2>2 DEF LinesOf, S, T
<1>3. CASE file[size + 1].code # code
  <2>1. T = S
    BY <1>3
  <2>2. Cardinality(S) \in Nat
    BY <1>1, FS_CardinalityType
  <2>3. LinesOf(code, size + 1) = Cardinality(T) /\ LinesOf(code, size) = Cardinality(S)
    BY DEF LinesOf
  <2> HIDE DEF S, T
  <2> QED BY <1>3, <2>1, <2>2, <2>3
<1> QED BY <1>2, <1>3

LEMMA LinesKept ==
    ASSUME LogTypes, Ahead, NEW code, NEW size \in Nat, size <= Len(file)
    PROVE  LinesOf(code, size)' = LinesOf(code, size)
<1>1. \A i \in 1..size : file'[i].code = file[i].code
  BY LineAt DEF Ahead
<1>2. {i \in 1..size : file'[i].code = code} = {i \in 1..size : file[i].code = code}
  BY <1>1
<1> QED BY <1>2 DEF LinesOf

-----------------------------------------------------------------------------
(* What stays true of reports *)

LEMMA SoundKept ==
    ASSUME LogTypes, LogTypes', StatTypes, now' \in Nat, Ahead, NEW code, NEW d \in Data
    PROVE  /\ Dated(d) => Dated(d)'
           /\ Totalled(code, d) => Totalled(code, d)'
           /\ Broken(code, d) => Broken(code, d)'
<1>1. Len(file) \in Nat /\ Len(file') \in Nat /\ Len(file) <= Len(file') /\ now <= now' /\ now \in Nat
  <2>1. Len(file) \in Nat /\ Len(file') \in Nat
    BY DEF LogTypes
  <2>2. now \in Nat
    BY Limits DEF StatTypes
  <2> QED BY <2>1, <2>2 DEF Ahead
<1>2. /\ d.pv \in Nat /\ d.upTo \in Nat /\ d.daily \in Nat /\ d.dailyUpTo \in Nat
      /\ d.least \in Nat /\ d.began \in Nat /\ d.cut \in BOOLEAN
  BY DEF Data
<1>3. Dated(d) => Dated(d)'
  <2> SUFFICES ASSUME Dated(d) PROVE Dated(d)'
    OBVIOUS
  <2>1. d.began <= now' /\ d.least <= Len(file')
    <3>1. d.began <= now /\ d.least <= Len(file)
      BY DEF Dated
    <3> QED BY <1>1, <1>2, <3>1
  <2>2. \A i \in 1..d.began : lenAt'[i] = lenAt[i]
    BY <1>1, <1>2 DEF Dated, Ahead
  <2> QED BY <2>1, <2>2 DEF Dated
<1>4. Totalled(code, d) => Totalled(code, d)'
  <2> SUFFICES ASSUME Totalled(code, d) PROVE Totalled(code, d)'
    OBVIOUS
  <2>1. LinesOf(code, d.upTo)' = LinesOf(code, d.upTo)
    BY <1>2, LinesKept DEF Totalled
  <2>2. d.upTo <= Len(file')
    BY <1>1, <1>2 DEF Totalled
  <2> QED BY <2>1, <2>2 DEF Totalled
<1>5. Broken(code, d) => Broken(code, d)'
  <2> SUFFICES ASSUME Broken(code, d) PROVE Broken(code, d)'
    OBVIOUS
  <2>1. CASE d.cut
    BY <2>1 DEF Broken, Ahead
  <2>2. CASE ~d.cut
    <3>1. LinesOf(code, d.dailyUpTo)' = LinesOf(code, d.dailyUpTo)
      BY <1>2, <2>2, LinesKept DEF Broken
    <3>2. d.dailyUpTo <= Len(file')
      BY <1>1, <1>2, <2>2 DEF Broken
    <3> QED BY <2>2, <3>1, <3>2 DEF Broken
  <2> QED BY <1>2, <2>1, <2>2
<1> QED BY <1>3, <1>4, <1>5

LEMMA EntryKept ==
    ASSUME StatInv, LogTypes', now' \in Nat, Ahead, NEW k \in DOMAIN cache, cache'[k] = cache[k]
    PROVE  EntryOK(k)'
<1>1. LogTypes /\ StatTypes /\ EntryOK(k)
  BY DEF StatInv
<1>2. PICK d : d = cache[k].data
  OBVIOUS
<1>3. cache[k] \in Entry
  BY <1>1 DEF StatTypes
<1>4. d \in Data /\ cache[k].exp \in Nat
  BY <1>2, <1>3 DEF Entry
<1>5. Sound(k[1], d)
  BY <1>1, <1>2 DEF EntryOK
<1>6. Sound(k[1], d)'
  BY <1>1, <1>4, <1>5, SoundKept DEF Sound
<1>7. cache[k].exp - TTL <= now'
  <2>1. now \in Nat /\ now <= now' /\ cache[k].exp - TTL <= now
    BY <1>1, Limits DEF StatTypes, Ahead, EntryOK
  <2> QED BY <1>4, <2>1, Limits
<1>8. cache'[k].data = d
  BY <1>2
<1>9. cache'[k].code = k[1] /\ cache'[k].days = k[2] /\ cache'[k].exp - TTL >= d.began
  BY <1>1, <1>2 DEF EntryOK
<1> QED BY <1>6, <1>7, <1>8, <1>9 DEF EntryOK

LEMMA ReaderKept ==
    ASSUME StatInv, LogTypes', now' \in Nat, Ahead, NEW r \in Readers,
           request'[r] = request[r], report'[r] = report[r],
           reader'[r].goal = reader[r].goal, reader'[r].pos = reader[r].pos
    PROVE  ReaderOK(r)'
<1>1. LogTypes /\ StatTypes /\ ReaderOK(r)
  BY DEF StatInv
<1>2. PICK q, d, pos, goal : q = request[r] /\ d = report[r] /\ pos = reader[r].pos /\ goal = reader[r].goal
  OBVIOUS
<1>3. d \in Data /\ pos \in Nat /\ q \in {NoRequest} \cup Question
  <2>1. reader[r] \in Decoder /\ report[r] \in Data /\ request[r] \in {NoRequest} \cup Question
    BY <1>1 DEF StatTypes
  <2> QED BY <1>2, <2>1 DEF Decoder
<1>4. pos <= Len(file) /\ pos <= MaxRec /\ (goal = "none" => pos = 0)
  BY <1>1, <1>2 DEF ReaderOK, ScanOK
<1>5. pos <= Len(file')
  <2>1. Len(file) \in Nat /\ Len(file') \in Nat /\ Len(file) <= Len(file')
    BY <1>1, LineAt DEF Ahead, LogTypes
  <2> QED BY <1>3, <1>4, <2>1
<1>6. LinesOf(q.code, pos)' = LinesOf(q.code, pos)
  BY <1>1, <1>3, <1>4, LinesKept
<1>7. /\ q.step = "none" => d = NoReport /\ goal = "none"
      /\ q.step # "none" => (open \/ closer = "closed") /\ Dated(d)
      /\ q.step = "first" =>
          goal = "first" /\ d.pv = LinesOf(q.code, pos) /\ d.daily = 0 /\ ~d.cut
      /\ q.step = "second" =>
          /\ goal \in {"none", "second"} /\ Totalled(q.code, d)
          /\ d.daily = LinesOf(q.code, pos) /\ ~d.cut
      /\ q.step = "store" => goal = "none" /\ Totalled(q.code, d) /\ Broken(q.code, d)
  BY <1>1, <1>2 DEF ReaderOK, ScanOK
<1>8. /\ Dated(d) => Dated(d)'
      /\ Totalled(q.code, d) => Totalled(q.code, d)'
      /\ Broken(q.code, d) => Broken(q.code, d)'
  BY <1>1, <1>3, SoundKept
<1>9. /\ q.step = "none" => d = NoReport /\ goal = "none"
      /\ q.step # "none" => (open' \/ closer' = "closed") /\ Dated(d)'
      /\ q.step = "first" =>
          goal = "first" /\ d.pv = LinesOf(q.code, pos)' /\ d.daily = 0 /\ ~d.cut
      /\ q.step = "second" =>
          /\ goal \in {"none", "second"} /\ Totalled(q.code, d)'
          /\ d.daily = LinesOf(q.code, pos)' /\ ~d.cut
      /\ q.step = "store" => goal = "none" /\ Totalled(q.code, d)' /\ Broken(q.code, d)'
  BY <1>6, <1>7, <1>8, Zenon DEF Ahead
<1>10. request'[r] = q /\ report'[r] = d /\ reader'[r].pos = pos /\ reader'[r].goal = goal
  BY <1>2
<1> QED BY <1>4, <1>5, <1>9, <1>10, Zenon DEF ReaderOK, ScanOK

\* The log moves, the service does not.
LEMMA LogStepInv ==
    ASSUME StatInv, LogStep, UNCHANGED statsVars
    PROVE  StatInv'
<1>1. LogTypes /\ TimesOK /\ StatTypes
  BY DEF StatInv
<1>2. UNCHANGED <<now, cache, request, report, begun, lenAt>>
  BY DEF statsVars
<1>3. /\ LogTypes' /\ Ahead
      /\ \A r \in Readers : reader'[r].goal = reader[r].goal /\ reader'[r].pos = reader[r].pos
      /\ reader' \in [Readers -> Decoder]
  BY <1>1, LogStepOK
<1>4. StatTypes' /\ now' \in Nat
  BY <1>1, <1>2, <1>3, Limits DEF StatTypes
<1>5. TimesOK'
  <2>1. Len(file) \in Nat /\ Len(file') \in Nat /\ Len(file) <= Len(file')
    BY <1>1, <1>3, LineAt DEF Ahead, LogTypes
  <2>2. \A i \in 1..now : lenAt[i] \in Nat /\ lenAt[i] <= Len(file)
    BY <1>1 DEF TimesOK
  <2>3. \A i \in 1..now : lenAt[i] <= Len(file')
    BY <2>1, <2>2
  <2> QED BY <1>1, <1>2, <2>3 DEF TimesOK
<1>6. \A r \in Readers : ReaderOK(r)'
  BY <1>2, <1>3, <1>4, ReaderKept
<1>7. \A k \in DOMAIN cache : EntryOK(k)'
  BY <1>2, <1>3, <1>4, EntryKept
<1>8. SizeOK'
  BY <1>2 DEF StatInv, SizeOK
<1> QED BY <1>2, <1>3, <1>4, <1>5, <1>6, <1>7, <1>8 DEF StatInv

\* Time goes on, and notes what a scan would read.
LEMMA TickInv ==
    ASSUME StatInv, Tick
    PROVE  StatInv'
<1>1. LogTypes /\ TimesOK /\ StatTypes
  BY DEF StatInv
<1>2. /\ now < MaxTime /\ now' = now + 1 /\ lenAt' = Append(lenAt, Readable)
      /\ UNCHANGED <<file, synced, ready, open, syncer, ended, closer, holder, batch, reader, made, faults,
                     acked, promised, swallowed, cache, request, report, begun>>
  BY DEF Tick, logVars
<1>3. LogTypes'
  BY <1>1, <1>2 DEF LogTypes
<1>4. now \in Nat /\ now' \in Nat /\ now' \in 0..MaxTime
  BY <1>1, <1>2, Limits DEF StatTypes
<1>5. StatTypes'
  BY <1>1, <1>2, <1>4 DEF StatTypes
<1>6. Readable \in Nat /\ Readable <= MaxRec /\ Readable <= Len(file) /\ (Readable = MaxRec \/ Readable = Len(file))
  BY <1>1, LineAt, Limits DEF Readable, Least
<1> DEFINE new == Readable
<1>7. new \in Nat /\ new <= MaxRec /\ new <= Len(file) /\ (new = MaxRec \/ new = Len(file))
  BY <1>6
<1>8. lenAt' = Append(lenAt, new) /\ lenAt \in Seq(Nat) /\ Len(lenAt) = now
  BY <1>1, <1>2 DEF TimesOK
<1> HIDE DEF new
<1>9. /\ lenAt' \in Seq(Nat) /\ Len(lenAt') = now + 1
      /\ \A i \in 1..now : lenAt'[i] = lenAt[i]
      /\ lenAt'[now + 1] = new
  BY <1>4, <1>7, <1>8
<1>10. Ahead
  BY <1>2, <1>4, <1>9, LineAt, <1>1 DEF Ahead
<1>11. TimesOK'
  <2>1. \A i \in 1..now : lenAt[i] \in Nat /\ lenAt[i] <= MaxRec /\ lenAt[i] <= Len(file)
    BY <1>1 DEF TimesOK
  <2>2. \A i \in 1..now' : lenAt'[i] <= MaxRec /\ lenAt'[i] <= Len(file')
    <3> TAKE i \in 1..now'
    <3>1. i \in 1..now \/ i = now + 1
      BY <1>2, <1>4
    <3> QED BY <1>2, <1>7, <1>9, <2>1, <3>1
  <2>3. \A i, j \in 1..now' : i <= j => lenAt'[i] <= lenAt'[j]
    <3> SUFFICES ASSUME NEW i \in 1..now', NEW j \in 1..now', i <= j PROVE lenAt'[i] <= lenAt'[j]
      OBVIOUS
    <3>1. CASE j \in 1..now
      <4>1. i \in 1..now
        BY <1>2, <1>4, <3>1
      <4>2. lenAt[i] <= lenAt[j]
        BY <1>1, <3>1, <4>1 DEF TimesOK
      <4> QED BY <1>9, <3>1, <4>1, <4>2
    <3>2. CASE j = now + 1
      <4>1. lenAt'[j] = new /\ (i \in 1..now \/ i = now + 1)
        BY <1>2, <1>4, <1>9, <3>2
      <4>2. CASE i \in 1..now
        <5>1. lenAt[i] <= new
          BY <1>7, <2>1, <4>2
        <5> QED BY <1>9, <4>1, <4>2, <5>1
      <4>3. CASE i = now + 1
        BY <1>7, <1>9, <4>1, <4>3
      <4> QED BY <4>1, <4>2, <4>3
    <3>3. j \in 1..now \/ j = now + 1
      BY <1>2, <1>4
    <3> QED BY <3>1, <3>2, <3>3
  <2> QED BY <1>2, <1>9, <2>2, <2>3 DEF TimesOK
<1>12. \A r \in Readers : ReaderOK(r)'
  BY <1>2, <1>3, <1>4, <1>10, ReaderKept
<1>13. \A k \in DOMAIN cache : EntryOK(k)'
  BY <1>2, <1>3, <1>4, <1>10, EntryKept
<1>14. SizeOK'
  BY <1>2 DEF StatInv, SizeOK
<1> QED BY <1>2, <1>3, <1>5, <1>11, <1>12, <1>13, <1>14 DEF StatInv

-----------------------------------------------------------------------------
(* The steps of a request *)

\* What is known of a reader: its kinds, and which scan goes with which step.
LEMMA ReaderIs ==
    ASSUME StatInv, NEW r \in Readers
    PROVE  /\ report[r] \in Data /\ reader[r] \in Decoder /\ request[r] \in {NoRequest} \cup Question
           /\ request[r].step \in {"none", "first", "second", "store"}
           /\ request[r].step # "none" => request[r] \in Question
           /\ reader[r].goal = "first" => request[r].step = "first"
           /\ reader[r].goal = "second" => request[r].step = "second"
           /\ ReaderOK(r) /\ reader[r].pos \in Nat /\ reader[r].pos <= Len(file) /\ reader[r].pos <= MaxRec
<1>1. StatTypes /\ ReaderOK(r)
  BY DEF StatInv
<1>2. report[r] \in Data /\ reader[r] \in Decoder /\ request[r] \in {NoRequest} \cup Question
  BY <1>1 DEF StatTypes
<1>3. /\ request[r].step \in {"none", "first", "second", "store"}
      /\ request[r].step # "none" => request[r] \in Question
  BY <1>2 DEF NoRequest, Question
<1>4. /\ reader[r].goal = "first" => request[r].step = "first"
      /\ reader[r].goal = "second" => request[r].step = "second"
  BY <1>1, <1>3 DEF ReaderOK, ScanOK
<1>5. reader[r].pos \in Nat /\ reader[r].pos <= Len(file) /\ reader[r].pos <= MaxRec
  BY <1>1, <1>2 DEF ReaderOK, ScanOK, Decoder
<1> QED BY <1>1, <1>2, <1>3, <1>4, <1>5

\* A step of one reader leaves the others, the log and the clock as they are.
Apart(r) ==
    /\ UNCHANGED notReaders /\ UNCHANGED <<now, lenAt>>
    /\ begun' \in 0..MaxReports
    /\ \A q \in Readers \ {r} :
        /\ reader'[q] = reader[q] /\ request'[q] = request[q] /\ report'[q] = report[q]
    /\ DOMAIN reader' = Readers /\ DOMAIN request' = Readers /\ DOMAIN report' = Readers
    /\ reader' = [q \in Readers |-> reader'[q]]
    /\ request' = [q \in Readers |-> request'[q]]
    /\ report' = [q \in Readers |-> report'[q]]

LEMMA LogStands ==
    ASSUME StatInv, UNCHANGED notReaders, UNCHANGED <<now, lenAt>>
    PROVE  /\ LogTypes' /\ TimesOK' /\ Ahead /\ now' \in Nat /\ now' \in 0..MaxTime
           /\ UNCHANGED <<file, ready, open, closer>>
<1>1. LogTypes /\ TimesOK /\ StatTypes
  BY DEF StatInv
<1>2. UNCHANGED <<file, synced, ready, open, syncer, ended, closer, holder, batch, made, faults,
                  acked, promised, swallowed>>
  BY DEF notReaders, process, writing, logHistory
<1>3. LogTypes'
  BY <1>1, <1>2 DEF LogTypes
<1>4. TimesOK'
  BY <1>1, <1>2 DEF TimesOK
<1>5. now \in Nat
  BY <1>1, Limits DEF StatTypes
<1>6. Len(file) \in Nat
  BY <1>1, LineAt
<1>7. Ahead
  BY <1>2, <1>5, <1>6 DEF Ahead
<1> QED BY <1>1, <1>2, <1>3, <1>4, <1>5, <1>7 DEF StatTypes

LEMMA ReaderStep ==
    ASSUME StatInv, NEW r \in Readers, Apart(r), cache' = cache,
           reader'[r] \in Decoder, request'[r] \in {NoRequest} \cup Question, report'[r] \in Data,
           ReaderOK(r)'
    PROVE  StatInv'
<1>1. StatTypes
  BY DEF StatInv
<1>2. /\ LogTypes' /\ TimesOK' /\ Ahead /\ now' \in Nat /\ now' \in 0..MaxTime
  BY LogStands DEF Apart
<1>3. \A q \in Readers : ReaderOK(q)'
  BY <1>2, ReaderKept DEF Apart
<1>4. \A k \in DOMAIN cache : EntryOK(k)'
  BY <1>2, EntryKept
<1>5. StatTypes'
  <2>1. \A q \in Readers :
          /\ reader'[q] \in Decoder /\ request'[q] \in {NoRequest} \cup Question /\ report'[q] \in Data
    BY <1>1 DEF StatTypes, Apart
  <2>2. reader' \in [Readers -> Decoder]
    BY <2>1 DEF Apart
  <2>3. request' \in [Readers -> {NoRequest} \cup Question]
    BY <2>1, Zenon DEF Apart
  <2>4. report' \in [Readers -> Data]
    BY <2>1 DEF Apart
  <2> QED BY <1>1, <1>2, <2>2, <2>3, <2>4 DEF StatTypes, Apart
<1>6. SizeOK'
  BY DEF StatInv, SizeOK
<1> QED BY <1>2, <1>3, <1>4, <1>5, <1>6 DEF StatInv

LEMMA RestingIs == Resting \in Decoder /\ Resting.goal = "none" /\ Resting.pos = 0
BY DEF Resting, Decoder

LEMMA NoReportIs ==
    /\ NoReport \in Data /\ NoReport.pv = 0 /\ NoReport.daily = 0 /\ NoReport.cut = FALSE
BY DEF NoReport, Data

\* So what is left to show of such a step is that the reader's new state is sound.
LEMMA NewState ==
    ASSUME StatInv, NEW r \in Readers, Apart(r), cache' = cache,
           NEW q \in {NoRequest} \cup Question, NEW d \in Data, NEW s \in Decoder,
           request'[r] = q, report'[r] = d, reader'[r] = s, ScanOK(q, d, s)
    PROVE  StatInv'
<1>1. UNCHANGED <<file, ready, open, closer, now, lenAt>>
  BY LogStands DEF Apart
<1>2. /\ Dated(d)' <=> Dated(d)
      /\ Totalled(q.code, d)' <=> Totalled(q.code, d)
      /\ Broken(q.code, d)' <=> Broken(q.code, d)
      /\ LinesOf(q.code, s.pos)' = LinesOf(q.code, s.pos)
  BY <1>1 DEF Dated, Totalled, Broken, LinesOf
<1>3. ScanOK(q, d, s)'
  BY <1>1, <1>2, Zenon DEF ScanOK
<1>4. ReaderOK(r)'
  BY <1>3, Zenon DEF ReaderOK
<1> QED BY <1>4, ReaderStep

\* The first scan begins.
LEMMA MissInv ==
    ASSUME StatInv, NEW r \in Readers, NEW code \in Codes, NEW asked \in Asked, Miss(r, code, asked)
    PROVE  StatInv'
<1>1. LogTypes /\ TimesOK /\ StatTypes
  BY DEF StatInv
<1>2. report[r] = NoReport
  BY ReaderIs DEF Miss, Asks, ReaderOK, ScanOK
<1>3. PICK q, s, d : /\ q = [step |-> "first", code |-> code, asked |-> asked]
                     /\ s = [goal |-> "first", pos |-> 0, err |-> FALSE]
                     /\ d = [report[r] EXCEPT !.least = Readable, !.began = now]
  OBVIOUS
<1>4. /\ request' = [request EXCEPT ![r] = q] /\ reader' = [reader EXCEPT ![r] = s]
      /\ report' = [report EXCEPT ![r] = d]
      /\ UNCHANGED notReaders /\ UNCHANGED <<now, cache, lenAt>> /\ ready
      /\ begun < MaxReports /\ begun' = begun + 1
  BY <1>3 DEF Miss, ScanBegins
<1>5. q \in Question /\ q.step = "first" /\ q.code = code
  BY <1>3 DEF Question
<1>6. s \in Decoder /\ s.goal = "first" /\ s.pos = 0
  BY <1>3 DEF Decoder
<1>7. Readable \in Nat /\ Readable <= MaxRec /\ Readable <= Len(file) /\ (Readable = MaxRec \/ Readable = Len(file))
  BY <1>1, LineAt, Limits DEF Readable, Least
<1>8. now \in Nat
  BY <1>1, Limits DEF StatTypes
<1>9. d \in Data /\ d.least = Readable /\ d.began = now /\ d.pv = 0 /\ d.daily = 0 /\ ~d.cut
  BY <1>2, <1>3, <1>7, <1>8, NoReportIs DEF Data
<1>10. request'[r] = q /\ reader'[r] = s /\ report'[r] = d
  BY <1>1, <1>4 DEF StatTypes
<1>11. Apart(r)
  <2>1. begun' \in 0..MaxReports
    BY <1>1, <1>4, Limits DEF StatTypes
  <2> QED BY <1>1, <1>4, <2>1 DEF Apart, StatTypes
<1>12. Dated(d)
  <2>1. \A i \in 1..now : lenAt[i] <= Readable
    BY <1>1, <1>7 DEF TimesOK
  <2> QED BY <1>7, <1>8, <1>9, <2>1 DEF Dated
<1>13. ScanOK(q, d, s)
  <2>1. 0 <= Len(file) /\ 0 <= MaxRec
    BY <1>1, LineAt, Limits
  <2>2. open
    BY <1>1, <1>4 DEF LogTypes
  <2>3. d.pv = LinesOf(q.code, s.pos)
    BY <1>6, <1>9, NoLines
  <2> QED BY <1>5, <1>6, <1>9, <1>12, <2>1, <2>2, <2>3 DEF ScanOK
<1> QED BY <1>4, <1>5, <1>6, <1>9, <1>10, <1>11, <1>13, NewState

\* What a reader on a line finds, and where it is after it.
LEMMA OneMore ==
    ASSUME StatInv, NEW r \in Readers, ~Limit(r), OnLine(r)
    PROVE  /\ reader[r].pos + 1 \in Nat /\ reader[r].pos + 1 <= Len(file) /\ reader[r].pos + 1 <= MaxRec
           /\ Matches(r) \in Nat
           /\ LinesOf(request[r].code, reader[r].pos + 1) = LinesOf(request[r].code, reader[r].pos) + Matches(r)
           /\ LinesOf(request[r].code, reader[r].pos) \in Nat
<1>1. reader[r].pos \in Nat /\ reader[r].pos <= Len(file) /\ reader[r].pos <= MaxRec /\ Len(file) \in Nat
  BY ReaderIs, LineAt DEF StatInv
<1>2. ~(reader[r].pos >= MaxRec) /\ reader[r].pos < Len(file)
  BY DEF Limit, OnLine
<1>3. PICK size, code : size = reader[r].pos /\ code = request[r].code
  OBVIOUS
<1>4. size + 1 \in Nat /\ size + 1 <= Len(file) /\ size + 1 <= MaxRec
  BY <1>1, <1>2, <1>3, Limits
<1>5. LinesOf(code, size + 1) = LinesOf(code, size) + (IF file[size + 1].code = code THEN 1 ELSE 0)
  BY <1>1, <1>3, LinesNext
<1>6. Matches(r) = IF file[size + 1].code = code THEN 1 ELSE 0
  BY <1>3 DEF Matches, LineOf
<1>7. LinesOf(code, size) \in Nat
  BY <1>1, <1>3, LinesBound
<1>8. Matches(r) \in Nat
  BY <1>6
<1> QED BY <1>3, <1>4, <1>5, <1>6, <1>7, <1>8, Zenon

LEMMA MoreCounted ==
    ASSUME NEW d \in Data, NEW k \in Nat
    PROVE  /\ [d EXCEPT !.pv = @ + k] \in Data /\ [d EXCEPT !.daily = @ + k] \in Data
           /\ [d EXCEPT !.pv = @ + k].pv = d.pv + k /\ [d EXCEPT !.daily = @ + k].daily = d.daily + k
           /\ \A field \in {"upTo", "daily", "dailyUpTo", "least", "began", "cut"} :
                [d EXCEPT !.pv = @ + k][field] = d[field]
           /\ \A field \in {"pv", "upTo", "dailyUpTo", "least", "began", "cut"} :
                [d EXCEPT !.daily = @ + k][field] = d[field]
<1>1. d.pv + k \in Nat /\ d.daily + k \in Nat
  BY DEF Data
<1> DEFINE more == d.pv + k
           days == d.daily + k
<1>2. more \in Nat /\ days \in Nat
  BY <1>1
<1> HIDE DEF more, days
<1>3. /\ [d EXCEPT !.pv = more] \in Data /\ [d EXCEPT !.daily = days] \in Data
      /\ [d EXCEPT !.pv = more].pv = more /\ [d EXCEPT !.daily = days].daily = days
      /\ \A field \in {"upTo", "daily", "dailyUpTo", "least", "began", "cut"} :
           [d EXCEPT !.pv = more][field] = d[field]
      /\ \A field \in {"pv", "upTo", "dailyUpTo", "least", "began", "cut"} :
           [d EXCEPT !.daily = days][field] = d[field]
  BY <1>2 DEF Data
<1> QED BY <1>3 DEF more, days

\* A line of the first scan.
LEMMA CountLineInv ==
    ASSUME StatInv, NEW r \in Readers, CountLine(r)
    PROVE  StatInv'
<1>1. LogTypes /\ TimesOK /\ StatTypes
  BY DEF StatInv
<1>2. /\ reader[r].goal = "first" /\ ~Limit(r) /\ OnLine(r)
      /\ UNCHANGED notReaders /\ UNCHANGED <<now, cache, request, begun, lenAt>>
  BY DEF CountLine
<1>3. /\ request[r].step = "first" /\ request[r] \in Question
      /\ report[r] \in Data /\ reader[r] \in Decoder /\ ScanOK(request[r], report[r], reader[r])
  BY <1>2, ReaderIs DEF ReaderOK
<1>4. PICK q, s, d : /\ q = request[r]
                     /\ s = [reader[r] EXCEPT !.pos = @ + 1]
                     /\ d = [report[r] EXCEPT !.pv = @ + Matches(r)]
  OBVIOUS
<1>5. reader' = [reader EXCEPT ![r] = s] /\ report' = [report EXCEPT ![r] = d]
  BY <1>4 DEF CountLine, Advance
<1>6. /\ reader[r].pos + 1 \in Nat /\ reader[r].pos + 1 <= Len(file) /\ reader[r].pos + 1 <= MaxRec
      /\ Matches(r) \in Nat
      /\ LinesOf(q.code, reader[r].pos + 1) = LinesOf(q.code, reader[r].pos) + Matches(r)
  BY <1>2, <1>4, OneMore
<1>7. s \in Decoder /\ s.goal = "first" /\ s.pos = reader[r].pos + 1
  BY <1>2, <1>3, <1>4, <1>6 DEF Decoder
<1>8. /\ d \in Data /\ d.pv = report[r].pv + Matches(r) /\ d.daily = report[r].daily /\ d.cut = report[r].cut
      /\ d.least = report[r].least /\ d.began = report[r].began
  BY <1>3, <1>4, <1>6, MoreCounted
<1>9. request'[r] = q /\ reader'[r] = s /\ report'[r] = d
  BY <1>1, <1>2, <1>4, <1>5 DEF StatTypes
<1>10. Apart(r)
  BY <1>1, <1>2, <1>5 DEF Apart, StatTypes
<1>11. ScanOK(q, d, s)
  <2>1. /\ q.step = "first" /\ (open \/ closer = "closed") /\ Dated(report[r])
        /\ report[r].pv = LinesOf(q.code, reader[r].pos) /\ report[r].daily = 0 /\ ~report[r].cut
    BY <1>3, <1>4 DEF ScanOK
  <2>2. Dated(d)
    BY <1>8, <2>1 DEF Dated
  <2>3. d.pv = LinesOf(q.code, s.pos)
    BY <1>6, <1>7, <1>8, <2>1
  <2> QED BY <1>6, <1>7, <1>8, <2>1, <2>2, <2>3 DEF ScanOK
<1>12. q \in {NoRequest} \cup Question
  BY <1>3, <1>4
<1> QED BY <1>2, <1>7, <1>8, <1>9, <1>10, <1>11, <1>12, NewState

\* The request is given up.
LEMMA CanceledInv ==
    ASSUME StatInv, NEW r \in Readers, Canceled(r)
    PROVE  StatInv'
<1>1. LogTypes /\ TimesOK /\ StatTypes
  BY DEF StatInv
<1>2. /\ request' = [request EXCEPT ![r] = NoRequest] /\ report' = [report EXCEPT ![r] = NoReport]
      /\ reader' = [reader EXCEPT ![r] = Resting]
      /\ UNCHANGED notReaders /\ UNCHANGED <<now, cache, begun, lenAt>>
  BY DEF Canceled, ScanEnds, Leave
<1>3. request'[r] = NoRequest /\ reader'[r] = Resting /\ report'[r] = NoReport
  BY <1>1, <1>2 DEF StatTypes
<1>4. Apart(r)
  BY <1>1, <1>2 DEF Apart, StatTypes
<1>5. ScanOK(NoRequest, NoReport, Resting)
  <2>1. NoRequest.step = "none"
    BY DEF NoRequest
  <2>2. 0 <= Len(file) /\ 0 <= MaxRec
    BY <1>1, LineAt, Limits
  <2> QED BY <2>1, <2>2, RestingIs DEF ScanOK
<1> QED BY <1>2, <1>3, <1>4, <1>5, NewState, RestingIs, NoReportIs

\* The first scan has read the whole log, or as much as it may.
LEMMA ReadEnough ==
    ASSUME StatInv, NEW r \in Readers, Limit(r) \/ AtEnd(r)
    PROVE  \A least \in Nat : least <= MaxRec /\ least <= Len(file) => least <= reader[r].pos
<1>1. reader[r].pos \in Nat /\ reader[r].pos <= Len(file) /\ reader[r].pos <= MaxRec /\ Len(file) \in Nat
  BY ReaderIs, LineAt DEF StatInv
<1>2. reader[r].pos >= MaxRec \/ reader[r].pos = Len(file)
  BY DEF Limit, AtEnd
<1> QED BY <1>1, <1>2, Limits

LEMMA FirstDoneInv ==
    ASSUME StatInv, NEW r \in Readers, FirstDone(r)
    PROVE  StatInv'
<1>1. LogTypes /\ TimesOK /\ StatTypes
  BY DEF StatInv
<1>2. /\ reader[r].goal = "first" /\ (Limit(r) \/ AtEnd(r))
      /\ UNCHANGED notReaders /\ UNCHANGED <<now, cache, begun, lenAt>>
  BY DEF FirstDone
<1>3. /\ request[r].step = "first" /\ request[r] \in Question
      /\ report[r] \in Data /\ ScanOK(request[r], report[r], reader[r])
      /\ reader[r].pos \in Nat /\ reader[r].pos <= Len(file) /\ reader[r].pos <= MaxRec
  BY <1>2, ReaderIs DEF ReaderOK
<1>4. PICK q, d : /\ q = [request[r] EXCEPT !.step = "second"]
                  /\ d = [report[r] EXCEPT !.upTo = reader[r].pos]
  OBVIOUS
<1>5. /\ request' = [request EXCEPT ![r] = q] /\ report' = [report EXCEPT ![r] = d]
      /\ reader' = [reader EXCEPT ![r] = Resting]
  BY <1>4 DEF FirstDone, GoTo, ScanEnds
<1>6. q \in Question /\ q.step = "second" /\ q.code = request[r].code
  BY <1>3, <1>4 DEF Question
<1>7. /\ d \in Data /\ d.upTo = reader[r].pos /\ d.pv = report[r].pv /\ d.daily = report[r].daily
      /\ d.cut = report[r].cut /\ d.least = report[r].least /\ d.began = report[r].began
  BY <1>3, <1>4 DEF Data
<1>8. request'[r] = q /\ reader'[r] = Resting /\ report'[r] = d
  BY <1>1, <1>5 DEF StatTypes
<1>9. Apart(r)
  BY <1>1, <1>2, <1>5 DEF Apart, StatTypes
<1>10. /\ (open \/ closer = "closed") /\ Dated(report[r])
       /\ report[r].pv = LinesOf(q.code, reader[r].pos) /\ report[r].daily = 0 /\ ~report[r].cut
  BY <1>3, <1>6 DEF ScanOK
<1>11. Dated(d)
  BY <1>7, <1>10 DEF Dated
<1>12. Totalled(q.code, d)
  <2>1. report[r].least \in Nat /\ report[r].least <= MaxRec /\ report[r].least <= Len(file)
    BY <1>3, <1>10 DEF Dated, Data
  <2>2. report[r].least <= reader[r].pos
    BY <1>2, <2>1, ReadEnough
  <2> QED BY <1>3, <1>7, <1>10, <2>1, <2>2 DEF Totalled
<1>13. ScanOK(q, d, Resting)
  <2>1. 0 <= Len(file) /\ 0 <= MaxRec
    BY <1>1, LineAt, Limits
  <2>2. LinesOf(q.code, Resting.pos) = 0
    BY NoLines, RestingIs
  <2> QED BY <1>6, <1>7, <1>10, <1>11, <1>12, <2>1, <2>2, RestingIs DEF ScanOK
<1>14. q \in {NoRequest} \cup Question
  BY <1>6
<1> QED BY <1>2, <1>7, <1>8, <1>9, <1>13, <1>14, NewState, RestingIs

\* The second scan begins.
LEMMA SecondScanInv ==
    ASSUME StatInv, NEW r \in Readers, SecondScan(r)
    PROVE  StatInv'
<1>1. LogTypes /\ TimesOK /\ StatTypes
  BY DEF StatInv
<1>2. /\ request[r].step = "second" /\ reader[r].goal = "none"
      /\ UNCHANGED notReaders /\ UNCHANGED <<now, cache, request, report, begun, lenAt>>
  BY DEF SecondScan, Asks
<1>3. /\ request[r] \in Question /\ report[r] \in Data /\ ScanOK(request[r], report[r], reader[r])
  BY <1>2, ReaderIs DEF ReaderOK
<1>4. PICK q, s, d : /\ q = request[r] /\ d = report[r]
                     /\ s = [goal |-> "second", pos |-> 0, err |-> FALSE]
  OBVIOUS
<1>5. reader' = [reader EXCEPT ![r] = s]
  BY <1>4 DEF SecondScan, ScanBegins
<1>6. s \in Decoder /\ s.goal = "second" /\ s.pos = 0
  BY <1>4 DEF Decoder
<1>7. request'[r] = q /\ reader'[r] = s /\ report'[r] = d
  BY <1>1, <1>2, <1>4, <1>5 DEF StatTypes
<1>8. Apart(r)
  BY <1>1, <1>2, <1>5 DEF Apart, StatTypes
<1>9. q.step = "second" /\ (open \/ closer = "closed") /\ Dated(d) /\ Totalled(q.code, d) /\ ~d.cut
  BY <1>2, <1>3, <1>4 DEF ScanOK
<1>10. d.daily = 0 /\ LinesOf(q.code, 0) = 0
  <2>1. d.daily = LinesOf(q.code, reader[r].pos) /\ reader[r].pos = 0
    BY <1>2, <1>3, <1>4 DEF ScanOK
  <2>2. LinesOf(q.code, 0) = 0
    BY NoLines
  <2> QED BY <2>1, <2>2, Zenon
<1>11. ScanOK(q, d, s)
  <2>1. 0 <= Len(file) /\ 0 <= MaxRec
    BY <1>1, LineAt, Limits
  <2> QED BY <1>6, <1>9, <1>10, <2>1 DEF ScanOK
<1>12. q \in {NoRequest} \cup Question /\ d \in Data
  BY <1>3, <1>4
<1> QED BY <1>2, <1>6, <1>7, <1>8, <1>11, <1>12, NewState

\* A line of the second scan.
LEMMA DailyLineInv ==
    ASSUME StatInv, NEW r \in Readers, DailyLine(r)
    PROVE  StatInv'
<1>1. LogTypes /\ TimesOK /\ StatTypes
  BY DEF StatInv
<1>2. /\ reader[r].goal = "second" /\ ~Limit(r) /\ OnLine(r)
      /\ UNCHANGED notReaders /\ UNCHANGED <<now, cache, request, begun, lenAt>>
  BY DEF DailyLine
<1>3. /\ request[r].step = "second" /\ request[r] \in Question
      /\ report[r] \in Data /\ reader[r] \in Decoder /\ ScanOK(request[r], report[r], reader[r])
  BY <1>2, ReaderIs DEF ReaderOK
<1>4. PICK q, s, d : /\ q = request[r]
                     /\ s = [reader[r] EXCEPT !.pos = @ + 1]
                     /\ d = [report[r] EXCEPT !.daily = @ + Matches(r)]
  OBVIOUS
<1>5. reader' = [reader EXCEPT ![r] = s] /\ report' = [report EXCEPT ![r] = d]
  BY <1>4 DEF DailyLine, Advance
<1>6. /\ reader[r].pos + 1 \in Nat /\ reader[r].pos + 1 <= Len(file) /\ reader[r].pos + 1 <= MaxRec
      /\ Matches(r) \in Nat
      /\ LinesOf(q.code, reader[r].pos + 1) = LinesOf(q.code, reader[r].pos) + Matches(r)
  BY <1>2, <1>4, OneMore
<1>7. s \in Decoder /\ s.goal = "second" /\ s.pos = reader[r].pos + 1
  BY <1>2, <1>3, <1>4, <1>6 DEF Decoder
<1>8. /\ d \in Data /\ d.daily = report[r].daily + Matches(r) /\ d.pv = report[r].pv /\ d.cut = report[r].cut
      /\ d.least = report[r].least /\ d.began = report[r].began /\ d.upTo = report[r].upTo
  BY <1>3, <1>4, <1>6, MoreCounted
<1>9. request'[r] = q /\ reader'[r] = s /\ report'[r] = d
  BY <1>1, <1>2, <1>4, <1>5 DEF StatTypes
<1>10. Apart(r)
  BY <1>1, <1>2, <1>5 DEF Apart, StatTypes
<1>11. ScanOK(q, d, s)
  <2>1. /\ q.step = "second" /\ (open \/ closer = "closed") /\ Dated(report[r])
        /\ report[r].daily = LinesOf(q.code, reader[r].pos) /\ Totalled(q.code, report[r]) /\ ~report[r].cut
    BY <1>3, <1>4 DEF ScanOK
  <2>2. Dated(d)
    BY <1>8, <2>1 DEF Dated
  <2>3. Totalled(q.code, d)
    BY <1>8, <2>1 DEF Totalled
  <2>4. d.daily = LinesOf(q.code, s.pos)
    BY <1>6, <1>7, <1>8, <2>1
  <2> QED BY <1>6, <1>7, <1>8, <2>1, <2>2, <2>3, <2>4 DEF ScanOK
<1>12. q \in {NoRequest} \cup Question
  BY <1>3, <1>4
<1> QED BY <1>2, <1>7, <1>8, <1>9, <1>10, <1>11, <1>12, NewState

LEMMA SecondDoneInv ==
    ASSUME StatInv, NEW r \in Readers, SecondDone(r)
    PROVE  StatInv'
<1>1. LogTypes /\ TimesOK /\ StatTypes
  BY DEF StatInv
<1>2. /\ reader[r].goal = "second" /\ (Limit(r) \/ AtEnd(r))
      /\ UNCHANGED notReaders /\ UNCHANGED <<now, cache, begun, lenAt>>
  BY DEF SecondDone
<1>3. /\ request[r].step = "second" /\ request[r] \in Question
      /\ report[r] \in Data /\ ScanOK(request[r], report[r], reader[r])
      /\ reader[r].pos \in Nat /\ reader[r].pos <= Len(file) /\ reader[r].pos <= MaxRec
  BY <1>2, ReaderIs DEF ReaderOK
<1>4. PICK q, d : /\ q = [request[r] EXCEPT !.step = "store"]
                  /\ d = [report[r] EXCEPT !.dailyUpTo = reader[r].pos]
  OBVIOUS
<1>5. /\ request' = [request EXCEPT ![r] = q] /\ report' = [report EXCEPT ![r] = d]
      /\ reader' = [reader EXCEPT ![r] = Resting]
  BY <1>4 DEF SecondDone, GoTo, ScanEnds
<1>6. q \in Question /\ q.step = "store" /\ q.code = request[r].code
  BY <1>3, <1>4 DEF Question
<1>7. /\ d \in Data /\ d.dailyUpTo = reader[r].pos /\ d.upTo = report[r].upTo /\ d.pv = report[r].pv
      /\ d.daily = report[r].daily /\ d.cut = report[r].cut
      /\ d.least = report[r].least /\ d.began = report[r].began
  BY <1>3, <1>4 DEF Data
<1>8. request'[r] = q /\ reader'[r] = Resting /\ report'[r] = d
  BY <1>1, <1>5 DEF StatTypes
<1>9. Apart(r)
  BY <1>1, <1>2, <1>5 DEF Apart, StatTypes
<1>10. /\ (open \/ closer = "closed") /\ Dated(report[r]) /\ Totalled(q.code, report[r])
       /\ report[r].daily = LinesOf(q.code, reader[r].pos) /\ ~report[r].cut
  BY <1>3, <1>6 DEF ScanOK
<1>11. Dated(d)
  BY <1>7, <1>10 DEF Dated
<1>12. Totalled(q.code, d)
  BY <1>7, <1>10 DEF Totalled
<1>13. Broken(q.code, d)
  <2>1. report[r].upTo \in Nat /\ report[r].upTo <= MaxRec /\ report[r].upTo <= Len(file)
    BY <1>3, <1>10 DEF Totalled, Data
  <2>2. report[r].upTo <= reader[r].pos
    BY <1>2, <2>1, ReadEnough
  <2> QED BY <1>3, <1>7, <1>10, <2>1, <2>2 DEF Broken
<1>14. ScanOK(q, d, Resting)
  <2>1. 0 <= Len(file) /\ 0 <= MaxRec
    BY <1>1, LineAt, Limits
  <2> QED BY <1>6, <1>10, <1>11, <1>12, <1>13, <2>1, RestingIs DEF ScanOK
<1>15. q \in {NoRequest} \cup Question
  BY <1>6
<1> QED BY <1>2, <1>7, <1>8, <1>9, <1>14, <1>15, NewState, RestingIs

\* The log was closed between the scans.
LEMMA SecondRefusedInv ==
    ASSUME StatInv, NEW r \in Readers, SecondRefused(r)
    PROVE  StatInv'
<1>1. LogTypes /\ TimesOK /\ StatTypes
  BY DEF StatInv
<1>2. /\ request[r].step = "second" /\ reader[r].goal = "none" /\ ~ready
      /\ UNCHANGED notReaders /\ UNCHANGED <<now, cache, reader, begun, lenAt>>
  BY DEF SecondRefused, Asks, logVars, notReaders, process, writing, logHistory
<1>3. /\ request[r] \in Question /\ report[r] \in Data /\ reader[r] \in Decoder
      /\ ScanOK(request[r], report[r], reader[r])
  BY <1>2, ReaderIs DEF ReaderOK
<1>4. PICK q, s, d : /\ q = [request[r] EXCEPT !.step = "store"] /\ s = reader[r]
                     /\ d = [report[r] EXCEPT !.cut = TRUE]
  OBVIOUS
<1>5. request' = [request EXCEPT ![r] = q] /\ report' = [report EXCEPT ![r] = d]
  BY <1>4 DEF SecondRefused, GoTo
<1>6. q \in Question /\ q.step = "store" /\ q.code = request[r].code
  BY <1>3, <1>4 DEF Question
<1>7. /\ d \in Data /\ d.upTo = report[r].upTo /\ d.pv = report[r].pv
      /\ d.daily = report[r].daily /\ d.cut = TRUE
      /\ d.least = report[r].least /\ d.began = report[r].began
  BY <1>3, <1>4 DEF Data
<1>8. request'[r] = q /\ reader'[r] = s /\ report'[r] = d
  BY <1>1, <1>2, <1>4, <1>5 DEF StatTypes
<1>9. Apart(r)
  BY <1>1, <1>2, <1>5 DEF Apart, StatTypes
<1>10. /\ (open \/ closer = "closed") /\ Dated(report[r]) /\ Totalled(q.code, report[r])
       /\ report[r].daily = LinesOf(q.code, s.pos) /\ s.pos = 0 /\ s.goal = "none"
  BY <1>2, <1>3, <1>4, <1>6 DEF ScanOK
<1>11. Dated(d)
  BY <1>7, <1>10 DEF Dated
<1>12. Totalled(q.code, d)
  BY <1>7, <1>10 DEF Totalled
<1>13. Broken(q.code, d)
  <2>1. closer = "closed"
    BY <1>1, <1>2, <1>10 DEF LogTypes
  <2>2. LinesOf(q.code, 0) = 0
    BY NoLines
  <2>3. d.daily = 0
    BY <1>7, <1>10, <2>2
  <2> QED BY <1>7, <2>1, <2>3 DEF Broken
<1>14. ScanOK(q, d, s)
  <2>1. 0 <= Len(file) /\ 0 <= MaxRec
    BY <1>1, LineAt, Limits
  <2> QED BY <1>6, <1>10, <1>11, <1>12, <1>13, <2>1 DEF ScanOK
<1>15. q \in {NoRequest} \cup Question /\ s \in Decoder
  BY <1>3, <1>4, <1>6
<1> QED BY <1>2, <1>7, <1>8, <1>9, <1>14, <1>15, NewState

-----------------------------------------------------------------------------
(* Storing a report *)

LEMMA NormalIs == ASSUME NEW asked \in Asked PROVE Normal(asked) \in 1..90
BY StatsConstantsOK DEF Normal

LEMMA EvictedIs ==
    ASSUME NEW reports, IsFiniteSet(DOMAIN reports)
    PROVE  /\ DOMAIN Evicted(reports) \subseteq DOMAIN reports
           /\ \A k \in DOMAIN Evicted(reports) : Evicted(reports)[k] = reports[k]
           /\ \/ Evicted(reports) = reports /\ ~(Cardinality(DOMAIN reports) > CacheMax)
              \/ /\ \A k \in DOMAIN Evicted(reports) : now <= reports[k].exp
                 /\ Evicted(reports) = [k \in DOMAIN Evicted(reports) |-> reports[k]]
<1>1. Cardinality(DOMAIN reports) \in Nat
  BY FS_CardinalityType
<1>2. CASE Cardinality(DOMAIN reports) <= CacheMax
  <2>1. Evicted(reports) = reports
    BY <1>2 DEF Evicted
  <2>2. ~(Cardinality(DOMAIN reports) > CacheMax)
    BY <1>1, <1>2, Limits
  <2> QED BY <2>1, <2>2
<1>3. CASE ~(Cardinality(DOMAIN reports) <= CacheMax)
  <2> DEFINE kept == {k \in DOMAIN reports : now <= reports[k].exp}
  <2>1. Evicted(reports) = [k \in kept |-> reports[k]]
    BY <1>3 DEF Evicted, Restrict
  <2> QED BY <2>1
<1> QED BY <1>2, <1>3

LEMMA StoreInv ==
    ASSUME StatInv, NEW r \in Readers, Store(r)
    PROVE  StatInv'
<1>1. LogTypes /\ TimesOK /\ StatTypes
  BY DEF StatInv
<1>2. /\ request[r].step = "store"
      /\ UNCHANGED notReaders /\ UNCHANGED <<now, reader, begun, lenAt>>
      /\ request' = [request EXCEPT ![r] = NoRequest] /\ report' = [report EXCEPT ![r] = NoReport]
  BY DEF Store, Asks, Leave, logVars, notReaders, process, writing, logHistory
<1>3. /\ request[r] \in Question /\ report[r] \in Data /\ ScanOK(request[r], report[r], reader[r])
  BY <1>2, ReaderIs DEF ReaderOK
<1>4. PICK code, days, key, d : /\ code = request[r].code /\ days = Normal(request[r].asked)
                                /\ key = Key(code, days) /\ d = report[r]
  OBVIOUS
<1>5. code \in Codes /\ days \in 1..90 /\ d \in Data
  <2>1. request[r].asked \in Asked /\ request[r].code \in Codes
    BY <1>3 DEF Question
  <2> QED BY <1>3, <1>4, <2>1, NormalIs
<1>6. key = <<code, days>> /\ key[1] = code /\ key[2] = days /\ key \in Codes \X (1..90)
  BY <1>4, <1>5 DEF Key
<1>7. Sound(code, d) /\ reader[r].goal = "none" /\ reader[r].pos <= Len(file)
      /\ reader[r].pos <= MaxRec /\ reader[r].pos = 0
  BY <1>2, <1>3, <1>4 DEF ScanOK, Sound
<1>8. now \in Nat /\ TTL \in Nat
  BY <1>1, Limits DEF StatTypes
<1> DEFINE value == [code |-> code, days |-> days, exp |-> now + TTL, data |-> d]
           put == [k \in DOMAIN cache \cup {key} |-> IF k = key THEN value ELSE cache[k]]
<1>9. cache' = Evicted(put)
  BY <1>4 DEF Store
<1>10. /\ value \in Entry /\ value.code = code /\ value.days = days /\ value.data = d
       /\ value.exp - TTL = now
  <2>1. now + TTL \in Nat /\ (now + TTL) - TTL = now
    BY <1>8
  <2> QED BY <1>5, <2>1 DEF Entry
<1> HIDE DEF value
<1>11. /\ DOMAIN put = DOMAIN cache \cup {key} /\ put[key] = value
       /\ \A k \in DOMAIN put : k # key => k \in DOMAIN cache /\ put[k] = cache[k]
  OBVIOUS
<1> HIDE DEF put
<1>12. IsFiniteSet(DOMAIN put)
  BY <1>11, FS_AddElement DEF StatInv, SizeOK
<1>13. /\ DOMAIN cache' \subseteq DOMAIN put
       /\ \A k \in DOMAIN cache' : cache'[k] = put[k]
       /\ \/ cache' = put /\ ~(Cardinality(DOMAIN put) > CacheMax)
          \/ /\ \A k \in DOMAIN cache' : now <= put[k].exp
             /\ cache' = [k \in DOMAIN cache' |-> put[k]]
  BY <1>9, <1>12, EvictedIs
<1>14. /\ LogTypes' /\ TimesOK' /\ Ahead /\ now' \in Nat /\ now' \in 0..MaxTime
       /\ UNCHANGED <<file, ready, open, closer>>
  BY <1>2, LogStands
<1>15. \A k \in DOMAIN cache' : EntryOK(k)'
  <2> TAKE k \in DOMAIN cache'
  <2>1. CASE k # key
    <3>1. k \in DOMAIN cache /\ cache'[k] = cache[k]
      BY <1>11, <1>13, <2>1
    <3> QED BY <1>14, <3>1, EntryKept
  <2>2. CASE k = key
    <3>1. cache'[k] = value
      BY <1>11, <1>13, <2>2
    <3>2. Sound(code, d)'
      BY <1>1, <1>5, <1>7, <1>14, SoundKept DEF Sound
    <3>3. now >= d.began
      BY <1>5, <1>7, <1>8 DEF Sound, Dated, Data
    <3>4. value.exp - TTL >= d.began /\ value.exp - TTL <= now'
      BY <1>2, <1>8, <1>10, <3>3
    <3> QED BY <1>6, <1>10, <2>2, <3>1, <3>2, <3>4 DEF EntryOK
  <2> QED BY <2>1, <2>2
<1>16. \A k \in DOMAIN put : put[k] \in Entry /\ k \in Codes \X (1..90)
  BY <1>1, <1>6, <1>10, <1>11 DEF StatTypes
<1>17. cache' \in [DOMAIN cache' -> Entry] /\ DOMAIN cache' \subseteq Codes \X (1..90)
  <2>1. cache' = [k \in DOMAIN cache' |-> cache'[k]]
    <3>1. put = [k \in DOMAIN put |-> put[k]]
      BY DEF put
    <3> QED BY <1>13, <3>1
  <2>2. \A k \in DOMAIN cache' : cache'[k] \in Entry /\ k \in Codes \X (1..90)
    BY <1>13, <1>16
  <2> QED BY <2>1, <2>2
<1>18. StatTypes'
  <2>1. request' \in [Readers -> {NoRequest} \cup Question] /\ report' \in [Readers -> Data]
    BY <1>1, <1>2, NoReportIs DEF StatTypes
  <2> QED BY <1>1, <1>2, <1>14, <1>17, <2>1 DEF StatTypes
<1>19. \A q \in Readers : ReaderOK(q)'
  <2> TAKE q \in Readers
  <2>1. CASE q # r
    <3>1. request'[q] = request[q] /\ report'[q] = report[q] /\ reader'[q] = reader[q]
      BY <1>2, <2>1
    <3> QED BY <1>14, <3>1, ReaderKept
  <2>2. CASE q = r
    <3>1. request'[q] = NoRequest /\ report'[q] = NoReport /\ reader'[q] = reader[r]
      BY <1>1, <1>2, <2>2 DEF StatTypes
    <3>2. NoRequest.step = "none"
      BY DEF NoRequest
    <3> QED BY <1>7, <1>14, <3>1, <3>2 DEF ReaderOK, ScanOK
  <2> QED BY <2>1, <2>2
<1>20. SizeOK'
  <2>1. IsFiniteSet(DOMAIN cache')
    BY <1>12, <1>13, FS_Subset
  <2>2. ASSUME Cardinality(DOMAIN cache') > CacheMax, NEW k \in DOMAIN cache', NEW last \in DOMAIN cache'
        PROVE  cache'[k].exp >= cache'[last].exp - TTL
    <3>1. now <= put[k].exp
      BY <1>13, <2>2
    <3>2. cache'[k].exp \in Nat /\ cache'[last].exp \in Nat
      BY <1>17 DEF Entry
    <3>3. cache'[last].exp - TTL <= now
      BY <1>2, <1>15 DEF EntryOK
    <3> QED BY <1>8, <1>13, <3>1, <3>2, <3>3
  <2> QED BY <2>1, <2>2 DEF SizeOK
<1> QED BY <1>14, <1>15, <1>18, <1>19, <1>20 DEF StatInv

-----------------------------------------------------------------------------

LEMMA StatInitially == Init => StatInv
<1> SUFFICES ASSUME Init PROVE StatInv
  OBVIOUS
<1>1. /\ file = <<>> /\ synced = 0 /\ ready = FALSE /\ open = FALSE /\ syncer = "none" /\ ended = FALSE
      /\ closer = "no" /\ holder = None /\ batch = [w \in Writers |-> <<>>]
      /\ reader = [r \in Readers |-> Resting] /\ made = 0 /\ faults = 0
      /\ acked = {} /\ promised = {} /\ swallowed = FALSE
  BY DEF Init, LogInit
<1>2. /\ now = 0 /\ cache = [k \in {} |-> NoReport] /\ request = [r \in Readers |-> NoRequest]
      /\ report = [r \in Readers |-> NoReport] /\ begun = 0 /\ lenAt = <<>>
  BY DEF Init, StatsInit
<1>3. LogTypes
  <2>1. Len(file) = 0 /\ file \in Seq(LineRecord)
    BY <1>1
  <2>2. batch \in [Writers -> Seq(LineRecord)] /\ \A w \in Writers : Len(batch[w]) = 0
    BY <1>1
  <2>3. synced \in 0..Len(file) /\ made \in 0..MaxLines /\ faults \in 0..MaxFaults
    BY <1>1, <2>1, Limits
  <2>4. /\ ready \in BOOLEAN /\ open \in BOOLEAN /\ ended \in BOOLEAN /\ swallowed \in BOOLEAN
        /\ ready = open /\ (open => closer = "no") /\ holder = None
        /\ syncer \in {"none", "runs", "ended"} /\ closer \in {"no", "closed"}
        /\ acked \subseteq 1..MaxLines /\ promised \subseteq 1..MaxLines
    BY <1>1
  <2>5. \A w \in Writers : Len(batch[w]) \in {0} \cup Sizes
    BY <2>2
  <2> QED BY <2>1, <2>2, <2>3, <2>4, <2>5 DEF LogTypes
<1>4. DOMAIN cache = {}
  BY <1>2
<1>5. StatTypes
  BY <1>1, <1>2, <1>4, Limits, RestingIs, NoReportIs DEF StatTypes
<1>6. TimesOK
  BY <1>2 DEF TimesOK
<1>7. \A r \in Readers : ReaderOK(r)
  <2> TAKE r \in Readers
  <2>1. NoRequest.step = "none"
    BY DEF NoRequest
  <2>2. 0 <= Len(file) /\ 0 <= MaxRec
    BY <1>3, LineAt, Limits
  <2> QED BY <1>1, <1>2, <2>1, <2>2, RestingIs DEF ReaderOK, ScanOK
<1>8. SizeOK
  <2>1. IsFiniteSet(DOMAIN cache) /\ Cardinality(DOMAIN cache) = 0
    BY <1>4, FS_EmptySet
  <2> QED BY <1>4, <2>1 DEF SizeOK
<1> QED BY <1>3, <1>4, <1>5, <1>6, <1>7, <1>8 DEF StatInv

LEMMA StatStep == StatInv /\ [Next]_<<logVars, statsVars>> => StatInv'
<1> SUFFICES ASSUME StatInv, [Next]_<<logVars, statsVars>> PROVE StatInv'
  OBVIOUS
<1>1. CASE LogStep /\ UNCHANGED statsVars
  BY <1>1, LogStepInv
<1>2. CASE Tick
  BY <1>2, TickInv
<1>3. ASSUME NEW r \in Readers, NEW code \in Codes, NEW asked \in Asked, Miss(r, code, asked) PROVE StatInv'
  BY <1>3, MissInv
<1>4. ASSUME NEW r \in Readers, CountLine(r) PROVE StatInv'
  BY <1>4, CountLineInv
<1>5. ASSUME NEW r \in Readers, Canceled(r) PROVE StatInv'
  BY <1>5, CanceledInv
<1>6. ASSUME NEW r \in Readers, FirstDone(r) PROVE StatInv'
  BY <1>6, FirstDoneInv
<1>7. ASSUME NEW r \in Readers, SecondScan(r) PROVE StatInv'
  BY <1>7, SecondScanInv
<1>8. ASSUME NEW r \in Readers, DailyLine(r) PROVE StatInv'
  BY <1>8, DailyLineInv
<1>9. ASSUME NEW r \in Readers, SecondDone(r) PROVE StatInv'
  BY <1>9, SecondDoneInv
<1>10. ASSUME NEW r \in Readers, SecondRefused(r) PROVE StatInv'
  BY <1>10, SecondRefusedInv
<1>11. ASSUME NEW r \in Readers, Store(r) PROVE StatInv'
  BY <1>11, StoreInv
<1>12. CASE UNCHANGED <<logVars, statsVars>>
  <2>1. UNCHANGED <<file, synced, ready, open, syncer, ended, closer, holder, batch, reader, made, faults,
                    acked, promised, swallowed, now, cache, request, report, begun, lenAt>>
    BY <1>12 DEF logVars, statsVars
  <2>2. UNCHANGED notReaders
    BY <2>1 DEF notReaders, process, writing, logHistory
  <2>3. /\ LogTypes' /\ TimesOK' /\ Ahead /\ now' \in Nat
    BY <2>1, <2>2, LogStands
  <2>4. \A r \in Readers : ReaderOK(r)'
    BY <2>1, <2>3, ReaderKept
  <2>5. \A k \in DOMAIN cache' : EntryOK(k)'
    BY <2>1, <2>3, EntryKept
  <2>6. StatTypes' /\ SizeOK'
    BY <2>1 DEF StatInv, StatTypes, SizeOK
  <2> QED BY <2>3, <2>4, <2>5, <2>6 DEF StatInv
<1> QED BY <1>1, <1>2, <1>3, <1>4, <1>5, <1>6, <1>7, <1>8, <1>9, <1>10, <1>11, <1>12 DEF Next

LEMMA StatInductive == Spec => []StatInv
BY StatInitially, StatStep, PTL DEF Spec

\* TypeOK, for Overall of stats_service.go and the log under it: every variable
\* keeps its kind; a report is computed by one who reads the log; and once the cache
\* has more than CacheMax reports, storing one has left none that was out of date.
THEOREM ReportsTyped == Spec => []TypeOK
<1>1. StatInv => TypeOK
  <2> SUFFICES ASSUME StatInv PROVE TypeOK
    OBVIOUS
  <2>1. LogTypes /\ StatTypes /\ TimesOK /\ SizeOK
    BY DEF StatInv
  <2>2. LogTypeOK
    <3>1. \A r \in Readers : reader[r].pos \in 0..Len(file) /\ reader[r].err \in BOOLEAN
      <4> TAKE r \in Readers
      <4>1. reader[r] \in Decoder /\ reader[r].pos \in Nat /\ reader[r].pos <= Len(file) /\ Len(file) \in Nat
        BY <2>1, ReaderIs, LineAt
      <4> QED BY <4>1 DEF Decoder
    <3> QED BY <2>1, <3>1 DEF LogTypes, LogTypeOK, LineRecord
  <2>3. \A r \in Readers :
          /\ request[r].step \in {"none", "first", "second", "store"}
          /\ reader[r].goal \in {"first", "second"} => Asks(r, reader[r].goal)
    BY ReaderIs DEF Asks
  <2>4. \A r \in Readers : report[r].pv \in 0..MaxRec /\ report[r].daily \in 0..MaxRec
    <3> TAKE r \in Readers
    <3>1. PICK q, d, pos : q = request[r] /\ d = report[r] /\ pos = reader[r].pos
      OBVIOUS
    <3>2. /\ d \in Data /\ q.step \in {"none", "first", "second", "store"}
          /\ ScanOK(q, d, reader[r]) /\ pos \in Nat /\ pos <= MaxRec
      BY <3>1, ReaderIs DEF ReaderOK
    <3>3. ASSUME NEW size \in Nat, size <= MaxRec PROVE LinesOf(q.code, size) \in 0..MaxRec
      <4>1. LinesOf(q.code, size) \in 0..size
        BY LinesBound
      <4> QED BY <3>3, <4>1, Limits
    <3>4. 0 \in 0..MaxRec /\ LinesOf(q.code, pos) \in 0..MaxRec
      BY <3>2, <3>3, Limits
    <3>5. Totalled(q.code, d) => d.pv \in 0..MaxRec
      BY <3>2, <3>3 DEF Totalled, Data
    <3>6. Broken(q.code, d) => d.daily \in 0..MaxRec
      <4>1. CASE d.cut
        BY <3>4, <4>1 DEF Broken
      <4>2. CASE ~d.cut
        BY <3>2, <3>3, <4>2 DEF Broken, Data
      <4> QED BY <4>1, <4>2
    <3>7. CASE q.step = "none"
      <4>1. d = NoReport
        BY <3>2, <3>7 DEF ScanOK
      <4> QED BY <3>1, <3>4, <4>1, NoReportIs
    <3>8. CASE q.step = "first"
      <4>1. d.pv = LinesOf(q.code, pos) /\ d.daily = 0
        BY <3>1, <3>2, <3>8 DEF ScanOK
      <4> QED BY <3>1, <3>4, <4>1
    <3>9. CASE q.step = "second"
      <4>1. Totalled(q.code, d) /\ d.daily = LinesOf(q.code, pos)
        BY <3>1, <3>2, <3>9 DEF ScanOK
      <4> QED BY <3>1, <3>4, <3>5, <4>1
    <3>10. CASE q.step = "store"
      <4>1. Totalled(q.code, d) /\ Broken(q.code, d)
        BY <3>1, <3>2, <3>10 DEF ScanOK
      <4> QED BY <3>1, <3>5, <3>6, <4>1
    <3> QED BY <3>2, <3>7, <3>8, <3>9, <3>10
  <2> QED BY <2>1, <2>2, <2>3, <2>4 DEF TypeOK, StatTypes, TimesOK, SizeOK
<1> QED BY <1>1, StatInductive, PTL

\* ReportsCount, for aggregate and fillDailyUV of stats_service.go: however appends,
\* a Close and other requests come between the lines of its two scans, a report in
\* the cache counts each line of its code once, in a part of the log that has what
\* was there when it was begun, and its days agree unless the log was closed.
THEOREM ReportsAreCounts == Spec => []ReportsCount
<1>1. StatInv => ReportsCount
  <2> SUFFICES ASSUME StatInv, NEW k \in DOMAIN cache
               PROVE  LET v == cache[k] d == v.data IN
                      /\ d.upTo \in d.least..MaxRec
                      /\ d.pv = LinesOf(v.code, d.upTo)
                      /\ IF d.cut THEN d.daily = 0 /\ ~ready
                         ELSE d.dailyUpTo >= d.upTo /\ d.daily = LinesOf(v.code, d.dailyUpTo)
    BY DEF ReportsCount
  <2>1. PICK d : d = cache[k].data
    OBVIOUS
  <2>2. cache[k].code = k[1] /\ Sound(k[1], d) /\ LogTypes /\ cache[k] \in Entry
    BY <2>1 DEF StatInv, EntryOK, StatTypes
  <2>3. d \in Data
    BY <2>1, <2>2 DEF Entry
  <2>4. d.upTo \in d.least..MaxRec /\ d.pv = LinesOf(k[1], d.upTo)
    BY <2>2, <2>3, Limits DEF Sound, Totalled, Data
  <2>5. IF d.cut THEN d.daily = 0 /\ ~ready
        ELSE d.dailyUpTo >= d.upTo /\ d.daily = LinesOf(k[1], d.dailyUpTo)
    <3>1. CASE d.cut
      BY <2>2, <3>1 DEF Sound, Broken, LogTypes
    <3>2. CASE ~d.cut
      BY <2>2, <3>2 DEF Sound, Broken
    <3> QED BY <3>1, <3>2
  <2> QED BY <2>1, <2>2, <2>4, <2>5, Zenon
<1> QED BY <1>1, StatInductive, PTL

\* AnswersFresh, for the cache of Overall: an answer from it is for the code and the
\* period that were asked for, and counts what was in the log TTL before the
\* question, less the time its scans took, whoever computed it.
THEOREM AnswersAreFresh == Spec => []AnswersFresh
<1>1. StatInv => AnswersFresh
  <2> SUFFICES ASSUME StatInv, NEW code \in Codes, NEW asked \in Asked,
                      Fresh(Key(code, Normal(asked)))
               PROVE  LET v == cache[Key(code, Normal(asked))]
                          sure == (now - TTL + 1) - ((v.exp - TTL) - v.data.began)
                      IN  /\ v.code = code /\ v.days = Normal(asked)
                          /\ sure \in DOMAIN lenAt => v.data.upTo >= lenAt[sure]
    BY DEF AnswersFresh
  <2>1. PICK key, v : key = Key(code, Normal(asked)) /\ v = cache[key]
    OBVIOUS
  <2>2. key \in DOMAIN cache /\ now < v.exp /\ key[1] = code /\ key[2] = Normal(asked)
    BY <2>1 DEF Fresh, Key
  <2>3. v \in Entry /\ now \in Nat /\ TimesOK /\ TTL \in Nat
    BY <2>1, <2>2, Limits DEF StatInv, StatTypes
  <2>4. v.code = code /\ v.days = Normal(asked) /\ v.exp - TTL >= v.data.began /\ Sound(code, v.data)
    BY <2>1, <2>2 DEF StatInv, EntryOK
  <2>5. PICK d, end : d = v.data /\ end = v.exp
    OBVIOUS
  <2>6. end \in Nat /\ d.began \in Nat /\ d.least \in Nat /\ d.upTo \in Nat
    BY <2>3, <2>5 DEF Entry, Data
  <2>7. ASSUME NEW sure, sure = (now - TTL + 1) - ((end - TTL) - d.began), sure \in DOMAIN lenAt
        PROVE  d.upTo >= lenAt[sure]
    <3>1. sure \in 1..now
      BY <2>3, <2>7 DEF TimesOK
    <3>2. sure <= d.began
      BY <2>2, <2>3, <2>5, <2>6, <2>7
    <3>3. lenAt[sure] <= d.least /\ lenAt[sure] \in Nat
      <4>1. sure \in 1..d.began
        BY <2>6, <3>1, <3>2
      <4>2. lenAt[sure] <= d.least
        BY <2>4, <2>5, <4>1 DEF Sound, Dated
      <4> QED BY <2>3, <3>1, <4>2 DEF TimesOK
    <3>4. d.upTo >= d.least
      BY <2>4, <2>5 DEF Sound, Totalled
    <3> QED BY <2>6, <3>3, <3>4
  <2>8. LET sure == (now - TTL + 1) - ((v.exp - TTL) - v.data.began)
        IN  sure \in DOMAIN lenAt => v.data.upTo >= lenAt[sure]
    BY <2>5, <2>7
  <2> QED BY <2>1, <2>4, <2>8, Zenon
<1> QED BY <1>1, StatInductive, PTL
=============================================================================
