----------------------------- MODULE AccessLog -----------------------------
(***************************************************************************)
(* AccessLogStore of internal/store/access_store.go: an append-only file   *)
(* of JSON lines behind a mutex, a goroutine that syncs it, and readers    *)
(* that open the file for themselves and take no lock.                     *)
(*                                                                         *)
(* A line is its number, its code and whether its bytes are all there.     *)
(* A write is two steps, between which a reader finds half a line; a write *)
(* that fails, or a crash, leaves that half line in the file for good.     *)
(***************************************************************************)
EXTENDS Naturals, Sequences, SequencesExt, FiniteSets

CONSTANTS
    Codes,         \* short codes
    Writers,       \* goroutines that append
    Readers,       \* goroutines that scan
    None,          \* nobody
    Sizes,         \* lines in one append: 1 for Append, more for AppendMany
    FlushOnWrite,  \* configuration: every Append syncs
    MaxLines,      \* bound: lines that are written
    MaxFaults      \* bound: crashes and I/O errors

ASSUME LogConstantsOK ==
    /\ None \notin Writers /\ Sizes \subseteq Nat \ {0}
    /\ FlushOnWrite \in BOOLEAN
    /\ MaxLines \in Nat /\ MaxFaults \in Nat

VARIABLES
    file,      \* the lines in the file
    synced,    \* how many of them are on the disk
    ready,     \* ready
    open,      \* file # nil
    syncer,    \* the goroutine that syncs: "none", "runs", "ended"
    ended,     \* its context has ended
    closer,    \* Close: "no", "waits", "closed"
    holder,    \* who is inside file.Write, with the mutex
    batch,     \* what each writer is about to write; empty: nothing
    reader,    \* the decoder of each reader
    made,      \* lines made so far
    faults,    \* crashes and errors so far
    acked,     \* history: lines whose Append returned nil
    promised,  \* history: lines in the file when Sync or Close returned nil
    swallowed  \* history: Close returned nil after its Sync had failed

process == <<ready, open, syncer, ended, closer>>
writing == <<holder, batch>>
logHistory == <<acked, promised, swallowed>>
notReaders == <<file, synced, process, writing, made, faults, logHistory>>
logVars == <<file, synced, ready, open, syncer, ended, closer, holder, batch,
             reader, made, faults, acked, promised, swallowed>>

Line(i, c) == [id |-> i, code |-> c, whole |-> TRUE]
Half(line) == [line EXCEPT !.whole = FALSE]
Ids(lines) == {lines[i].id : i \in DOMAIN lines}
WholeIds == {file[i].id : i \in {j \in DOMAIN file : file[j].whole}}

\* What a call of Append or AppendMany is given.
Batches == UNION {[1..n -> Codes] : n \in Sizes}

Resting == [goal |-> "none", pos |-> 0, err |-> FALSE]

LogInit ==
    /\ file = <<>> /\ synced = 0
    /\ ready = FALSE /\ open = FALSE /\ syncer = "none" /\ ended = FALSE /\ closer = "no"
    /\ holder = None /\ batch = [w \in Writers |-> <<>>]
    /\ reader = [r \in Readers |-> Resting]
    /\ made = 0 /\ faults = 0
    /\ acked = {} /\ promised = {} /\ swallowed = FALSE

-----------------------------------------------------------------------------
(* Open and the goroutine that syncs *)

\* At the start of the process; what the file holds was left by the one before.
Open ==
    /\ ~open /\ closer = "no"
    /\ open' = TRUE /\ ready' = TRUE
    /\ syncer' = "runs" /\ ended' = FALSE
    /\ UNCHANGED <<file, synced, closer, writing, reader, made, faults, logHistory>>

\* file.Sync(), by whoever holds the mutex: ok says whether it succeeds.
Fsync(ok) ==
    /\ ok \/ faults < MaxFaults
    /\ synced' = IF ok THEN Len(file) ELSE synced
    /\ faults' = IF ok THEN faults ELSE faults + 1

\* The context of the goroutine ends: five seconds after Open, or with the signal.
ContextEnds ==
    /\ syncer = "runs" /\ ~ended
    /\ ended' = TRUE
    /\ UNCHANGED <<file, synced, ready, open, syncer, closer, writing, reader, made, faults, logHistory>>

\* One round of its loop; the last one when select finds the context ended.
SyncerRound(last, ok) ==
    /\ syncer = "runs" /\ holder = None /\ (last => ended)
    /\ syncer' = IF last THEN "ended" ELSE "runs"
    /\ Fsync(ok)
    /\ UNCHANGED <<file, ready, open, ended, closer, writing, reader, made, logHistory>>

-----------------------------------------------------------------------------
(* Sync and Close *)

\* Sync by an admin request.  Before Open and after Close it returns nil at once.
Sync(ok) ==
    /\ open \/ closer = "closed"
    /\ IF ready THEN holder = None /\ Fsync(ok) ELSE ok /\ UNCHANGED <<synced, faults>>
    /\ promised' = IF ok THEN promised \cup WholeIds ELSE promised
    /\ UNCHANGED <<file, process, writing, reader, made, acked, swallowed>>

\* Close: the context is cancelled, ...
CloseBegin ==
    /\ open /\ closer = "no"
    /\ closer' = "waits" /\ ended' = TRUE
    /\ UNCHANGED <<file, synced, ready, open, syncer, writing, reader, made, faults, logHistory>>

\* Mutant: the file is closed as it is.
NoSync(ok) == UNCHANGED <<synced, faults>>
LastSync(ok) == Fsync(ok)

\* ... and when the goroutine has ended the file is synced and closed.  The error
\* of the sync is overwritten by that of file.Close.
CloseEnd(ok) ==
    /\ closer = "waits" /\ syncer # "runs" /\ holder = None
    /\ LastSync(ok)
    /\ swallowed' = (swallowed \/ ~ok)
    /\ open' = FALSE /\ ready' = FALSE /\ closer' = "closed"
    /\ promised' = promised \cup WholeIds
    /\ UNCHANGED <<file, syncer, ended, writing, reader, made, acked>>

-----------------------------------------------------------------------------
(* Append and AppendMany *)

\* ready is tested and the lines are marshalled before the mutex is taken.
Begin(w, codes) ==
    /\ batch[w] = <<>> /\ ready /\ made + Len(codes) <= MaxLines
    /\ batch' = [batch EXCEPT ![w] = [i \in DOMAIN codes |-> Line(made + i, codes[i])]]
    /\ made' = made + Len(codes)
    /\ UNCHANGED <<file, synced, process, holder, reader, faults, logHistory>>

\* Closed in between: ErrStoreNotReady.
Refused(w) ==
    /\ batch[w] # <<>> /\ holder = None /\ ~open
    /\ batch' = [batch EXCEPT ![w] = <<>>]
    /\ UNCHANGED <<file, synced, process, holder, reader, made, faults, logHistory>>

\* Mutant: the mutex is not taken.
Anyone == TRUE
Free == holder = None

\* The first k lines are in the file, and half of the next.
StartWrite(w, k) ==
    /\ Free /\ holder # w /\ open
    /\ holder' = w
    /\ file' = file \o SubSeq(batch[w], 1, k) \o <<Half(batch[w][k + 1])>>
    /\ UNCHANGED <<synced, process, batch, reader, made, faults, logHistory>>

\* The rest of the batch follows the bytes that are there, if they are still the last.
Continued(w) ==
    LET half == Last(file)
        cut == CHOOSE i \in DOMAIN batch[w] : batch[w][i].id = half.id
        left == SubSeq(batch[w], cut + 1, Len(batch[w]))
    IN IF half.id \in Ids(batch[w])
       THEN Front(file) \o <<[half EXCEPT !.whole = TRUE]>> \o left
       ELSE file \o <<Half(Last(batch[w]))>>

\* An error of the sync of FlushOnWrite is ignored.
EndWrite(w, ok) ==
    /\ holder = w
    /\ file' = Continued(w)
    /\ IF FlushOnWrite
       THEN /\ ok \/ faults < MaxFaults
            /\ synced' = IF ok THEN Len(file') ELSE synced
            /\ faults' = IF ok THEN faults ELSE faults + 1
       ELSE ok /\ UNCHANGED <<synced, faults>>
    /\ holder' = None /\ batch' = [batch EXCEPT ![w] = <<>>]
    /\ acked' = acked \cup Ids(batch[w])
    /\ UNCHANGED <<process, reader, made, promised, swallowed>>

\* file.Write fails with the half line written.
FailWrite(w) ==
    /\ holder = w /\ faults < MaxFaults
    /\ holder' = None /\ batch' = [batch EXCEPT ![w] = <<>>]
    /\ faults' = faults + 1
    /\ UNCHANGED <<file, synced, process, reader, made, logHistory>>

-----------------------------------------------------------------------------
(* Scan and CountLines: one line at a time, from the start of the file *)

ScanBegins(r, goal) ==
    /\ ready /\ Free
    /\ reader' = [reader EXCEPT ![r] = [goal |-> goal, pos |-> 0, err |-> FALSE]]

AtEnd(r) == ~reader[r].err /\ reader[r].pos = Len(file)
ScanEnds(r) == reader' = [reader EXCEPT ![r] = Resting]

\* A whole line is decoded.
OnLine(r) == ~reader[r].err /\ reader[r].pos < Len(file) /\ file[reader[r].pos + 1].whole
LineOf(r) == file[reader[r].pos + 1]
Advance(r) == reader' = [reader EXCEPT ![r].pos = @ + 1]

\* Half a line: the decoder keeps the error and gives it again at each turn of
\* the loop, while More stays true.  The loop changes nothing from here on.
BadLine(r) ==
    /\ reader[r].goal # "none" /\ ~reader[r].err
    /\ reader[r].pos < Len(file) /\ ~LineOf(r).whole
    /\ reader' = [reader EXCEPT ![r].err = TRUE]
    /\ UNCHANGED notReaders

CountLines(r) ==
    /\ \/ reader[r].goal = "none" /\ ScanBegins(r, "count")
       \/ reader[r].goal = "count" /\ OnLine(r) /\ Advance(r)
       \/ reader[r].goal = "count" /\ AtEnd(r) /\ ScanEnds(r)
    /\ UNCHANGED notReaders

-----------------------------------------------------------------------------

\* What is left when all after the first k lines is lost, from some byte on.
Left(k) == {SubSeq(file, 1, k)} \cup
           {SubSeq(file, 1, k) \o <<Half(file[i])>> : i \in {k + 1} \cap DOMAIN file}

\* The machine stops, and what was not synced may be lost; or only the process is
\* killed, which loses nothing that write has taken and syncs nothing.
Crash(rest) ==
    /\ open \/ closer = "closed"
    /\ faults < MaxFaults /\ faults' = faults + 1
    /\ file' = rest /\ synced' \in {Len(rest)} \cup (IF rest = file THEN {synced} ELSE {})
    /\ ready' = FALSE /\ open' = FALSE /\ syncer' = "none" /\ ended' = FALSE /\ closer' = "no"
    /\ holder' = None /\ batch' = [w \in Writers |-> <<>>]
    /\ reader' = [r \in Readers |-> Resting]
    /\ acked' = {i \in acked : \E j \in DOMAIN rest : rest[j].id = i /\ rest[j].whole}
    /\ UNCHANGED <<made, promised, swallowed>>

AppendStep ==
    \E w \in Writers :
        \/ \E codes \in Batches : Begin(w, codes)
        \/ \E k \in 0..(Len(batch[w]) - 1) : StartWrite(w, k)
        \/ Refused(w) \/ FailWrite(w)
        \/ \E ok \in BOOLEAN : EndWrite(w, ok)

SyncStep ==
    \/ ContextEnds
    \/ \E ok \in BOOLEAN : Sync(ok) \/ \E last \in BOOLEAN : SyncerRound(last, ok)

LogNext ==
    \/ Open \/ AppendStep \/ SyncStep \/ CloseBegin
    \/ \E ok \in BOOLEAN : CloseEnd(ok)
    \/ \E r \in Readers : BadLine(r) \/ CountLines(r)
    \/ \E k \in synced..Len(file) : \E rest \in Left(k) : Crash(rest)

\* Whoever is inside file.Write returns from it, and the loop of a reader goes round.
LogFairness ==
    /\ \A w \in Writers : WF_logVars(\E ok \in BOOLEAN : EndWrite(w, ok))
    /\ \A r \in Readers : WF_logVars(reader[r].goal # "none" /\ (BadLine(r) \/ CountLines(r)))

LogSpec == LogInit /\ [][LogNext]_logVars /\ LogFairness

-----------------------------------------------------------------------------
(* Properties *)

\* Every variable has a value of its kind; in particular the disk is never ahead
\* of the file, and the mutex is held by one who has something to write.
LogTypeOK ==
    /\ file \in Seq([id : 1..MaxLines, code : Codes, whole : BOOLEAN])
    /\ synced \in 0..Len(file)
    /\ {ready, open, ended, swallowed} \subseteq BOOLEAN
    /\ syncer \in {"none", "runs", "ended"} /\ closer \in {"no", "waits", "closed"}
    /\ holder # None => holder \in Writers /\ batch[holder] # <<>>
    /\ \A w \in Writers : Len(batch[w]) \in {0} \cup Sizes
    /\ \A r \in Readers : reader[r].pos \in 0..Len(file) /\ reader[r].err \in BOOLEAN
    /\ made \in 0..MaxLines /\ faults \in 0..MaxFaults
    /\ acked \subseteq 1..MaxLines /\ promised \subseteq 1..MaxLines

\* Append and AppendMany against each other, errors, Close and restarts: a line
\* whose Append returned nil is in the file, whole and once (until a crash that
\* had not been synced), and there is half a line only where somebody is
\* writing it or where a write or the process was cut off.
LogIntact ==
    LET halves == {i \in DOMAIN file : ~file[i].whole} IN
    /\ acked \subseteq WholeIds
    /\ \A i, j \in DOMAIN file : file[i].id = file[j].id => i = j
    /\ holder # None => Len(file) \in halves
    /\ Cardinality(halves) <= faults + (IF holder = None THEN 0 ELSE 1)

\* A line that was in the file when Sync or Close returned nil survives every
\* crash, unless it was a Close whose own sync had failed; that holds although the
\* goroutine that syncs ends while lines are still appended, and Sync answers nil
\* without a sync when the file is closed.
SyncedLinesSurvive == swallowed \/ promised \subseteq WholeIds

\* A Scan or CountLines that has begun ends: a line that cannot be decoded is
\* skipped, as the comments at lines 227 and 256 say.
ScanReturns == \A r \in Readers : reader[r].goal # "none" ~> reader[r].goal = "none"
=============================================================================
