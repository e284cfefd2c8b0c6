------------------------------ MODULE URLStore ------------------------------
(***************************************************************************)
(* The URL store of internal/store/url_store.go with WriteAtomic of        *)
(* internal/store/fileutil.go: a map in memory behind a RWMutex, a dirty   *)
(* flag outside that mutex, and a JSON file rewritten by whoever syncs.    *)
(*                                                                         *)
(* Goroutines: the background Syncer started by Load; Main, which flushes  *)
(* and closes the store when the server stops; Flushers, the handlers that *)
(* call Flush (admin flush and admin health); Writers, the handlers that   *)
(* change the map (and, under FlushOnWrite, write the file while they hold *)
(* the write lock).  A sync is not atomic: it marshals under the read      *)
(* lock, then opens path.tmp, writes, renames, cleans up, and clears dirty *)
(* with no lock held, so the steps of several syncs interleave.            *)
(*                                                                         *)
(* Files are inodes: two names (path, path.tmp), an inode per name, an     *)
(* open descriptor per goroutine.  A record is abstracted to the stamp of  *)
(* the last mutation that wrote it, 0 for a code the map does not hold.    *)
(***************************************************************************)
EXTENDS Naturals

CONSTANTS
    Codes,      \* the short codes
    Writers,    \* handlers (and the janitor) that call Save, Delete, IncrementVisits
    Flushers,   \* handlers that call Flush
    Syncer,     \* the goroutine of startSyncerLocked
    Main,       \* the goroutine of main(), which flushes and closes
    None,       \* no file, no lock holder
    Inodes,     \* names for files of the file system: a set of numbers
    MaxVer,     \* bound: mutations of the map
    MaxFaults   \* bound: crashes and I/O errors

Handlers == Writers \cup Flushers
Procs == Handlers \cup {Syncer, Main}

ASSUME ProcsDistinct ==
    /\ Writers \cap Flushers = {}
    /\ Syncer # Main
    /\ {Syncer, Main} \cap Handlers = {}
    /\ None \notin Procs \cup Inodes

ASSUME BoundsAreNumbers == Inodes \subseteq Nat /\ MaxVer \in Nat /\ MaxFaults \in Nat

VARIABLES
    conf,       \* [flushOn, syncOn]: FlushOnWrite, and SyncInterval > 0
    mem,        \* the map in memory, with the stamp of its last mutation
    ver,        \* stamps given out so far
    dirty,      \* the atomic dirty flag
    wlock,      \* who holds the write lock across steps
    pc,         \* where a goroutine is in sync / flushLocked
    snap,       \* the bytes it marshalled
    ok,         \* FALSE once a step of its WriteAtomic has failed
    fd,         \* the inode its descriptor of path.tmp refers to
    tmp,        \* the inode path.tmp names
    disk,       \* the inode path names
    content,    \* the bytes of each inode
    syncer,     \* state of the background goroutine
    phase,      \* state of the server process
    drained,    \* srv.Shutdown and janitor.Shutdown waited for all handlers
    acked,      \* history: newest version whose sync returned nil
    overlapped, \* history: two WriteAtomic calls have overlapped
    faults      \* crashes and I/O errors so far

fileVars == <<tmp, disk, content>>
syncVars == <<pc, snap, ok, fd>>
procVars == <<conf, syncer, phase, drained>>
vars == <<conf, mem, ver, dirty, wlock, pc, snap, ok, fd, tmp, disk, content,
          syncer, phase, drained, acked, overlapped, faults>>

-----------------------------------------------------------------------------
(* Data *)

NoUrls == [c \in Codes |-> 0]
Full(v, m) == [kind |-> "full", ver |-> v, urls |-> m]
EmptyFile == [kind |-> "empty", ver |-> 0, urls |-> NoUrls]
TornFile == [kind |-> "torn", ver |-> 0, urls |-> NoUrls]

Bytes == [kind : {"full", "empty", "torn"}, ver : 0..MaxVer,
          urls : [Codes -> 0..MaxVer]]

\* What a process that opens path reads; Load takes a missing file for an empty one.
OnDisk == IF disk = None THEN EmptyFile ELSE content[disk]

\* Mutant: the empty map of an empty file is not made (a nil map).
LoadedAsIs(bytes) == bytes
\* Mutant: the parsed map is not installed.
LoadedNothing(bytes) == Full(0, NoUrls)

\* What json.Unmarshal makes of them; no bytes at all are an empty database too.
Loaded(bytes) == Full(bytes.ver, bytes.urls)

\* Mutant: a short write passes for a complete one.
ShortWrite(old, new) == {new, TornFile}

\* One write(2) at offset 0 of a file that held old.  When another descriptor
\* has put a longer snapshot there, its tail stays behind the new bytes.
Overlay(old, new) == IF old \in {EmptyFile, new} THEN {new} ELSE {new, TornFile}

\* The inode the file system gives to a new file.
Allocated(i) ==
    LET Used == {tmp, disk} \cup {fd[p] : p \in Procs}
    IN i \in Inodes \ Used /\ \A j \in Inodes \ Used : i <= j

\* An inode with neither a name nor an open descriptor is gone.
Reclaimed(bytes) ==
    [i \in Inodes |->
        IF i \in {tmp', disk'} \cup {fd'[p] : p \in Procs} THEN bytes[i] ELSE EmptyFile]

-----------------------------------------------------------------------------
Init ==
    /\ conf \in [flushOn : BOOLEAN, syncOn : BOOLEAN]
    /\ mem = Full(0, NoUrls) /\ ver = 0 /\ dirty = FALSE /\ wlock = None
    /\ pc = [p \in Procs |-> "idle"]
    /\ snap = [p \in Procs |-> EmptyFile]
    /\ ok = [p \in Procs |-> TRUE]
    /\ fd = [p \in Procs |-> None]
    /\ tmp = None /\ disk = None /\ content = [i \in Inodes |-> EmptyFile]
    /\ syncer = "done" /\ phase = "down" /\ drained = FALSE
    /\ acked = 0 /\ overlapped = FALSE /\ faults = 0

Running == phase \notin {"down", "failed"}

\* Load: a torn file is a ParseURLFile error, and main() exits on it.
Load ==
    /\ phase = "down"
    /\ IF OnDisk.kind = "torn"
       THEN phase' = "failed" /\ UNCHANGED <<mem, syncer>>
       ELSE /\ phase' = "up"
            /\ mem' = Loaded(OnDisk)
            /\ syncer' = IF conf.syncOn THEN "loop" ELSE "done"
    /\ UNCHANGED <<conf, ver, dirty, wlock, syncVars, fileVars, drained, acked,
                   overlapped, faults>>

-----------------------------------------------------------------------------
(* The map *)

\* A handler that may run: not between two steps of its own call, and not
\* stopped by a shutdown that waited for it.
Free(p) == Running /\ ~drained /\ pc[p] = "idle"

\* Between Marshal and the end of its WriteAtomic.
Writing(p) == pc[p] \in {"open", "write", "rename", "cleanup"}
Overlaps(p) == overlapped \/ \E q \in Procs \ {p} : Writing(q)

Mutate(m) ==
    /\ wlock = None /\ ver < MaxVer
    /\ ver' = ver + 1
    /\ mem' = Full(ver + 1, m)
    /\ dirty' = TRUE

\* flushLocked, called with the write lock held: its own copy of marshal + WriteAtomic.
FlushLocked(w) ==
    IF conf.flushOn
    THEN /\ wlock' = w
         /\ snap' = [snap EXCEPT ![w] = mem']
         /\ pc' = [pc EXCEPT ![w] = "open"]
         /\ overlapped' = Overlaps(w)
    ELSE UNCHANGED <<wlock, snap, pc, overlapped>>

Save(w, c, overwrite) ==
    /\ Free(w)
    /\ mem.urls[c] = 0 \/ overwrite
    /\ Mutate([mem.urls EXCEPT ![c] = ver + 1])
    /\ FlushLocked(w)
    /\ UNCHANGED <<ok, fd, fileVars, procVars, acked, faults>>

Delete(w, c) ==
    /\ Free(w)
    /\ mem.urls[c] # 0
    /\ Mutate([mem.urls EXCEPT ![c] = 0])
    /\ FlushLocked(w)
    /\ UNCHANGED <<ok, fd, fileVars, procVars, acked, faults>>

\* Marks the store dirty and never flushes, whatever FlushOnWrite says.
IncrementVisits(w, c) ==
    /\ Free(w)
    /\ mem.urls[c] # 0
    /\ Mutate([mem.urls EXCEPT ![c] = ver + 1])
    /\ UNCHANGED <<wlock, syncVars, fileVars, procVars, acked, overlapped, faults>>

-----------------------------------------------------------------------------
(* sync *)

\* Its first step: the snapshot, under the read lock.
Marshal(p) ==
    /\ wlock = None
    /\ snap' = [snap EXCEPT ![p] = mem]
    /\ pc' = [pc EXCEPT ![p] = "open"]
    /\ overlapped' = Overlaps(p)
    /\ UNCHANGED <<conf, mem, ver, dirty, wlock, ok, fd, fileVars, drained, acked, faults>>

\* The ticker: dirty is read here, the map only in TickSync.
Tick ==
    /\ syncer = "loop" /\ pc[Syncer] = "idle" /\ dirty
    /\ pc' = [pc EXCEPT ![Syncer] = "marshal"]
    /\ UNCHANGED <<conf, mem, ver, dirty, wlock, snap, ok, fd, fileVars, syncer,
                   phase, drained, acked, overlapped, faults>>

TickSync ==
    /\ pc[Syncer] = "marshal"
    /\ Marshal(Syncer)
    /\ UNCHANGED <<syncer, phase>>

\* Close has cancelled the context: one last sync, then wg.Done.
FinalSync ==
    /\ syncer = "loop" /\ pc[Syncer] = "idle" /\ phase = "wait"
    /\ Marshal(Syncer)
    /\ syncer' = "final"
    /\ UNCHANGED phase

Flush(f) ==
    /\ Free(f)
    /\ Marshal(f)
    /\ UNCHANGED <<syncer, phase>>

\* Mutant: O_TRUNC is missing.
NotTruncated(bytes) == bytes

\* O_CREATE | O_TRUNC: a leftover path.tmp, or the one another goroutine is
\* writing, is emptied and shared.
Truncated(bytes) == EmptyFile

Open(p) ==
    /\ pc[p] = "open"
    /\ \E i \in Inodes :
        /\ IF tmp = None THEN Allocated(i) ELSE i = tmp
        /\ tmp' = i
        /\ fd' = [fd EXCEPT ![p] = i]
        /\ content' = [content EXCEPT ![i] = IF tmp = None THEN EmptyFile ELSE Truncated(@)]
    /\ pc' = [pc EXCEPT ![p] = "write"]
    /\ UNCHANGED <<conf, mem, ver, dirty, wlock, snap, ok, disk, syncer, phase,
                   drained, acked, overlapped, faults>>

Write(p) ==
    /\ pc[p] = "write"
    /\ \E bytes \in Overlay(content[fd[p]], snap[p]) :
        content' = [content EXCEPT ![fd[p]] = bytes]
    /\ pc' = [pc EXCEPT ![p] = "rename"]
    /\ UNCHANGED <<conf, mem, ver, dirty, wlock, snap, ok, fd, tmp, disk, syncer,
                   phase, drained, acked, overlapped, faults>>

\* OpenFile fails: WriteAtomic returns before its deferred cleanup exists.
OpenError(p) ==
    /\ pc[p] = "open" /\ faults < MaxFaults
    /\ faults' = faults + 1
    /\ ok' = [ok EXCEPT ![p] = FALSE]
    /\ pc' = [pc EXCEPT ![p] = "finish"]
    /\ UNCHANGED <<conf, mem, ver, dirty, wlock, snap, fd, fileVars, syncer, phase,
                   drained, acked, overlapped>>

\* Write, Sync or Close fails: nothing, part or all of the bytes are in the file.
WriteError(p) ==
    /\ pc[p] = "write" /\ faults < MaxFaults
    /\ faults' = faults + 1
    /\ \E bytes \in {content[fd[p]], TornFile} \cup Overlay(content[fd[p]], snap[p]) :
        content' = [content EXCEPT ![fd[p]] = bytes]
    /\ ok' = [ok EXCEPT ![p] = FALSE]
    /\ pc' = [pc EXCEPT ![p] = "cleanup"]
    /\ UNCHANGED <<conf, mem, ver, dirty, wlock, snap, fd, tmp, disk, syncer, phase,
                   drained, acked, overlapped>>

\* Whatever path.tmp names by now becomes path; a name already gone is an error.
Rename(p) ==
    /\ pc[p] = "rename"
    /\ IF tmp = None
       THEN ok' = [ok EXCEPT ![p] = FALSE] /\ UNCHANGED <<tmp, disk>>
       ELSE disk' = tmp /\ tmp' = None /\ UNCHANGED ok
    /\ UNCHANGED fd
    /\ content' = Reclaimed(content)
    /\ pc' = [pc EXCEPT ![p] = "cleanup"]
    /\ UNCHANGED <<conf, mem, ver, dirty, wlock, snap, syncer, phase, drained, acked,
                   overlapped, faults>>

\* The deferred function: close, and remove path.tmp if the name exists, no
\* matter who created it.
Cleanup(p) ==
    /\ pc[p] = "cleanup"
    /\ fd' = [fd EXCEPT ![p] = None]
    /\ tmp' = None
    /\ UNCHANGED disk
    /\ content' = Reclaimed(content)
    /\ pc' = [pc EXCEPT ![p] = "finish"]
    /\ UNCHANGED <<conf, mem, ver, dirty, wlock, snap, ok, syncer, phase, drained,
                   acked, overlapped, faults>>

\* Mutant: the error of WriteAtomic is dropped.
ErrorDropped(p) == TRUE

Succeeded(p) == ok[p]

\* Mutant: wg.Done is missing.
NeverDone(p) == syncer

\* wg.Done after the final sync.
SyncerAfter(p) == IF p = Syncer /\ syncer = "final" THEN "done" ELSE syncer

\* main(): FlushAll's error is only logged; then CloseAll, whose result ends it.
PhaseAfter(p) ==
    CASE p = Main /\ phase = "flush" -> "wait"
      [] p = Main /\ phase = "last"  -> IF Succeeded(p) THEN "closed" ELSE "closeErr"
      [] OTHER -> phase

\* WriteAtomic has returned: clear dirty if it succeeded, outside any lock for
\* sync and under the write lock for flushLocked, and return to the caller.
Finish(p) ==
    /\ pc[p] = "finish"
    /\ dirty' = (dirty /\ ~Succeeded(p))
    /\ acked' = IF Succeeded(p) /\ snap[p].ver > acked THEN snap[p].ver ELSE acked
    /\ wlock' = IF wlock = p THEN None ELSE wlock
    /\ pc' = [pc EXCEPT ![p] = "idle"]
    /\ snap' = [snap EXCEPT ![p] = EmptyFile]
    /\ ok' = [ok EXCEPT ![p] = TRUE]
    /\ syncer' = SyncerAfter(p)
    /\ phase' = PhaseAfter(p)
    /\ UNCHANGED <<conf, mem, ver, fd, fileVars, drained, overlapped, faults>>

-----------------------------------------------------------------------------
(* The process *)

\* srv.Shutdown and janitor.Shutdown return: either every handler has ended and
\* no other starts, or the timeout has passed and handlers go on.
Shutdown(waited) ==
    /\ phase = "up"
    /\ waited => \A p \in Handlers : pc[p] = "idle"
    /\ drained' = waited
    /\ phase' = "flush"
    /\ UNCHANGED <<conf, mem, ver, dirty, wlock, syncVars, fileVars, syncer, acked,
                   overlapped, faults>>

\* FlushAll, beside the Syncer, which still runs.
FlushAll ==
    /\ phase = "flush" /\ pc[Main] = "idle"
    /\ Marshal(Main)
    /\ UNCHANGED <<syncer, phase>>

\* Mutant: Close does not wait for the Syncer.
NoWait == TRUE

\* Close: the cancelled Syncer has ended (wg.Wait); sync once more.
SyncerEnded == syncer = "done"

CloseLast ==
    /\ phase = "wait" /\ SyncerEnded
    /\ Marshal(Main)
    /\ phase' = "last"
    /\ UNCHANGED syncer

\* The process ends at any point; only the files remain.
Crash ==
    /\ Running /\ faults < MaxFaults
    /\ faults' = faults + 1
    /\ mem' = Full(0, NoUrls) /\ dirty' = FALSE /\ wlock' = None
    /\ pc' = [p \in Procs |-> "idle"]
    /\ snap' = [p \in Procs |-> EmptyFile]
    /\ ok' = [p \in Procs |-> TRUE]
    /\ fd' = [p \in Procs |-> None]
    /\ syncer' = "done" /\ phase' = "down" /\ drained' = FALSE
    /\ UNCHANGED <<tmp, disk>>
    /\ content' = Reclaimed(content)
    /\ UNCHANGED <<conf, ver, acked, overlapped>>

SyncStep(p) == Open(p) \/ Write(p) \/ Rename(p) \/ Cleanup(p) \/ Finish(p)

Next ==
    \/ Load \/ Tick \/ TickSync \/ FinalSync \/ FlushAll \/ CloseLast \/ Crash
    \/ \E waited \in BOOLEAN : Shutdown(waited)
    \/ \E w \in Writers, c \in Codes :
        \/ \E overwrite \in BOOLEAN : Save(w, c, overwrite)
        \/ Delete(w, c)
        \/ IncrementVisits(w, c)
    \/ \E f \in Flushers : Flush(f)
    \/ \E p \in Procs : SyncStep(p) \/ OpenError(p) \/ WriteError(p)

\* Goroutines are scheduled and the ticker keeps firing.  Nothing makes a
\* handler, a signal or a fault happen.
Fairness ==
    /\ WF_vars(Tick) /\ WF_vars(TickSync) /\ WF_vars(FinalSync)
    /\ WF_vars(FlushAll) /\ WF_vars(CloseLast)
    /\ \A p \in Procs : WF_vars(SyncStep(p))

Spec == Init /\ [][Next]_vars
FairSpec == Spec /\ Fairness

\* The executions in which no two calls of WriteAtomic overlap.
SerialSpec == Init /\ [][Next /\ ~overlapped']_vars

-----------------------------------------------------------------------------
(* Properties *)

\* Every variable has a value of its kind; only a Writer ever keeps the write
\* lock across steps (Save and Delete under FlushOnWrite).
TypeOK ==
    /\ conf \in [flushOn : BOOLEAN, syncOn : BOOLEAN]
    /\ mem \in Bytes /\ mem.kind = "full" /\ ver \in 0..MaxVer /\ dirty \in BOOLEAN
    /\ wlock \in Writers \cup {None}
    /\ pc \in [Procs -> {"idle", "marshal", "open", "write", "rename", "cleanup", "finish"}]
    /\ snap \in [Procs -> Bytes]
    /\ ok \in [Procs -> BOOLEAN]
    /\ fd \in [Procs -> Inodes \cup {None}]
    /\ tmp \in Inodes \cup {None} /\ disk \in Inodes \cup {None}
    /\ content \in [Inodes -> Bytes]
    /\ syncer \in {"loop", "final", "done"}
    /\ phase \in {"down", "failed", "up", "flush", "wait", "last", "closed", "closeErr"}
    /\ drained \in BOOLEAN
    /\ acked \in 0..MaxVer /\ overlapped \in BOOLEAN /\ faults \in 0..MaxFaults

\* What WriteAtomic promises (fileutil.go:34): whatever crash or I/O error
\* happens, path names an old or a complete new file, never half of one.
DiskNeverTorn == disk # None => content[disk].kind = "full"

\* WriteAtomic keeps that promise, leftovers of crashed or failed writes
\* included, as long as no two calls of it overlap.
DiskIntact == ~overlapped => DiskNeverTorn

\* A sync that returned nil has put on disk everything its caller had in
\* memory, and no later step, crash or restart takes the file back before it,
\* unless two syncs overlap.
AckDurable == ~overlapped => acked <= OnDisk.ver

\* No step replaces the file by an older state of the map, unless two syncs overlap.
NoOlderOnDisk == [][~overlapped' => OnDisk'.ver >= OnDisk.ver]_vars

\* A shutdown that waited for the handlers and whose Close returned nil leaves
\* on disk exactly the map in memory, even if syncs overlapped before.
ShutdownDurable == phase = "closed" /\ drained => OnDisk = mem

\* Once main() has begun to flush and close, it gets to the end: it cannot wait
\* forever for the Syncer, nor for the write lock.
ShutdownCompletes == phase = "flush" ~> phase \notin {"flush", "wait", "last"}

\* What the periodic write-back promises (url_store.go:22): while the server
\* stays up, a change of the map reaches the file.
WrittenBack ==
    \A v \in 1..MaxVer :
        (phase = "up" /\ conf.syncOn /\ mem.ver = v)
            ~> (phase # "up" \/ OnDisk.ver >= v)

-----------------------------------------------------------------------------
(* Refinement: without overlapping syncs the store is a durable map whose     *)
(* file changes in one atomic step.                                           *)

\* The snapshot on its way to the file, or what the file holds when none is.
InFlight(p) == pc[p] \in {"open", "write", "rename"}
Taken ==
    IF \E p \in Procs : InFlight(p)
    THEN snap[CHOOSE p \in Procs : InFlight(p)]
    ELSE Loaded(OnDisk)

DM == INSTANCE DurableMap
        WITH mem <- IF Running THEN mem ELSE Loaded(OnDisk),
             taken <- Taken,
             disk <- Loaded(OnDisk),
             acked <- acked

\* Every step of the serial store is a step of the durable map: memory runs
\* ahead, the file jumps from one state of the map to a later one, a restart
\* loses what was not yet written, and never what a sync has acknowledged.
RefinesDurableMap == DM!Spec
=============================================================================
