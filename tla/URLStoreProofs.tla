--------------------------- MODULE URLStoreProofs ---------------------------
(***************************************************************************)
(* What URLStore guarantees for every set of codes and goroutines and      *)
(* every bound: type correctness; that the file is never torn and never    *)
(* behind what was acknowledged as long as no two syncs overlap; and that  *)
(* a shutdown that waited for the handlers leaves the map on disk.         *)
(***************************************************************************)
EXTENDS URLStore, TLAPS

-----------------------------------------------------------------------------
(* The inductive invariant *)

\* A process that is down has no goroutines.
DownOK == ~Running => syncer = "done" /\ \A p \in Procs : pc[p] = "idle"

\* Main is idle whenever it is not inside FlushAll or the sync of Close.
MainOK == phase \notin {"flush", "last"} => pc[Main] = "idle"

ControlInv == DownOK /\ MainOK

\* Only the goroutine that is the sole writer is between Marshal and Cleanup.
Sole ==
    \A p, q \in Procs : Writing(p) /\ Writing(q) => p = q

\* A goroutine whose WriteAtomic has not failed yet.
StillOk == \A p \in Procs : pc[p] \notin {"cleanup", "finish"} => ok[p]

\* path.tmp never names the file path names.
NamesApart == tmp # None => tmp # disk

\* What the descriptor of the sole writer refers to, step by step.
FilesOK ==
    /\ DiskNeverTorn
    /\ \A p \in Procs :
        /\ pc[p] \in {"write", "rename"} => tmp # None /\ fd[p] = tmp
        /\ pc[p] = "write" => content[tmp] = EmptyFile
        /\ pc[p] = "rename" => content[tmp] = snap[p]

\* Versions only grow from the file through the snapshot to memory.
VersionsOK ==
    /\ OnDisk.ver <= ver /\ mem.ver <= ver
    /\ Running => OnDisk.ver <= mem.ver
    /\ acked <= OnDisk.ver
    /\ \A p \in Procs :
        /\ InFlight(p) =>
            snap[p].kind = "full" /\ OnDisk.ver <= snap[p].ver /\ snap[p].ver <= mem.ver
        /\ pc[p] \in {"cleanup", "finish"} /\ ok[p] => snap[p].ver <= OnDisk.ver

SerialInv == ~overlapped => Sole /\ FilesOK /\ VersionsOK

IInv == TypeOK /\ ControlInv /\ StillOk /\ NamesApart /\ SerialInv

-----------------------------------------------------------------------------
(* Type correctness *)

LEMMA DataTypes ==
    /\ NoUrls \in [Codes -> 0..MaxVer]
    /\ EmptyFile \in Bytes /\ TornFile \in Bytes
    /\ Full(0, NoUrls) \in Bytes /\ Full(0, NoUrls).kind = "full"
    /\ 0 \in 0..MaxVer /\ 0 \in 0..MaxFaults
    /\ \A v \in 0..MaxVer, m \in [Codes -> 0..MaxVer] :
        Full(v, m) \in Bytes /\ Full(v, m).kind = "full"
BY BoundsAreNumbers DEF NoUrls, EmptyFile, TornFile, Full, Bytes

LEMMA OnDiskType == TypeOK => OnDisk \in Bytes
BY DataTypes DEF TypeOK, OnDisk

LEMMA OverlayType ==
    ASSUME NEW old, NEW new \in Bytes
    PROVE  Overlay(old, new) \subseteq Bytes
BY DataTypes DEF Overlay

LEMMA ReclaimedType ==
    ASSUME TypeOK
    PROVE  Reclaimed(content) \in [Inodes -> Bytes]
BY DataTypes DEF TypeOK, Reclaimed

LEMMA TypeStep == TypeOK /\ [Next]_vars => TypeOK'
<1> SUFFICES ASSUME TypeOK, [Next]_vars PROVE TypeOK'
  OBVIOUS
<1> USE DataTypes, BoundsAreNumbers DEF TypeOK
<1>0. Syncer \in Procs /\ Main \in Procs /\ Handlers \subseteq Procs
      /\ Writers \subseteq Handlers /\ Flushers \subseteq Handlers
  BY DEF Procs, Handlers
<1>1. CASE Load
  BY <1>1, OnDiskType DEF Load, Loaded, Bytes, syncVars, fileVars
<1>2. CASE Tick
  BY <1>2, <1>0 DEF Tick, fileVars
<1>3. CASE TickSync
  BY <1>3, <1>0 DEF TickSync, Marshal, Overlaps, fileVars
<1>4. CASE FinalSync
  BY <1>4, <1>0 DEF FinalSync, Marshal, Overlaps, fileVars
<1>5. CASE FlushAll
  BY <1>5, <1>0 DEF FlushAll, Marshal, Overlaps, fileVars
<1>6. CASE CloseLast
  BY <1>6, <1>0 DEF CloseLast, Marshal, Overlaps, fileVars
<1>7. CASE Crash
  <2>1. content' \in [Inodes -> Bytes]
    BY <1>7, ReclaimedType DEF Crash
  <2>2. faults' \in 0..MaxFaults
    BY <1>7 DEF Crash
  <2>3. /\ pc' \in [Procs -> {"idle", "marshal", "open", "write", "rename",
                             "cleanup", "finish"}]
        /\ snap' \in [Procs -> Bytes] /\ ok' \in [Procs -> BOOLEAN]
        /\ fd' \in [Procs -> Inodes \cup {None}]
    BY <1>7 DEF Crash
  <2> QED BY <1>7, <2>1, <2>2, <2>3 DEF Crash
<1>8. ASSUME NEW waited \in BOOLEAN, Shutdown(waited) PROVE TypeOK'
  BY <1>8 DEF Shutdown, syncVars, fileVars
<1>9. ASSUME NEW w \in Writers, NEW m \in [Codes -> 0..MaxVer],
             Mutate(m), FlushLocked(w)
      PROVE  /\ mem' \in Bytes /\ mem'.kind = "full" /\ ver' \in 0..MaxVer
             /\ dirty' \in BOOLEAN /\ wlock' \in Writers \cup {None}
             /\ snap' \in [Procs -> Bytes] /\ overlapped' \in BOOLEAN
             /\ pc' \in [Procs -> {"idle", "marshal", "open", "write", "rename",
                                    "cleanup", "finish"}]
  <2>1. ver' \in 0..MaxVer /\ mem' \in Bytes /\ mem'.kind = "full"
    BY <1>9 DEF Mutate
  <2> QED BY <2>1, <1>9, <1>0 DEF Mutate, FlushLocked, Overlaps
<1>10. ASSUME NEW w \in Writers, NEW c \in Codes, NEW overwrite \in BOOLEAN,
              Save(w, c, overwrite)
       PROVE  TypeOK'
  <2>1. [mem.urls EXCEPT ![c] = ver + 1] \in [Codes -> 0..MaxVer]
    BY <1>10 DEF Save, Mutate, Bytes
  <2> QED BY <2>1, <1>9, <1>10 DEF Save, fileVars, procVars
<1>11. ASSUME NEW w \in Writers, NEW c \in Codes, Delete(w, c) PROVE TypeOK'
  <2>1. [mem.urls EXCEPT ![c] = 0] \in [Codes -> 0..MaxVer]
    BY DEF Bytes
  <2> QED BY <2>1, <1>9, <1>11 DEF Delete, fileVars, procVars
<1>12. ASSUME NEW w \in Writers, NEW c \in Codes, IncrementVisits(w, c) PROVE TypeOK'
  <2>1. [mem.urls EXCEPT ![c] = ver + 1] \in [Codes -> 0..MaxVer]
    BY <1>12 DEF IncrementVisits, Mutate, Bytes
  <2> QED BY <2>1, <1>12 DEF IncrementVisits, Mutate, syncVars, fileVars, procVars
<1>13. ASSUME NEW f \in Flushers, Flush(f) PROVE TypeOK'
  BY <1>13, <1>0 DEF Flush, Marshal, Overlaps, fileVars
<1>14. ASSUME NEW p \in Procs, SyncStep(p) \/ OpenError(p) \/ WriteError(p) PROVE TypeOK'
  <2>1. CASE Open(p)
    <3>1. PICK i \in Inodes :
              /\ tmp' = i /\ fd' = [fd EXCEPT ![p] = i]
              /\ content' = [content EXCEPT ![i] = EmptyFile]
      BY <2>1 DEF Open, Truncated
    <3> QED BY <2>1, <3>1 DEF Open
  <2>2. CASE Write(p)
    <3>1. PICK bytes \in Bytes : content' = [content EXCEPT ![fd[p]] = bytes]
      BY <2>2, OverlayType DEF Write
    <3>2. content' \in [Inodes -> Bytes]
      BY <3>1
    <3> QED BY <2>2, <3>2 DEF Write
  <2>3. CASE Rename(p)
    <3>1. content' \in [Inodes -> Bytes]
      BY <2>3, ReclaimedType DEF Rename
    <3>2. tmp' \in Inodes \cup {None} /\ disk' \in Inodes \cup {None}
      BY <2>3 DEF Rename
    <3>3. /\ ok' \in [Procs -> BOOLEAN]
          /\ pc' \in [Procs -> {"idle", "marshal", "open", "write", "rename",
                               "cleanup", "finish"}]
      BY <2>3 DEF Rename
    <3> QED BY <2>3, <3>1, <3>2, <3>3 DEF Rename
  <2>4. CASE Cleanup(p)
    BY <2>4, ReclaimedType DEF Cleanup
  <2>5. CASE Finish(p)
    <3>1. acked' \in 0..MaxVer
      BY <2>5 DEF Finish, Bytes
    <3>2. syncer' \in {"loop", "final", "done"}
      BY <2>5 DEF Finish, SyncerAfter
    <3>3. phase' \in {"down", "failed", "up", "flush", "wait", "last", "closed", "closeErr"}
      BY <2>5 DEF Finish, PhaseAfter
    <3> QED BY <2>5, <3>1, <3>2, <3>3 DEF Finish, fileVars
  <2>6. CASE OpenError(p)
    BY <2>6 DEF OpenError, fileVars
  <2>7. CASE WriteError(p)
    <3>1. PICK bytes \in {content[fd[p]], TornFile}
                        \cup Overlay(content[fd[p]], snap[p]) :
              content' = [content EXCEPT ![fd[p]] = bytes]
      BY <2>7 DEF WriteError
    <3>2. fd[p] \in Inodes => bytes \in Bytes
      BY <3>1, OverlayType
    <3>3. content' \in [Inodes -> Bytes]
      BY <3>1, <3>2
    <3> QED BY <2>7, <3>3 DEF WriteError
  <2> QED BY <1>14, <2>1, <2>2, <2>3, <2>4, <2>5, <2>6, <2>7 DEF SyncStep
<1>15. CASE UNCHANGED vars
  BY <1>15 DEF vars
<1> QED BY <1>1, <1>2, <1>3, <1>4, <1>5, <1>6, <1>7, <1>8, <1>10, <1>11, <1>12, <1>13,
           <1>14, <1>15 DEF Next

\* Every variable keeps a value of its kind: in particular the write lock is
\* only ever kept across steps by a handler that saves or deletes.
THEOREM TypeCorrect == Spec => []TypeOK
<1>1. Init => TypeOK
  BY ZenonT(40), DataTypes, BoundsAreNumbers DEF Init, TypeOK
<1> QED BY <1>1, TypeStep, PTL DEF Spec

-----------------------------------------------------------------------------
(* The serial invariant, action by action *)

LEMMA Actors ==
    /\ Syncer \in Procs /\ Main \in Procs /\ Syncer # Main
    /\ Writers \subseteq Procs /\ Flushers \subseteq Procs /\ Handlers \subseteq Procs
    /\ Syncer \notin Handlers /\ Main \notin Handlers
    /\ None \notin Procs /\ None \notin Inodes
BY ProcsDistinct DEF Procs, Handlers

LEMMA ControlStep == TypeOK /\ ControlInv /\ [Next]_vars => ControlInv'
<1> SUFFICES ASSUME TypeOK, ControlInv, [Next]_vars PROVE ControlInv'
  OBVIOUS
<1> USE Actors DEF ControlInv, DownOK, MainOK, Running
<1>0. pc \in [Procs -> {"idle", "marshal", "open", "write", "rename", "cleanup", "finish"}]
  BY DEF TypeOK
<1>1. CASE Load
  BY <1>1, <1>0 DEF Load, syncVars
<1>2. CASE Tick
  BY <1>2, <1>0 DEF Tick
<1>3. CASE TickSync
  BY <1>3, <1>0 DEF TickSync, Marshal
<1>4. CASE FinalSync
  BY <1>4, <1>0 DEF FinalSync, Marshal
<1>5. CASE FlushAll
  BY <1>5, <1>0 DEF FlushAll, Marshal
<1>6. CASE CloseLast
  BY <1>6, <1>0 DEF CloseLast, Marshal
<1>7. CASE Crash
  BY <1>7 DEF Crash
<1>8. ASSUME NEW waited \in BOOLEAN, Shutdown(waited) PROVE ControlInv'
  BY <1>8 DEF Shutdown, syncVars
<1>9. ASSUME NEW w \in Writers, NEW c \in Codes, NEW overwrite \in BOOLEAN,
             Save(w, c, overwrite) \/ Delete(w, c) \/ IncrementVisits(w, c)
      PROVE  ControlInv'
  <2>1. w # Syncer /\ w # Main /\ w \in Procs
    BY DEF Handlers
  <2>2. CASE Save(w, c, overwrite)
    BY <2>1, <2>2, <1>0 DEF Save, FlushLocked, Free, procVars
  <2>3. CASE Delete(w, c)
    BY <2>1, <2>3, <1>0 DEF Delete, FlushLocked, Free, procVars
  <2>4. CASE IncrementVisits(w, c)
    BY <2>4 DEF IncrementVisits, procVars, syncVars
  <2> QED BY <1>9, <2>2, <2>3, <2>4
<1>10. ASSUME NEW f \in Flushers, Flush(f) PROVE ControlInv'
  <2>1. f # Syncer /\ f # Main /\ f \in Procs
    BY DEF Handlers
  <2> QED BY <2>1, <1>10, <1>0 DEF Flush, Marshal, Free
<1>11. ASSUME NEW p \in Procs, Open(p) \/ Write(p) \/ Rename(p) \/ Cleanup(p)
                                \/ OpenError(p) \/ WriteError(p)
       PROVE  ControlInv'
  <2>1. phase' = phase /\ syncer' = syncer /\ pc[p] \notin {"idle", "marshal"}
    BY <1>11 DEF Open, Write, Rename, Cleanup, OpenError, WriteError
  <2>2. PICK s \in {"write", "rename", "cleanup", "finish"} : pc' = [pc EXCEPT ![p] = s]
    BY <1>11 DEF Open, Write, Rename, Cleanup, OpenError, WriteError
  <2> QED BY <2>1, <2>2, <1>0
<1>12. ASSUME NEW p \in Procs, Finish(p) PROVE ControlInv'
  BY <1>12, <1>0 DEF Finish, PhaseAfter, SyncerAfter
<1>13. CASE UNCHANGED vars
  BY <1>13 DEF vars
<1>14. ASSUME NEW p \in Procs, SyncStep(p) \/ OpenError(p) \/ WriteError(p)
       PROVE  ControlInv'
  BY <1>11, <1>12, <1>14 DEF SyncStep
<1>15. CASE Next
  BY <1>1, <1>2, <1>3, <1>4, <1>5, <1>6, <1>7, <1>8, <1>9, <1>10, <1>14, <1>15 DEF Next
<1> QED BY <1>13, <1>15

\* The first step of a sync, whoever takes it.
LEMMA MarshalKeeps ==
    ASSUME IInv, TypeOK', ControlInv', Running, Running', NEW p \in Procs,
           pc[p] \in {"idle", "marshal"}, Marshal(p)
    PROVE  IInv'
<1> USE DEF IInv
<1>1. OnDisk' = OnDisk
  BY DEF Marshal, OnDisk, fileVars
<1>2. /\ pc' = [pc EXCEPT ![p] = "open"] /\ snap' = [snap EXCEPT ![p] = mem]
      /\ UNCHANGED <<mem, ver, ok, fd, tmp, disk, content, acked>>
      /\ pc \in [Procs -> {"idle", "marshal", "open", "write", "rename", "cleanup", "finish"}]
      /\ snap \in [Procs -> Bytes]
  BY DEF Marshal, fileVars, TypeOK
<1>3. NamesApart'
  BY <1>2 DEF NamesApart
<1>4. ASSUME ~overlapped' PROVE Sole' /\ FilesOK' /\ VersionsOK'
  <2>0. SerialInv /\ ~overlapped /\ \A q \in Procs : pc[q] \notin {"open", "write", "rename", "cleanup"}
    BY <1>4 DEF Marshal, Overlaps, Writing
  <2>1. Sole'
    BY <2>0, <1>2 DEF Sole, Writing
  <2>2. FilesOK'
    BY <2>0, <1>2 DEF SerialInv, FilesOK, DiskNeverTorn
  <2>3. VersionsOK'
    BY <2>0, <1>1, <1>2 DEF SerialInv, VersionsOK, InFlight, Bytes, TypeOK
  <2> QED BY <2>1, <2>2, <2>3
<1>5. StillOk'
  BY <1>2 DEF StillOk
<1> QED BY <1>3, <1>4, <1>5 DEF SerialInv

\* A change of the map, with or without the write-through of FlushOnWrite.
LEMMA MutateKeeps ==
    ASSUME IInv, TypeOK', ControlInv', NEW w \in Writers, NEW m \in [Codes -> 0..MaxVer],
           Free(w), Mutate(m), FlushLocked(w) \/ UNCHANGED <<pc, snap, overlapped>>,
           UNCHANGED <<conf, syncer, phase>>,
           UNCHANGED <<ok, fd, tmp, disk, content, acked>>
    PROVE  IInv'
<1> USE DEF IInv
<1>1. /\ ver' = ver + 1 /\ mem'.ver = ver + 1 /\ mem'.kind = "full"
      /\ ver \in Nat /\ mem.ver \in Nat /\ OnDisk' = OnDisk /\ OnDisk.ver \in Nat
      /\ \A p \in Procs : snap[p].ver \in Nat
  BY OnDiskType, BoundsAreNumbers DEF Mutate, Full, TypeOK, Bytes, OnDisk
<1>2. /\ UNCHANGED <<ok, fd, tmp, disk, content, acked>>
      /\ pc \in [Procs -> {"idle", "marshal", "open", "write", "rename", "cleanup", "finish"}]
      /\ snap \in [Procs -> Bytes] /\ w \in Procs
      /\ pc[w] = "idle" /\ Running /\ Running'
  BY Actors DEF TypeOK, Free, Running
<1>3. NamesApart'
  BY <1>2 DEF NamesApart
<1>4. CASE conf.flushOn /\ FlushLocked(w)
  <2>1. /\ pc' = [pc EXCEPT ![w] = "open"] /\ snap' = [snap EXCEPT ![w] = mem']
        /\ overlapped' = Overlaps(w)
    BY <1>4 DEF FlushLocked
  <2>2. StillOk'
    BY <2>1, <1>2 DEF StillOk
  <2>3. ASSUME ~overlapped' PROVE Sole' /\ FilesOK' /\ VersionsOK'
    <3>0. SerialInv /\ ~overlapped /\ \A q \in Procs : pc[q] \notin {"open", "write", "rename", "cleanup"}
      BY <2>1, <2>3, <1>2 DEF Writing, Overlaps
    <3>1. Sole'
      BY <3>0, <2>1, <1>2 DEF Sole, Writing
    <3>2. FilesOK'
      BY <3>0, <2>1, <1>2 DEF SerialInv, FilesOK, DiskNeverTorn
    <3>3. VersionsOK'
      BY <3>0, <2>1, <1>1, <1>2 DEF SerialInv, VersionsOK, InFlight
    <3> QED BY <3>1, <3>2, <3>3
  <2> QED BY <1>3, <2>2, <2>3 DEF SerialInv
<1>5. CASE ~(conf.flushOn /\ FlushLocked(w))
  <2>1. UNCHANGED <<pc, snap, overlapped>>
    BY <1>5 DEF FlushLocked
  <2>2. StillOk'
    BY <2>1, <1>2 DEF StillOk
  <2>3. ASSUME ~overlapped' PROVE Sole' /\ FilesOK' /\ VersionsOK'
    <3>1. Sole'
      BY <2>1, <2>3 DEF SerialInv, Sole, Writing
    <3>2. FilesOK'
      BY <2>1, <2>3, <1>2 DEF SerialInv, FilesOK, DiskNeverTorn
    <3>3. VersionsOK'
      BY <2>1, <2>3, <1>1, <1>2 DEF SerialInv, VersionsOK, InFlight
    <3> QED BY <3>1, <3>2, <3>3
  <2> QED BY <1>3, <2>2, <2>3 DEF SerialInv
<1> QED BY <1>4, <1>5

\* The steps of WriteAtomic.  In the serial case the goroutine that takes one is
\* the only one between Marshal and Cleanup.
LEMMA OpenKeeps ==
    ASSUME IInv, TypeOK', ControlInv', NEW p \in Procs, Open(p)
    PROVE  IInv'
<1> USE DEF IInv
<1>1. PICK i \in Inodes :
        /\ IF tmp = None THEN Allocated(i) ELSE i = tmp
        /\ tmp' = i /\ fd' = [fd EXCEPT ![p] = i]
        /\ content' = [content EXCEPT ![i] = EmptyFile]
  BY DEF Open, Truncated
<1>2. /\ pc[p] = "open" /\ pc' = [pc EXCEPT ![p] = "write"]
      /\ UNCHANGED <<mem, ver, snap, ok, disk, phase, acked, overlapped>>
      /\ pc \in [Procs -> {"idle", "marshal", "open", "write", "rename", "cleanup", "finish"}]
      /\ fd \in [Procs -> Inodes \cup {None}] /\ content \in [Inodes -> Bytes]
      /\ i # None
  BY Actors DEF Open, TypeOK
<1>3. i # disk
  BY <1>1, <1>2 DEF Allocated, NamesApart
<1>4. OnDisk' = OnDisk /\ (disk # None => content'[disk] = content[disk])
  BY <1>1, <1>2, <1>3 DEF OnDisk, TypeOK
<1>5. NamesApart' /\ StillOk'
  BY <1>1, <1>2, <1>3 DEF NamesApart, StillOk
<1>6. ASSUME ~overlapped' PROVE Sole' /\ FilesOK' /\ VersionsOK'
  <2>0. SerialInv /\ ~overlapped /\ Sole /\ \A q \in Procs \ {p} : ~Writing(q)
    BY <1>2, <1>6 DEF SerialInv, Sole, Writing
  <2>1. Sole'
    BY <2>0, <1>2 DEF Sole, Writing
  <2>2. FilesOK'
    BY <2>0, <1>1, <1>2, <1>4 DEF SerialInv, FilesOK, DiskNeverTorn, Writing
  <2>3. VersionsOK'
    BY <2>0, <1>2, <1>4 DEF SerialInv, VersionsOK, InFlight, Running
  <2> QED BY <2>1, <2>2, <2>3
<1> QED BY <1>5, <1>6 DEF SerialInv

LEMMA WriteKeeps ==
    ASSUME IInv, TypeOK', ControlInv', NEW p \in Procs, Write(p)
    PROVE  IInv'
<1> USE DEF IInv
<1>1. PICK bytes \in Overlay(content[fd[p]], snap[p]) :
        content' = [content EXCEPT ![fd[p]] = bytes]
  BY DEF Write
<1>2. /\ pc[p] = "write" /\ pc' = [pc EXCEPT ![p] = "rename"]
      /\ UNCHANGED <<mem, ver, snap, ok, fd, tmp, disk, phase, acked, overlapped>>
      /\ pc \in [Procs -> {"idle", "marshal", "open", "write", "rename", "cleanup", "finish"}]
      /\ content \in [Inodes -> Bytes] /\ tmp \in Inodes \cup {None}
  BY DEF Write, TypeOK
<1>3. NamesApart' /\ StillOk'
  BY <1>2 DEF NamesApart, StillOk
<1>4. ASSUME ~overlapped' PROVE Sole' /\ FilesOK' /\ VersionsOK'
  <2>0. SerialInv /\ ~overlapped /\ Sole /\ \A q \in Procs \ {p} : ~Writing(q)
    BY <1>2, <1>4 DEF SerialInv, Sole, Writing
  <2>1. /\ tmp # None /\ tmp # disk /\ fd[p] = tmp
        /\ content' = [content EXCEPT ![tmp] = snap[p]]
    BY <2>0, <1>1, <1>2 DEF SerialInv, FilesOK, Overlay, NamesApart
  <2>2. OnDisk' = OnDisk /\ (disk # None => content'[disk] = content[disk])
    BY <2>1, <1>2 DEF OnDisk, TypeOK
  <2>3. Sole'
    BY <2>0, <1>2 DEF Sole, Writing
  <2>4. FilesOK'
    BY <2>0, <2>1, <2>2, <1>2 DEF SerialInv, FilesOK, DiskNeverTorn, Writing
  <2>5. VersionsOK'
    BY <2>0, <2>2, <1>2 DEF SerialInv, VersionsOK, InFlight, Running
  <2> QED BY <2>3, <2>4, <2>5
<1> QED BY <1>3, <1>4 DEF SerialInv

LEMMA RenameKeeps ==
    ASSUME IInv, TypeOK', ControlInv', NEW p \in Procs, Rename(p)
    PROVE  IInv'
<1> USE DEF IInv
<1>1. /\ pc[p] = "rename" /\ pc' = [pc EXCEPT ![p] = "cleanup"]
      /\ UNCHANGED <<mem, ver, snap, fd, phase, acked, overlapped>>
      /\ content' = Reclaimed(content)
      /\ pc \in [Procs -> {"idle", "marshal", "open", "write", "rename", "cleanup", "finish"}]
      /\ tmp \in Inodes \cup {None} /\ disk \in Inodes \cup {None}
      /\ ok \in [Procs -> BOOLEAN]
      /\ ok' \in {ok, [ok EXCEPT ![p] = FALSE]}
      /\ tmp' = None
  BY DEF Rename, TypeOK
<1>2. NamesApart' /\ StillOk'
  BY <1>1 DEF NamesApart, StillOk
<1>3. ASSUME ~overlapped' PROVE Sole' /\ FilesOK' /\ VersionsOK'
  <2>0. SerialInv /\ ~overlapped /\ Sole /\ \A q \in Procs \ {p} : ~Writing(q)
    BY <1>1, <1>3 DEF SerialInv, Sole, Writing
  <2>1. tmp # None /\ content[tmp] = snap[p] /\ tmp \in Inodes /\ ok' = ok /\ disk' = tmp
    BY <2>0, <1>1 DEF SerialInv, FilesOK, Rename
  <2>2. disk' # None /\ content'[disk'] = snap[p] /\ OnDisk' = snap[p]
    BY <2>1, <1>1, Actors DEF Reclaimed, OnDisk
  <2>3. Sole'
    BY <2>0, <1>1 DEF Sole, Writing
  <2>4. snap[p].kind = "full" /\ OnDisk.ver <= snap[p].ver /\ snap[p].ver <= mem.ver
    BY <2>0, <1>1 DEF SerialInv, VersionsOK, InFlight
  <2>5. FilesOK'
    BY <2>0, <2>2, <2>4, <1>1 DEF FilesOK, DiskNeverTorn, Writing
  <2>6. /\ OnDisk.ver \in Nat /\ snap \in [Procs -> Bytes] /\ acked \in Nat /\ mem.ver \in Nat
        /\ ver \in Nat /\ \A q \in Procs : snap[q].ver \in Nat
    BY OnDiskType, BoundsAreNumbers DEF TypeOK, Bytes
  <2>7. VersionsOK'
    BY <2>0, <2>1, <2>2, <2>4, <2>6, <1>1 DEF SerialInv, VersionsOK, InFlight, Running, Writing
  <2> QED BY <2>3, <2>5, <2>7
<1> QED BY <1>2, <1>3 DEF SerialInv

LEMMA WriteErrorKeeps ==
    ASSUME IInv, TypeOK', ControlInv', NEW p \in Procs, WriteError(p)
    PROVE  IInv'
<1> USE DEF IInv
<1>1. PICK bytes : content' = [content EXCEPT ![fd[p]] = bytes]
  BY DEF WriteError
<1>2. /\ pc[p] = "write" /\ pc' = [pc EXCEPT ![p] = "cleanup"]
      /\ ok' = [ok EXCEPT ![p] = FALSE]
      /\ UNCHANGED <<mem, ver, snap, fd, tmp, disk, phase, acked, overlapped>>
      /\ pc \in [Procs -> {"idle", "marshal", "open", "write", "rename", "cleanup", "finish"}]
      /\ content \in [Inodes -> Bytes] /\ ok \in [Procs -> BOOLEAN]
  BY DEF WriteError, TypeOK
<1>3. NamesApart' /\ StillOk'
  BY <1>2 DEF NamesApart, StillOk
<1>4. ASSUME ~overlapped' PROVE Sole' /\ FilesOK' /\ VersionsOK'
  <2>0. SerialInv /\ ~overlapped /\ Sole /\ \A q \in Procs \ {p} : ~Writing(q)
    BY <1>2, <1>4 DEF SerialInv, Sole, Writing
  <2>1. tmp # disk /\ fd[p] = tmp
    BY <2>0, <1>2 DEF SerialInv, FilesOK, NamesApart
  <2>2. OnDisk' = OnDisk /\ (disk # None => content'[disk] = content[disk])
    BY <2>1, <1>1, <1>2 DEF OnDisk, TypeOK
  <2>3. Sole'
    BY <2>0, <1>2 DEF Sole, Writing
  <2>4. FilesOK'
    BY <2>0, <2>2, <1>2 DEF SerialInv, FilesOK, DiskNeverTorn, Writing
  <2>5. VersionsOK'
    BY <2>0, <2>2, <1>2 DEF SerialInv, VersionsOK, InFlight, Running, Writing
  <2> QED BY <2>3, <2>4, <2>5
<1> QED BY <1>3, <1>4 DEF SerialInv

LEMMA OpenErrorKeeps ==
    ASSUME IInv, TypeOK', ControlInv', NEW p \in Procs, OpenError(p)
    PROVE  IInv'
<1> USE DEF IInv
<1>1. /\ pc[p] = "open" /\ pc' = [pc EXCEPT ![p] = "finish"]
      /\ ok' = [ok EXCEPT ![p] = FALSE]
      /\ UNCHANGED <<mem, ver, snap, fd, tmp, disk, content, phase, acked, overlapped>>
      /\ pc \in [Procs -> {"idle", "marshal", "open", "write", "rename", "cleanup", "finish"}]
      /\ ok \in [Procs -> BOOLEAN]
      /\ OnDisk' = OnDisk
  BY DEF OpenError, TypeOK, fileVars, OnDisk
<1>2. NamesApart' /\ StillOk'
  BY <1>1 DEF NamesApart, StillOk
<1>3. ASSUME ~overlapped' PROVE Sole' /\ FilesOK' /\ VersionsOK'
  <2>0. SerialInv /\ ~overlapped
    BY <1>1, <1>3
  <2>1. Sole'
    BY <2>0, <1>1 DEF SerialInv, Sole, Writing
  <2>2. FilesOK'
    BY <2>0, <1>1 DEF SerialInv, FilesOK, DiskNeverTorn
  <2>3. VersionsOK'
    BY <2>0, <1>1 DEF SerialInv, VersionsOK, InFlight, Running
  <2> QED BY <2>1, <2>2, <2>3
<1> QED BY <1>2, <1>3 DEF SerialInv

LEMMA CleanupKeeps ==
    ASSUME IInv, TypeOK', ControlInv', NEW p \in Procs, Cleanup(p)
    PROVE  IInv'
<1> USE DEF IInv
<1>1. /\ pc[p] = "cleanup" /\ pc' = [pc EXCEPT ![p] = "finish"]
      /\ tmp' = None /\ content' = Reclaimed(content)
      /\ UNCHANGED <<mem, ver, snap, ok, disk, phase, acked, overlapped>>
      /\ pc \in [Procs -> {"idle", "marshal", "open", "write", "rename", "cleanup", "finish"}]
      /\ disk \in Inodes \cup {None}
  BY DEF Cleanup, TypeOK
<1>2. OnDisk' = OnDisk /\ (disk # None => content'[disk] = content[disk])
  BY <1>1 DEF OnDisk, Reclaimed
<1>3. NamesApart' /\ StillOk'
  BY <1>1 DEF NamesApart, StillOk
<1>4. ASSUME ~overlapped' PROVE Sole' /\ FilesOK' /\ VersionsOK'
  <2>0. SerialInv /\ ~overlapped /\ Sole /\ \A q \in Procs \ {p} : ~Writing(q)
    BY <1>1, <1>4 DEF SerialInv, Sole, Writing
  <2>1. Sole'
    BY <2>0, <1>1 DEF Sole, Writing
  <2>2. FilesOK'
    BY <2>0, <1>1, <1>2 DEF SerialInv, FilesOK, DiskNeverTorn, Writing
  <2>3. VersionsOK'
    BY <2>0, <1>1, <1>2 DEF SerialInv, VersionsOK, InFlight, Running
  <2> QED BY <2>1, <2>2, <2>3
<1> QED BY <1>3, <1>4 DEF SerialInv

\* The return of a sync is where an acknowledgement is given.
LEMMA FinishKeeps ==
    ASSUME IInv, TypeOK', ControlInv', NEW p \in Procs, Finish(p)
    PROVE  IInv'
<1> USE DEF IInv
<1>1. /\ pc[p] = "finish" /\ pc' = [pc EXCEPT ![p] = "idle"]
      /\ snap' = [snap EXCEPT ![p] = EmptyFile] /\ ok' = [ok EXCEPT ![p] = TRUE]
      /\ acked' = IF ok[p] /\ snap[p].ver > acked THEN snap[p].ver ELSE acked
      /\ UNCHANGED <<mem, ver, fd, tmp, disk, content, overlapped>>
      /\ pc \in [Procs -> {"idle", "marshal", "open", "write", "rename", "cleanup", "finish"}]
      /\ snap \in [Procs -> Bytes] /\ ok \in [Procs -> BOOLEAN]
      /\ OnDisk' = OnDisk
  BY DEF Finish, Succeeded, TypeOK, fileVars, OnDisk
<1>2. Running /\ Running'
  BY <1>1 DEF ControlInv, DownOK, Finish, PhaseAfter, Running
<1>3. NamesApart' /\ StillOk'
  BY <1>1, <1>2 DEF NamesApart, StillOk
<1>4. ASSUME ~overlapped' PROVE Sole' /\ FilesOK' /\ VersionsOK'
  <2>0. SerialInv /\ ~overlapped
    BY <1>1, <1>4
  <2>1. Sole'
    BY <2>0, <1>1 DEF SerialInv, Sole, Writing
  <2>2. FilesOK'
    BY <2>0, <1>1 DEF SerialInv, FilesOK, DiskNeverTorn
  <2>3. VersionsOK'
    BY <2>0, <1>1, <1>2 DEF SerialInv, VersionsOK, InFlight
  <2> QED BY <2>1, <2>2, <2>3
<1> QED BY <1>3, <1>4 DEF SerialInv

LEMMA LoadKeeps == ASSUME IInv, TypeOK', ControlInv', Load PROVE IInv'
<1> USE DEF IInv
<1>1. /\ ~Running /\ UNCHANGED <<ver, pc, snap, ok, fd, tmp, disk, content, acked, overlapped>>
      /\ OnDisk' = OnDisk
      /\ Running' => mem' = Full(OnDisk.ver, OnDisk.urls)
      /\ ~Running' => mem' = mem
      /\ \A p \in Procs : pc[p] = "idle"
  BY DEF Load, Loaded, Running, syncVars, fileVars, OnDisk, ControlInv, DownOK
<1>2. OnDisk.ver \in Nat
  BY OnDiskType, BoundsAreNumbers DEF Bytes
<1>3. NamesApart' /\ StillOk'
  BY <1>1 DEF NamesApart, StillOk
<1>4. ASSUME ~overlapped' PROVE Sole' /\ FilesOK' /\ VersionsOK'
  <2>1. Sole' /\ FilesOK'
    BY <1>1 , <1>4 DEF SerialInv, Sole, Writing, FilesOK, DiskNeverTorn
  <2>2. VersionsOK'
    BY <1>1, <1>2, <1>4 DEF SerialInv, VersionsOK, InFlight, Full
  <2> QED BY <2>1, <2>2
<1> QED BY <1>3, <1>4 DEF SerialInv

LEMMA CrashKeeps == ASSUME IInv, TypeOK', ControlInv', Crash PROVE IInv'
<1> USE DEF IInv
<1>1. /\ ~Running' /\ UNCHANGED <<ver, tmp, disk, acked, overlapped>>
      /\ content' = Reclaimed(content) /\ mem'.ver = 0
      /\ \A p \in Procs : pc'[p] = "idle" /\ ok'[p]
      /\ disk \in Inodes \cup {None} /\ ver \in Nat
  BY BoundsAreNumbers DEF Crash, Running, Full, TypeOK
<1>2. OnDisk' = OnDisk /\ (disk # None => content'[disk] = content[disk])
  BY <1>1 DEF OnDisk, Reclaimed
<1>3. NamesApart' /\ StillOk'
  BY <1>1 DEF NamesApart, StillOk
<1>4. ASSUME ~overlapped' PROVE Sole' /\ FilesOK' /\ VersionsOK'
  <2>1. Sole' /\ FilesOK'
    BY <1>1, <1>2, <1>4 DEF SerialInv, Sole, Writing, FilesOK, DiskNeverTorn
  <2>2. VersionsOK'
    BY <1>1, <1>2, <1>4 DEF SerialInv, VersionsOK, InFlight
  <2> QED BY <2>1, <2>2
<1> QED BY <1>3, <1>4 DEF SerialInv

LEMMA SerialStep == IInv /\ [Next]_vars => IInv'
<1> SUFFICES ASSUME IInv, [Next]_vars PROVE IInv'
  OBVIOUS
<1>0. TypeOK' /\ ControlInv'
  BY TypeStep, ControlStep DEF IInv
<1>1. CASE Load
  BY <1>0, <1>1, LoadKeeps
<1>2. CASE Tick
  <2>1. /\ pc' = [pc EXCEPT ![Syncer] = "marshal"] /\ pc[Syncer] = "idle" /\ Syncer \in Procs
        /\ pc \in [Procs -> {"idle", "marshal", "open", "write", "rename", "cleanup", "finish"}]
        /\ UNCHANGED <<mem, ver, snap, ok, fd, tmp, disk, content, phase, acked, overlapped>>
        /\ OnDisk' = OnDisk
    BY <1>2, Actors DEF Tick, IInv, TypeOK, fileVars, OnDisk
  <2>2. Running /\ Running'
    BY <1>2, <2>1 DEF Tick, ControlInv, DownOK, IInv, Running
  <2>3. NamesApart' /\ StillOk'
    BY <2>1, <2>2 DEF NamesApart, StillOk, IInv
  <2>4. ASSUME ~overlapped' PROVE Sole' /\ FilesOK' /\ VersionsOK'
    <3>1. Sole'
      BY <2>1, <2>4 DEF IInv, SerialInv, Sole, Writing
    <3>2. FilesOK'
      BY <2>1, <2>4 DEF IInv, SerialInv, FilesOK, DiskNeverTorn
    <3>3. VersionsOK'
      BY <2>1, <2>2, <2>4 DEF IInv, SerialInv, VersionsOK, InFlight
    <3> QED BY <3>1, <3>2, <3>3
  <2> QED BY <1>0, <2>3, <2>4 DEF IInv, SerialInv
<1>3. CASE TickSync
  <2>1. Running /\ Running'
    BY <1>3, Actors DEF TickSync, IInv, ControlInv, DownOK, Running
  <2> QED BY <1>0, <1>3, <2>1, MarshalKeeps, Actors DEF TickSync
<1>4. CASE FinalSync
  BY <1>0, <1>4, MarshalKeeps, Actors DEF FinalSync, Running
<1>5. CASE FlushAll
  BY <1>0, <1>5, MarshalKeeps, Actors DEF FlushAll, Running
<1>6. CASE CloseLast
  <2>1. pc[Main] \in {"idle", "marshal"}
    BY <1>6 DEF CloseLast, IInv, ControlInv, MainOK
  <2> QED BY <1>0, <1>6, <2>1, MarshalKeeps, Actors DEF CloseLast, Running
<1>7. CASE Crash
  BY <1>0, <1>7, CrashKeeps
<1>8. ASSUME UNCHANGED <<mem, ver, pc, snap, ok, fd, tmp, disk, content, syncer, acked,
                         overlapped>>,
             Running' = Running
      PROVE  IInv'
  <2>1. OnDisk' = OnDisk
    BY <1>8 DEF OnDisk
  <2>2. NamesApart' /\ StillOk'
    BY <1>8 DEF NamesApart, StillOk, IInv
  <2>3. ASSUME ~overlapped' PROVE Sole' /\ FilesOK' /\ VersionsOK'
    <3>1. Sole' /\ FilesOK'
      BY <1>8, <2>3 DEF IInv, SerialInv, Sole, Writing, FilesOK, DiskNeverTorn
    <3>2. VersionsOK'
      BY <1>8, <2>1, <2>3 DEF IInv, SerialInv, VersionsOK, InFlight
    <3> QED BY <3>1, <3>2
  <2> QED BY <1>0, <2>2, <2>3 DEF IInv, SerialInv
<1>9. ASSUME NEW waited \in BOOLEAN, Shutdown(waited) PROVE IInv'
  BY <1>8, <1>9 DEF Shutdown, Running, syncVars, fileVars
<1>10. CASE UNCHANGED vars
  BY <1>8, <1>10 DEF vars, Running
<1>11. ASSUME NEW w \in Writers, NEW c \in Codes, NEW overwrite \in BOOLEAN,
             Save(w, c, overwrite)
       PROVE  IInv'
  <2>1. [mem.urls EXCEPT ![c] = ver + 1] \in [Codes -> 0..MaxVer]
    BY <1>11, BoundsAreNumbers DEF Save, Mutate, Bytes, IInv, TypeOK
  <2> QED BY <1>0, <1>11, <2>1, MutateKeeps DEF Save, fileVars, procVars
<1>12. ASSUME NEW w \in Writers, NEW c \in Codes, Delete(w, c) PROVE IInv'
  <2>1. [mem.urls EXCEPT ![c] = 0] \in [Codes -> 0..MaxVer]
    BY DataTypes DEF Bytes, IInv, TypeOK
  <2> QED BY <1>0, <1>12, <2>1, MutateKeeps DEF Delete, fileVars, procVars
<1>13. ASSUME NEW w \in Writers, NEW c \in Codes, IncrementVisits(w, c) PROVE IInv'
  <2>1. [mem.urls EXCEPT ![c] = ver + 1] \in [Codes -> 0..MaxVer]
    BY <1>13, BoundsAreNumbers DEF IncrementVisits, Mutate, Bytes, IInv, TypeOK
  <2> QED BY <1>0, <1>13, <2>1, MutateKeeps
          DEF IncrementVisits, syncVars, fileVars, procVars
<1>14. ASSUME NEW f \in Flushers, Flush(f) PROVE IInv'
  BY <1>0, <1>14, MarshalKeeps, Actors DEF Flush, Free, Running
<1>15. ASSUME NEW p \in Procs, SyncStep(p) \/ OpenError(p) \/ WriteError(p) PROVE IInv'
  BY <1>0, <1>15, OpenKeeps, WriteKeeps, RenameKeeps, CleanupKeeps, FinishKeeps,
     OpenErrorKeeps, WriteErrorKeeps DEF SyncStep
<1> QED BY <1>1, <1>2, <1>3, <1>4, <1>5, <1>6, <1>7, <1>9, <1>10, <1>11, <1>12, <1>13,
           <1>14, <1>15 DEF Next

LEMMA InitIInv == Init => IInv
<1> SUFFICES ASSUME Init PROVE IInv
  OBVIOUS
<1>1. TypeOK
  BY DataTypes, BoundsAreNumbers DEF Init, TypeOK
<1>2. StillOk /\ NamesApart /\ ControlInv
  BY Actors DEF Init, StillOk, NamesApart, ControlInv, DownOK, MainOK
<1>3. SerialInv
  BY DEF Init, SerialInv, Sole, Writing, FilesOK, DiskNeverTorn, VersionsOK, OnDisk,
         InFlight, Running, EmptyFile, Full
<1> QED BY <1>1, <1>2, <1>3 DEF IInv

LEMMA Inductive == Spec => []IInv
BY InitIInv, SerialStep, PTL DEF Spec

-----------------------------------------------------------------------------
(* The theorems *)

\* Whatever crashes and I/O errors happen, and whatever earlier runs of the
\* process left behind, path never names a half-written file as long as no two
\* calls of WriteAtomic overlap.
THEOREM DiskStaysIntact == Spec => []DiskIntact
<1>1. IInv => DiskIntact
  BY DEF IInv, SerialInv, FilesOK, DiskIntact
<1> QED BY <1>1, Inductive, PTL

\* Under the same condition, what a successful sync has acknowledged is in the
\* file from then on.
THEOREM AcksAreDurable == Spec => []AckDurable
<1>1. IInv => AckDurable
  BY DEF IInv, SerialInv, VersionsOK, AckDurable
<1> QED BY <1>1, Inductive, PTL

LEMMA OverlapStays == overlapped /\ [Next]_vars => overlapped'
<1> SUFFICES ASSUME overlapped, [Next]_vars PROVE overlapped'
  OBVIOUS
<1>1. CASE Load \/ Tick \/ Crash
  BY <1>1 DEF Load, Tick, Crash
<1>2. CASE TickSync \/ FinalSync \/ FlushAll \/ CloseLast
  BY <1>2 DEF TickSync, FinalSync, FlushAll, CloseLast, Marshal, Overlaps
<1>3. ASSUME NEW waited \in BOOLEAN, Shutdown(waited) PROVE overlapped'
  BY <1>3 DEF Shutdown
<1>4. ASSUME NEW w \in Writers, NEW c \in Codes, NEW overwrite \in BOOLEAN,
             Save(w, c, overwrite) \/ Delete(w, c) \/ IncrementVisits(w, c)
      PROVE  overlapped'
  BY <1>4 DEF Save, Delete, IncrementVisits, FlushLocked, Overlaps
<1>5. ASSUME NEW f \in Flushers, Flush(f) PROVE overlapped'
  BY <1>5 DEF Flush, Marshal, Overlaps
<1>6. ASSUME NEW p \in Procs, SyncStep(p) \/ OpenError(p) \/ WriteError(p) PROVE overlapped'
  BY <1>6 DEF SyncStep, Open, Write, Rename, Cleanup, Finish, OpenError, WriteError
<1>7. CASE UNCHANGED vars
  BY <1>7 DEF vars
<1> QED BY <1>1, <1>2, <1>3, <1>4, <1>5, <1>6, <1>7 DEF Next

\* Only a rename changes what a reader of path finds, and in the serial case it
\* puts there the snapshot of the goroutine that renames.
LEMMA FileStep ==
    ASSUME IInv, [Next]_vars, ~overlapped'
    PROVE  \/ OnDisk' = OnDisk
           \/ \E p \in Procs : InFlight(p) /\ OnDisk' = snap[p]
<1> USE DEF IInv, SerialInv
<1>0. /\ tmp \in Inodes \cup {None} /\ disk \in Inodes \cup {None}
      /\ content \in [Inodes -> Bytes]
  BY DEF TypeOK
<1>1. ASSUME UNCHANGED <<disk, content>> PROVE OnDisk' = OnDisk
  BY <1>1 DEF OnDisk
<1>2. ASSUME NEW p \in Procs, Open(p) PROVE OnDisk' = OnDisk
  <2>1. PICK i \in Inodes :
          /\ IF tmp = None THEN Allocated(i) ELSE i = tmp
          /\ \E bytes : content' = [content EXCEPT ![i] = bytes]
    BY <1>2 DEF Open
  <2>2. i # disk /\ disk' = disk
    BY <1>2, <2>1, Actors DEF Open, Allocated, NamesApart
  <2> QED BY <1>0, <2>1, <2>2 DEF OnDisk
<1>3. ASSUME NEW p \in Procs, Write(p) \/ WriteError(p) PROVE OnDisk' = OnDisk
  <2>1. PICK bytes : content' = [content EXCEPT ![fd[p]] = bytes]
    BY <1>3 DEF Write, WriteError
  <2>2. fd[p] # disk /\ disk' = disk
    BY <1>3 DEF Write, WriteError, FilesOK, NamesApart
  <2> QED BY <1>0, <2>1, <2>2 DEF OnDisk
<1>4. ASSUME NEW p \in Procs, Rename(p) PROVE InFlight(p) /\ OnDisk' = snap[p]
  <2>1. tmp # None /\ content[tmp] = snap[p] /\ InFlight(p)
    BY <1>4 DEF Rename, FilesOK, InFlight
  <2>2. disk' = tmp /\ content' = Reclaimed(content)
    BY <1>4, <2>1 DEF Rename
  <2> QED BY <1>0, <2>1, <2>2 DEF Reclaimed, OnDisk
<1>5. ASSUME content' = Reclaimed(content), disk' = disk PROVE OnDisk' = OnDisk
  BY <1>0, <1>5 DEF Reclaimed, OnDisk
<1>6. CASE Crash
  BY <1>5, <1>6 DEF Crash
<1>7. ASSUME NEW p \in Procs, SyncStep(p) \/ OpenError(p) \/ WriteError(p)
      PROVE  \/ OnDisk' = OnDisk
             \/ \E q \in Procs : InFlight(q) /\ OnDisk' = snap[q]
  <2>1. CASE Cleanup(p)
    BY <1>5, <2>1 DEF Cleanup
  <2>2. CASE Finish(p) \/ OpenError(p)
    BY <1>1, <2>2 DEF Finish, OpenError, fileVars
  <2> QED BY <1>2, <1>3, <1>4, <1>7, <2>1, <2>2 DEF SyncStep
<1>8. ASSUME NEW w \in Writers, NEW c \in Codes, NEW overwrite \in BOOLEAN,
             Save(w, c, overwrite) \/ Delete(w, c) \/ IncrementVisits(w, c)
      PROVE  OnDisk' = OnDisk
  BY <1>1, <1>8 DEF Save, Delete, IncrementVisits, fileVars
<1>9. ASSUME NEW f \in Flushers, Flush(f) PROVE OnDisk' = OnDisk
  BY <1>1, <1>9 DEF Flush, Marshal, fileVars
<1>10. ASSUME NEW waited \in BOOLEAN, Shutdown(waited) PROVE OnDisk' = OnDisk
  BY <1>1, <1>10 DEF Shutdown, fileVars
<1>11. CASE Load \/ Tick
  BY <1>1, <1>11 DEF Load, Tick, fileVars
<1>12. CASE TickSync \/ FinalSync \/ FlushAll \/ CloseLast
  BY <1>1, <1>12 DEF TickSync, FinalSync, FlushAll, CloseLast, Marshal, fileVars
<1>13. CASE UNCHANGED vars
  BY <1>1, <1>13 DEF vars
<1> QED BY <1>6, <1>7, <1>8, <1>9, <1>10, <1>11, <1>12, <1>13 DEF Next

\* Under the same condition the file never goes back to an older state of the map.
THEOREM FileNeverGoesBack == Spec => NoOlderOnDisk
<1>1. IInv /\ [Next]_vars => (~overlapped' => OnDisk'.ver >= OnDisk.ver)
  <2> SUFFICES ASSUME IInv, [Next]_vars, ~overlapped' PROVE OnDisk'.ver >= OnDisk.ver
    OBVIOUS
  <2>1. ~overlapped
    BY OverlapStays
  <2>2. OnDisk.ver \in Nat /\ \A p \in Procs : snap[p].ver \in Nat
    BY OnDiskType, BoundsAreNumbers DEF IInv, Bytes, TypeOK
  <2>3. ASSUME NEW p \in Procs, InFlight(p) PROVE OnDisk.ver <= snap[p].ver
    BY <2>1, <2>3 DEF IInv, SerialInv, VersionsOK
  <2> QED BY <2>2, <2>3, FileStep
<1> QED BY <1>1, Inductive, PTL DEF Spec, NoOlderOnDisk
-----------------------------------------------------------------------------
(* Shutdown.  This argument does not need the serial case: once the handlers  *)
(* and the Syncer have ended, Main is the only goroutine left.                *)

\* A shutdown that waited has left no handler inside a call; the Syncer is not
\* inside one either once it has ended, and Close goes on only then.
Quiet ==
    /\ drained => Running /\ phase # "up" /\ \A h \in Handlers : pc[h] = "idle"
    /\ syncer = "done" => pc[Syncer] = "idle"
    /\ phase \in {"last", "closed", "closeErr"} => syncer = "done"

\* The sync of Close after such a shutdown, step by step.
LastOK ==
    /\ drained /\ phase = "last" =>
        /\ pc[Main] \in {"open", "write", "rename", "cleanup", "finish"}
        /\ snap[Main] = mem
        /\ pc[Main] = "write" => fd[Main] \in Inodes /\ fd[Main] = tmp /\ content[tmp] = EmptyFile
        /\ pc[Main] = "rename" => tmp \in Inodes /\ content[tmp] = mem
        /\ pc[Main] \in {"cleanup", "finish"} /\ ok[Main] => OnDisk = mem
    /\ drained /\ phase = "closed" => OnDisk = mem

LEMMA QuietStep == IInv /\ Quiet /\ [Next]_vars => Quiet'
<1> SUFFICES ASSUME IInv, Quiet, [Next]_vars PROVE Quiet'
  OBVIOUS
<1> USE Actors DEF Quiet
<1>0. /\ pc \in [Procs -> {"idle", "marshal", "open", "write", "rename", "cleanup", "finish"}]
      /\ DownOK /\ MainOK
  BY DEF IInv, TypeOK, ControlInv
<1>1. CASE Load
  BY <1>0, <1>1 DEF Load, DownOK, Running, syncVars
<1>2. CASE Tick
  BY <1>0, <1>2 DEF Tick, Running
<1>3. CASE TickSync
  BY <1>0, <1>3 DEF TickSync, Marshal, Running
<1>4. CASE FinalSync
  BY <1>0, <1>4 DEF FinalSync, Marshal, Running
<1>5. CASE FlushAll
  BY <1>0, <1>5 DEF FlushAll, Marshal, Running
<1>6. CASE CloseLast
  BY <1>0, <1>6 DEF CloseLast, SyncerEnded, Marshal, Running
<1>7. CASE Crash
  BY <1>7 DEF Crash
<1>8. ASSUME NEW waited \in BOOLEAN, Shutdown(waited) PROVE Quiet'
  BY <1>8 DEF Shutdown, syncVars, Running
<1>9. ASSUME NEW w \in Writers, NEW c \in Codes, NEW overwrite \in BOOLEAN,
             Save(w, c, overwrite) \/ Delete(w, c) \/ IncrementVisits(w, c)
      PROVE  Quiet'
  <2>1. w # Syncer
    BY DEF Handlers
  <2>2. ~drained /\ ~drained' /\ UNCHANGED <<syncer, phase>>
    BY <1>9 DEF Save, Delete, IncrementVisits, Free, procVars
  <2>3. pc'[Syncer] = pc[Syncer]
    BY <1>0, <1>9, <2>1 DEF Save, Delete, IncrementVisits, FlushLocked, syncVars
  <2> QED BY <2>2, <2>3
<1>10. ASSUME NEW f \in Flushers, Flush(f) PROVE Quiet'
  <2>1. f # Syncer
    BY DEF Handlers
  <2> QED BY <1>0, <1>10, <2>1 DEF Flush, Free, Marshal
<1>11. ASSUME NEW p \in Procs, SyncStep(p) \/ OpenError(p) \/ WriteError(p) PROVE Quiet'
  <2>1. CASE Finish(p)
    BY <1>0, <2>1 DEF Finish, SyncerAfter, PhaseAfter, Running
  <2>2. CASE ~Finish(p)
    <3>1. /\ UNCHANGED <<syncer, phase, drained>>
          /\ pc[p] # "idle"
      BY <1>11, <2>2 DEF SyncStep, Open, Write, Rename, Cleanup, OpenError, WriteError
    <3>2. \A q \in Procs : q # p => pc'[q] = pc[q]
      BY <1>0, <1>11, <2>2 DEF SyncStep, Open, Write, Rename, Cleanup, OpenError, WriteError
    <3> QED BY <3>1, <3>2 DEF Running
  <2> QED BY <2>1, <2>2
<1>12. CASE UNCHANGED vars
  BY <1>12 DEF vars, Running
<1> QED BY <1>1, <1>2, <1>3, <1>4, <1>5, <1>6, <1>7, <1>8, <1>9, <1>10, <1>11, <1>12 DEF Next

\* A step of the sync of Close itself.
LEMMA LastSyncStep ==
    ASSUME IInv, Quiet, LastOK, drained, phase = "last",
           SyncStep(Main) \/ OpenError(Main) \/ WriteError(Main)
    PROVE  LastOK'
<1> USE Actors DEF LastOK
<1>0. /\ pc \in [Procs -> {"idle", "marshal", "open", "write", "rename", "cleanup", "finish"}]
      /\ fd \in [Procs -> Inodes \cup {None}] /\ ok \in [Procs -> BOOLEAN]
      /\ content \in [Inodes -> Bytes] /\ snap \in [Procs -> Bytes]
  BY DEF IInv, TypeOK
<1>1. CASE Open(Main)
  <2>1. PICK i \in Inodes :
          /\ tmp' = i /\ fd' = [fd EXCEPT ![Main] = i]
          /\ content' = [content EXCEPT ![i] = EmptyFile]
    BY <1>1 DEF Open, Truncated
  <2>2. /\ pc' = [pc EXCEPT ![Main] = "write"]
        /\ UNCHANGED <<mem, snap, phase, drained>>
    BY <1>1 DEF Open
  <2> QED BY <1>0, <2>1, <2>2
<1>2. CASE Write(Main)
  <2>1. /\ pc[Main] = "write" /\ pc' = [pc EXCEPT ![Main] = "rename"]
        /\ UNCHANGED <<mem, snap, tmp, phase, drained>>
        /\ content' = [content EXCEPT ![tmp] = mem]
    BY <1>2 DEF Write, Overlay
  <2> QED BY <1>0, <2>1
<1>3. CASE Rename(Main)
  <2>1. /\ pc[Main] = "rename" /\ pc' = [pc EXCEPT ![Main] = "cleanup"]
        /\ UNCHANGED <<mem, snap, phase, drained>>
        /\ disk' = tmp /\ content' = Reclaimed(content)
    BY <1>3 DEF Rename
  <2>2. OnDisk' = mem
    BY <2>1 DEF Reclaimed, OnDisk
  <2> QED BY <1>0, <2>1, <2>2
<1>4. CASE Cleanup(Main)
  <2>1. /\ pc[Main] = "cleanup" /\ pc' = [pc EXCEPT ![Main] = "finish"]
        /\ UNCHANGED <<mem, snap, ok, disk, phase, drained>>
        /\ content' = Reclaimed(content) /\ disk \in Inodes \cup {None}
    BY <1>4 DEF Cleanup, IInv, TypeOK
  <2>2. OnDisk' = OnDisk
    BY <2>1 DEF Reclaimed, OnDisk
  <2> QED BY <1>0, <2>1, <2>2
<1>5. CASE Finish(Main)
  <2>1. /\ pc[Main] = "finish" /\ OnDisk' = OnDisk /\ mem' = mem
        /\ phase' = IF ok[Main] THEN "closed" ELSE "closeErr"
    BY <1>5 DEF Finish, PhaseAfter, Succeeded, OnDisk, fileVars
  <2> QED BY <2>1
<1>6. CASE OpenError(Main) \/ WriteError(Main)
  <2>1. ok' = [ok EXCEPT ![Main] = FALSE] /\ UNCHANGED <<mem, snap, phase, drained>>
    BY <1>6 DEF OpenError, WriteError
  <2>2. PICK s \in {"cleanup", "finish"} : pc' = [pc EXCEPT ![Main] = s]
    BY <1>6 DEF OpenError, WriteError
  <2> QED BY <1>0, <2>1, <2>2
<1> QED BY <1>1, <1>2, <1>3, <1>4, <1>5, <1>6 DEF SyncStep

LEMMA LastStep == IInv /\ Quiet /\ LastOK /\ [Next]_vars => LastOK'
<1> SUFFICES ASSUME IInv, Quiet, LastOK, [Next]_vars PROVE LastOK'
  OBVIOUS
<1> USE Actors DEF Quiet
<1>1. ASSUME phase' \notin {"last", "closed"} \/ ~drained' PROVE LastOK'
  BY <1>1 DEF LastOK
<1>2. CASE Load \/ Tick \/ FinalSync \/ FlushAll \/ Crash
  BY <1>1, <1>2 DEF Load, Running, Tick, FinalSync, FlushAll, Marshal, Crash
<1>3. CASE TickSync
  BY <1>1, <1>3 DEF TickSync, Marshal
<1>4. CASE CloseLast
  <2>1. /\ pc \in [Procs -> {"idle", "marshal", "open", "write", "rename", "cleanup", "finish"}]
        /\ snap \in [Procs -> Bytes]
    BY DEF IInv, TypeOK
  <2>2. pc'[Main] = "open" /\ snap'[Main] = mem /\ mem' = mem /\ phase' = "last"
    BY <1>4, <2>1 DEF CloseLast, Marshal
  <2> QED BY <2>2 DEF LastOK
<1>5. ASSUME NEW waited \in BOOLEAN, Shutdown(waited) PROVE LastOK'
  BY <1>1, <1>5 DEF Shutdown
<1>6. ASSUME NEW w \in Writers, NEW c \in Codes, NEW overwrite \in BOOLEAN,
             Save(w, c, overwrite) \/ Delete(w, c) \/ IncrementVisits(w, c)
      PROVE  LastOK'
  BY <1>1, <1>6 DEF Save, Delete, IncrementVisits, Free, procVars
<1>7. ASSUME NEW f \in Flushers, Flush(f) PROVE LastOK'
  BY <1>1, <1>7 DEF Flush, Free, Marshal
<1>8. ASSUME NEW p \in Procs, SyncStep(p) \/ OpenError(p) \/ WriteError(p) PROVE LastOK'
  <2>1. drained' = drained /\ pc[p] # "idle"
    BY <1>8 DEF SyncStep, Open, Write, Rename, Cleanup, Finish, OpenError, WriteError
  <2>2. CASE drained /\ phase \in {"last", "closed"}
    <3>1. p = Main
      BY <2>1, <2>2 DEF Procs
    <3>2. phase = "last"
      BY <2>1, <2>2, <3>1 DEF IInv, ControlInv, MainOK
    <3> QED BY <1>8, <2>2, <3>1, <3>2, LastSyncStep
  <2>3. CASE ~drained
    BY <1>1, <2>1, <2>3
  <2>4. CASE phase \notin {"last", "closed"}
    <3>1. phase' \notin {"last", "closed"}
      BY <1>8, <2>4 DEF SyncStep, Open, Write, Rename, Cleanup, Finish, PhaseAfter, OpenError,
                        WriteError
    <3> QED BY <1>1, <3>1
  <2> QED BY <2>2, <2>3, <2>4
<1>9. CASE UNCHANGED vars
  BY <1>9 DEF LastOK, OnDisk, vars
<1> QED BY <1>2, <1>3, <1>4, <1>5, <1>6, <1>7, <1>8, <1>9 DEF Next

\* A shutdown that waited for the handlers, and whose Close returned nil, leaves
\* on disk exactly what was in memory: in particular no sync that began earlier
\* can still put an older file in its place.
THEOREM ShutdownKeepsAll == Spec => []ShutdownDurable
<1>1. Init => Quiet /\ LastOK
  BY Actors DEF Init, Quiet, LastOK
<1>2. LastOK => ShutdownDurable
  BY DEF LastOK, ShutdownDurable
<1> QED BY <1>1, <1>2, Inductive, QuietStep, LastStep, PTL DEF Spec

-----------------------------------------------------------------------------
(* Refinement: every step of a serial store is a step of DurableMap, or none  *)
(* that it can see.                                                           *)

\* What DurableMap has for memory: the map, or what a restart would load.
AbsMem == IF Running THEN mem ELSE Loaded(OnDisk)

\* The copy under way is that of the one goroutine that writes.
LEMMA TakenIs ==
    ASSUME Sole
    PROVE  /\ \A p \in Procs : InFlight(p) => Taken = snap[p]
           /\ (\A p \in Procs : ~InFlight(p)) => Taken = Loaded(OnDisk)
<1>1. ASSUME NEW p \in Procs, InFlight(p) PROVE Taken = snap[p]
  <2>1. \A q \in Procs : InFlight(q) => q = p
    BY <1>1 DEF Sole, InFlight, Writing
  <2>2. (CHOOSE q \in Procs : InFlight(q)) = p
    BY <1>1, <2>1
  <2> QED BY <1>1, <2>2 DEF Taken
<1> QED BY <1>1 DEF Taken

LEMMA TakenNext ==
    ASSUME Sole', NEW p \in Procs, InFlight(p)'
    PROVE  Taken' = snap'[p]
<1>1. \A q \in Procs : InFlight(q)' => q = p
  BY DEF Sole, InFlight, Writing
<1>2. (CHOOSE q \in Procs : InFlight(q)') = p
  BY <1>1
<1> QED BY <1>2 DEF Taken

\* A step that touches none of what the mapping looks at.
LEMMA Stutters ==
    ASSUME Sole, Sole', AbsMem' = AbsMem, OnDisk' = OnDisk, acked' = acked,
           \A p \in Procs : InFlight(p)' = InFlight(p),
           \A p \in Procs : InFlight(p) => snap'[p] = snap[p]
    PROVE  UNCHANGED DM!vars
<1>1. Taken' = Taken
  <2>1. ASSUME NEW p \in Procs, InFlight(p) PROVE Taken' = Taken
    BY <2>1, TakenIs, TakenNext
  <2>2. CASE \A p \in Procs : ~InFlight(p)
    BY <2>2 DEF Taken, Loaded
  <2> QED BY <2>1, <2>2
<1> QED BY <1>1 DEF DM!vars, AbsMem, Loaded

\* A snapshot of the map is taken.
LEMMA MarshalTakes ==
    ASSUME IInv, Sole', Running, Running', NEW p \in Procs, Marshal(p)
    PROVE  DM!Take
<1>1. /\ snap'[p] = mem /\ mem' = mem /\ acked' = acked /\ OnDisk' = OnDisk /\ InFlight(p)'
  BY DEF Marshal, fileVars, OnDisk, InFlight, IInv, TypeOK
<1>2. Taken' = mem
  BY <1>1, TakenNext
<1> QED BY <1>1, <1>2 DEF DM!Take, Loaded

\* A change of one code; under FlushOnWrite with its snapshot.
LEMMA MutateUpdates ==
    ASSUME IInv, ~overlapped, Sole', NEW w \in Writers, NEW c \in Codes, NEW stamp \in {0, ver + 1},
           Free(w), Mutate([mem.urls EXCEPT ![c] = stamp]),
           FlushLocked(w) \/ UNCHANGED <<pc, snap>>,
           UNCHANGED <<phase, disk, content, acked>>
    PROVE  DM!Update(c, ver + 1) /\ ver + 1 \in 1..MaxVer
<1>1. /\ Running /\ Running' /\ pc[w] = "idle" /\ w \in Procs /\ OnDisk' = OnDisk
  BY Actors DEF Free, Running, OnDisk
<1>2. ver + 1 > mem.ver /\ ver + 1 \in 1..MaxVer
  BY BoundsAreNumbers DEF IInv, SerialInv, VersionsOK, Mutate, TypeOK, Bytes
<1>3. mem' = DM!Map(ver + 1, [mem.urls EXCEPT ![c] = stamp])
  BY DEF Mutate, Full, DM!Map
<1>4. Taken' \in {Taken, mem'}
  <2>1. CASE snap' = [snap EXCEPT ![w] = mem'] /\ pc' = [pc EXCEPT ![w] = "open"]
    <3>1. InFlight(w)' /\ snap'[w] = mem'
      BY <1>1, <2>1 DEF InFlight, IInv, TypeOK
    <3> QED BY <1>1, <3>1, TakenNext
  <2>2. CASE UNCHANGED <<pc, snap>>
    BY <1>1, <2>2 DEF Taken, InFlight, Loaded
  <2> QED BY <2>1, <2>2 DEF FlushLocked
<1> QED BY <1>1, <1>2, <1>3, <1>4 DEF DM!Update, Loaded
\* A step inside a sync: the file changes at Rename, the copy is given up when
\* an error ends the sync, and the caller is told at Finish.
LEMMA SyncStepMaps ==
    ASSUME IInv, IInv', ~overlapped, ~overlapped', NEW p \in Procs,
           SyncStep(p) \/ OpenError(p) \/ WriteError(p)
    PROVE  \/ DM!Put \/ DM!GiveUp \/ (\E v \in 1..MaxVer : DM!Ack(v)) \/ UNCHANGED DM!vars
<1>0. /\ Sole /\ Sole' /\ FilesOK /\ VersionsOK /\ TypeOK
      /\ pc \in [Procs -> {"idle", "marshal", "open", "write", "rename", "cleanup", "finish"}]
      /\ pc[p] # "idle"
  BY DEF IInv, SerialInv, TypeOK, SyncStep, Open, Write, Rename, Cleanup, Finish, OpenError,
         WriteError
<1>1. Running
  BY <1>0 DEF IInv, ControlInv, DownOK
<1>3. CASE Open(p)
  <2>1. OnDisk' = OnDisk
    <3>1. PICK i \in Inodes :
            /\ IF tmp = None THEN Allocated(i) ELSE i = tmp
            /\ \E bytes : content' = [content EXCEPT ![i] = bytes]
      BY <1>3 DEF Open
    <3>2. i # disk /\ disk' = disk
      BY <1>3, <3>1, Actors DEF Open, Allocated, NamesApart, IInv
    <3> QED BY <1>0, <3>1, <3>2 DEF OnDisk, TypeOK
  <2>2. AbsMem' = AbsMem /\ acked' = acked /\ snap' = snap
    BY <1>1, <1>3 DEF Open, AbsMem, Running
  <2>3. \A q \in Procs : InFlight(q)' = InFlight(q)
    BY <1>0, <1>3 DEF Open, InFlight
  <2> QED BY <1>0, <2>1, <2>2, <2>3, Stutters
<1>4. CASE Write(p)
  <2>1. OnDisk' = OnDisk
    <3>1. PICK bytes : content' = [content EXCEPT ![fd[p]] = bytes]
      BY <1>4 DEF Write
    <3>2. fd[p] # disk /\ disk' = disk
      BY <1>0, <1>4 DEF Write, FilesOK, NamesApart, IInv
    <3> QED BY <1>0, <3>1, <3>2 DEF OnDisk, TypeOK
  <2>2. AbsMem' = AbsMem /\ acked' = acked /\ snap' = snap
    BY <1>1, <1>4 DEF Write, AbsMem, Running
  <2>3. \A q \in Procs : InFlight(q)' = InFlight(q)
    BY <1>0, <1>4 DEF Write, InFlight
  <2> QED BY <1>0, <2>1, <2>2, <2>3, Stutters
\* The three steps after which no copy is under way any more.
<1>5. ASSUME InFlight(p), pc' = [pc EXCEPT ![p] = "cleanup"] \/ pc' = [pc EXCEPT ![p] = "finish"]
      PROVE  Taken' = Loaded(OnDisk')
  <2>1. \A q \in Procs : ~InFlight(q)'
    BY <1>0, <1>5 DEF Sole, InFlight, Writing
  <2> QED BY <2>1 DEF Taken, Loaded
<1>6. CASE Rename(p)
  <2>1. tmp # None /\ content[tmp] = snap[p] /\ InFlight(p) /\ snap[p].kind = "full"
    BY <1>0, <1>6 DEF Rename, FilesOK, VersionsOK, InFlight
  <2>2. disk' = tmp /\ content' = Reclaimed(content) /\ UNCHANGED <<mem, phase, acked>>
    BY <1>6, <2>1 DEF Rename
  <2>3. OnDisk' = snap[p]
    BY <1>0, <2>1, <2>2 DEF Reclaimed, OnDisk, TypeOK
  <2>4. Loaded(OnDisk') = snap[p]
    BY <1>0, <2>1, <2>3 DEF Loaded, Full, TypeOK, Bytes
  <2>5. Taken = snap[p] /\ Taken' = snap[p]
    BY <1>0, <1>5, <1>6, <2>1, <2>4, TakenIs DEF Rename
  <2>6. Running' /\ mem' = mem
    BY <1>1, <2>2 DEF Running
  <2> QED BY <1>1, <2>2, <2>4, <2>5, <2>6 DEF DM!Put, Loaded
<1>7. CASE OpenError(p) \/ WriteError(p)
  <2>1. OnDisk' = OnDisk
    <3>1. CASE OpenError(p)
      BY <3>1 DEF OpenError, OnDisk, fileVars
    <3>2. CASE WriteError(p)
      <4>1. PICK bytes : content' = [content EXCEPT ![fd[p]] = bytes]
        BY <3>2 DEF WriteError
      <4>2. fd[p] # disk /\ disk' = disk
        BY <1>0, <3>2 DEF WriteError, FilesOK, NamesApart, IInv
      <4> QED BY <1>0, <4>1, <4>2 DEF OnDisk, TypeOK
    <3> QED BY <1>7, <3>1, <3>2
  <2>2. Taken' = Loaded(OnDisk)
    BY <1>5, <1>7, <2>1 DEF OpenError, WriteError, InFlight, Loaded
  <2>3. Running' /\ UNCHANGED <<mem, acked>>
    BY <1>1, <1>7 DEF OpenError, WriteError, Running
  <2> QED BY <1>1, <2>1, <2>2, <2>3 DEF DM!GiveUp, Loaded
<1>8. CASE Cleanup(p)
  <2>1. OnDisk' = OnDisk
    BY <1>0, <1>8 DEF Cleanup, Reclaimed, OnDisk, TypeOK
  <2>2. AbsMem' = AbsMem /\ acked' = acked /\ snap' = snap
    BY <1>1, <1>8 DEF Cleanup, AbsMem, Running
  <2>3. \A q \in Procs : InFlight(q)' = InFlight(q)
    BY <1>0, <1>8 DEF Cleanup, InFlight
  <2> QED BY <1>0, <2>1, <2>2, <2>3, Stutters
<1>9. CASE Finish(p)
  <2>1. OnDisk' = OnDisk /\ mem' = mem /\ ~InFlight(p)
    BY <1>9 DEF Finish, fileVars, OnDisk, InFlight
  <2>2. Running'
    BY <1>1, <1>9 DEF Finish, PhaseAfter, Running
  <2>3. \A q \in Procs : InFlight(q)' = InFlight(q) /\ (q # p => snap'[q] = snap[q])
    BY <1>0, <1>9 DEF Finish, InFlight, TypeOK
  <2>4. CASE acked' = acked
    BY <1>0, <1>1, <2>1, <2>2, <2>3, <2>4, Stutters DEF AbsMem
  <2>5. CASE acked' # acked
    <3>1. Succeeded(p) /\ snap[p].ver > acked /\ acked' = snap[p].ver
      BY <1>9, <2>5 DEF Finish
    <3>2. snap[p].ver <= OnDisk.ver /\ snap[p].ver \in 1..MaxVer
      BY <1>0, <1>9, <3>1, BoundsAreNumbers
         DEF Finish, Succeeded, VersionsOK, TypeOK, Bytes
    <3>3. Taken' = Taken
      <4>1. ASSUME NEW q \in Procs, InFlight(q) PROVE Taken' = Taken
        BY <1>0, <2>1, <2>3, <4>1, TakenIs, TakenNext
      <4>2. CASE \A q \in Procs : ~InFlight(q)
        BY <2>1, <2>3, <4>2 DEF Taken, Loaded
      <4> QED BY <4>1, <4>2
    <3>4. DM!Ack(snap[p].ver)
      BY <1>1, <2>1, <2>2, <3>1, <3>2, <3>3 DEF DM!Ack, Loaded, Full
    <3> QED BY <3>2, <3>4
  <2> QED BY <2>4, <2>5
<1> QED BY <1>3, <1>4, <1>6, <1>7, <1>8, <1>9 DEF SyncStep
\* Load and Crash: a restart goes back to what is on disk.
LEMMA LoadMaps == ASSUME IInv, Sole, Sole', Load PROVE UNCHANGED DM!vars
<1>1. /\ ~Running /\ OnDisk' = OnDisk /\ UNCHANGED <<snap, pc, acked>>
      /\ Running' => mem' = Loaded(OnDisk)
  BY DEF Load, Running, syncVars, fileVars, OnDisk
<1>2. AbsMem' = AbsMem
  BY <1>1 DEF AbsMem, Loaded
<1>3. \A p \in Procs : InFlight(p)' = InFlight(p)
  BY <1>1 DEF InFlight
<1> QED BY <1>1, <1>2, <1>3, Stutters

LEMMA CrashMaps == ASSUME IInv, Crash PROVE DM!Restart
<1>1. OnDisk' = OnDisk
  BY DEF Crash, Reclaimed, OnDisk, IInv, TypeOK
<1>2. ~Running' /\ acked' = acked /\ \A p \in Procs : ~InFlight(p)'
  BY DEF Crash, Running, InFlight
<1>3. Taken' = Loaded(OnDisk)
  BY <1>1, <1>2 DEF Taken, Loaded
<1> QED BY <1>1, <1>2, <1>3 DEF DM!Restart, Loaded

\* Each step of a store whose syncs do not overlap is a step of DurableMap.
LEMMA StepMaps ==
    IInv /\ ~overlapped /\ [Next /\ ~overlapped']_vars => [DM!Next]_DM!vars
<1> SUFFICES ASSUME IInv, ~overlapped, [Next /\ ~overlapped']_vars PROVE [DM!Next]_DM!vars
  OBVIOUS
<1>0. /\ IInv' /\ ~overlapped' /\ Sole /\ Sole'
  <2>1. IInv' /\ ~overlapped'
    BY SerialStep DEF vars
  <2> QED BY <2>1 DEF IInv, SerialInv
<1>1. CASE Load
  BY <1>0, <1>1, LoadMaps
<1>2. CASE Crash
  BY <1>2, CrashMaps DEF DM!Next
<1>3. ASSUME NEW p \in Procs, Marshal(p), Running, Running' PROVE DM!Next
  BY <1>0, <1>3, MarshalTakes DEF DM!Next
<1>4. CASE TickSync \/ FinalSync \/ FlushAll \/ CloseLast
  <2>1. Running /\ Running'
    BY <1>4, Actors DEF TickSync, FinalSync, FlushAll, CloseLast, IInv, ControlInv, DownOK, Running
  <2> QED BY <1>3, <1>4, <2>1, Actors DEF TickSync, FinalSync, FlushAll, CloseLast
<1>5. ASSUME NEW f \in Flushers, Flush(f) PROVE DM!Next
  BY <1>3, <1>5, Actors DEF Flush, Free, Running
<1>6. ASSUME UNCHANGED <<mem, snap, disk, content, acked>>, Running' = Running,
             \A p \in Procs : InFlight(p)' = InFlight(p)
      PROVE  UNCHANGED DM!vars
  <2>1. OnDisk' = OnDisk
    BY <1>6 DEF OnDisk
  <2>2. AbsMem' = AbsMem
    BY <1>6, <2>1 DEF AbsMem, Loaded
  <2> QED BY <1>0, <1>6, <2>1, <2>2, Stutters
<1>7. CASE Tick
  <2>1. \A p \in Procs : InFlight(p)' = InFlight(p)
    BY <1>7 DEF Tick, InFlight, IInv, TypeOK
  <2> QED BY <1>6, <1>7, <2>1 DEF Tick, fileVars, Running
<1>8. ASSUME NEW waited \in BOOLEAN, Shutdown(waited) PROVE UNCHANGED DM!vars
  BY <1>6, <1>8 DEF Shutdown, Running, syncVars, fileVars, InFlight
<1>9. CASE UNCHANGED vars
  BY <1>6, <1>9 DEF vars, Running, InFlight
<1>10. ASSUME NEW w \in Writers, NEW c \in Codes, NEW overwrite \in BOOLEAN,
              Save(w, c, overwrite) \/ Delete(w, c) \/ IncrementVisits(w, c)
       PROVE  DM!Next
  <2>1. DM!Update(c, ver + 1) /\ ver + 1 \in 1..MaxVer
    <3>1. CASE Save(w, c, overwrite) \/ IncrementVisits(w, c)
      BY <1>0, <3>1, MutateUpdates DEF Save, IncrementVisits, fileVars, procVars, syncVars
    <3>2. CASE Delete(w, c)
      BY <1>0, <3>2, MutateUpdates DEF Delete, fileVars, procVars
    <3> QED BY <1>10, <3>1, <3>2
  <2> QED BY <2>1 DEF DM!Next
<1>11. ASSUME NEW p \in Procs, SyncStep(p) \/ OpenError(p) \/ WriteError(p)
       PROVE  [DM!Next]_DM!vars
  BY <1>0, <1>11, SyncStepMaps DEF DM!Next
<1> QED BY <1>1, <1>2, <1>4, <1>5, <1>7, <1>8, <1>9, <1>10, <1>11 DEF Next

\* As long as no two syncs overlap, the store with its file operations, errors,
\* crashes and restarts is the durable map of DurableMap: the file goes from one
\* state of the map to a later one in one step, and what a sync has acknowledged
\* is never taken back.
THEOREM SerialStoreIsDurableMap == SerialSpec => RefinesDurableMap
<1>1. Init => DM!Init
  <2> SUFFICES ASSUME Init PROVE DM!Init
    OBVIOUS
  <2>1. OnDisk = EmptyFile /\ Loaded(OnDisk) = DM!EmptyMap
    BY DEF Init, OnDisk, Loaded, EmptyFile, Full, NoUrls, DM!EmptyMap, DM!Map
  <2>2. Taken = Loaded(OnDisk) /\ ~Running /\ acked = 0
    BY DEF Init, Taken, InFlight, Running
  <2> QED BY <2>1, <2>2 DEF DM!Init, Loaded
<1>2. Init => IInv /\ ~overlapped
  BY InitIInv DEF Init
<1>3. IInv /\ ~overlapped /\ [Next /\ ~overlapped']_vars => IInv' /\ ~overlapped'
  BY SerialStep DEF vars
<1> QED BY <1>1, <1>2, <1>3, StepMaps, PTL DEF SerialSpec, RefinesDurableMap, DM!Spec
=============================================================================
