----------------------------- MODULE DurableMap -----------------------------
(***************************************************************************)
(* What the URL store promises its callers, with the file system and the   *)
(* locks left out: a map in memory, a copy of it on disk that is replaced  *)
(* as a whole, a restart that goes back to the copy, and acknowledgements  *)
(* that are never taken back.  A map carries the stamp of its last change; *)
(* a code's value is the stamp of the change that wrote it, 0 for none.    *)
(***************************************************************************)
EXTENDS Naturals

CONSTANTS Codes, MaxVer

VARIABLES
    mem,    \* the map in memory
    taken,  \* the copy being written, or the copy on disk when none is
    disk,   \* the copy on disk
    acked   \* the newest stamp some caller has been told is on disk

vars == <<mem, taken, disk, acked>>

Map(v, m) == [kind |-> "full", ver |-> v, urls |-> m]
EmptyMap == Map(0, [c \in Codes |-> 0])

Init == mem = EmptyMap /\ taken = EmptyMap /\ disk = EmptyMap /\ acked = 0

\* A change of one code, under a stamp never used before; a write-through
\* change takes its copy in the same step.
Update(c, v) ==
    /\ v > mem.ver
    /\ \E stamp \in {0, v} : mem' = Map(v, [mem.urls EXCEPT ![c] = stamp])
    /\ taken' \in {taken, mem'}
    /\ UNCHANGED <<disk, acked>>

Take == taken' = mem /\ UNCHANGED <<mem, disk, acked>>
Put == disk' = taken /\ UNCHANGED <<mem, taken, acked>>
GiveUp == taken' = disk /\ UNCHANGED <<mem, disk, acked>>

Ack(v) ==
    /\ acked < v /\ v <= disk.ver
    /\ acked' = v
    /\ UNCHANGED <<mem, taken, disk>>

Restart == mem' = disk /\ taken' = disk /\ UNCHANGED <<disk, acked>>

Next ==
    \/ Take \/ Put \/ GiveUp \/ Restart
    \/ \E v \in 1..MaxVer : Ack(v) \/ \E c \in Codes : Update(c, v)

Spec == Init /\ [][Next]_vars
=============================================================================
