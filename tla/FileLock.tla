------------------------------ MODULE FileLock ------------------------------
(***************************************************************************)
(* The lock shared by the processes that write one JSON file               *)
(* (file-lock.mjs).  An exclusive SQLite transaction serialises every      *)
(* acquisition and dies with its process; a directory with an owner record *)
(* is taken inside it, and one that a crash has left behind is taken over. *)
(* Every system call is a step, and a process may die between any two.     *)
(***************************************************************************)
EXTENDS Naturals

CONSTANTS
    Procs,
    None, Dead, Recycled,   \* no owner record; the owner's pid is free, or of one who
                            \* is not inside: a stranger, or an owner that did not clean up
    MaxFaults               \* bound: crashes and system calls that fail, together

ASSUME LockAssumption == 
    /\ {None, Dead, Recycled} \cap Procs = {}
    /\ Dead # None /\ Recycled # None /\ Dead # Recycled
    /\ MaxFaults \in Nat

VARIABLES
    sql,       \* the process that holds the transaction
    dir,       \* <file>.lock
    reclaim,   \* <file>.lock.reclaim
    pc,
    faults

lockVars == <<sql, dir, reclaim, pc, faults>>

Ages    == {"fresh", "halfMinute", "tenMinutes"}
Absent  == [there |-> FALSE, owner |-> None, age |-> "fresh"]
Created == [there |-> TRUE, owner |-> None, age |-> "fresh"]
Dirs    == [there : BOOLEAN, owner : Procs \cup {None, Dead, Recycled}, age : Ages]

\* abandoned: too old for any owner, no owner for half a minute, or a dead one.
Abandoned(d) ==
    \/ d.age = "tenMinutes"
    \/ d.owner = None /\ d.age # "fresh"
    \/ d.owner = Dead

LockInit ==
    /\ sql = None /\ dir = Absent /\ reclaim = Absent
    /\ pc = [p \in Procs |-> "idle"]
    /\ faults = 0

GoTo(p, at) == pc' = [pc EXCEPT ![p] = at]
Fault == faults < MaxFaults /\ faults' = faults + 1

-----------------------------------------------------------------------------
\* BEGIN IMMEDIATE
LockBegins(p) ==
    /\ pc[p] = "idle" /\ sql = None
    /\ sql' = p
    /\ GoTo(p, "lock")
    /\ UNCHANGED <<dir, reclaim, faults>>

LockTaken(p) ==
    /\ pc[p] = "lock" /\ ~dir.there
    /\ dir' = Created
    /\ GoTo(p, "own")
    /\ UNCHANGED <<sql, reclaim, faults>>

LockOwned(p) ==
    /\ pc[p] = "own"
    /\ dir' = [dir EXCEPT !.owner = p]
    /\ GoTo(p, "in")
    /\ UNCHANGED <<sql, reclaim, faults>>

LockOwnerFails(p) ==
    /\ pc[p] = "own" /\ Fault
    /\ dir' = Absent
    /\ GoTo(p, "closing")
    /\ UNCHANGED <<sql, reclaim>>

\* The directory is taken and looks abandoned: the reclaim directory first.
ReclaimTaken(p) ==
    /\ pc[p] = "lock" /\ dir.there /\ Abandoned(dir) /\ ~reclaim.there
    /\ reclaim' = Created
    /\ GoTo(p, "reclaim")
    /\ UNCHANGED <<sql, dir, faults>>

ReclaimOwned(p) ==
    /\ pc[p] = "reclaim"
    /\ reclaim' = [reclaim EXCEPT !.owner = p]
    /\ GoTo(p, "recheck")
    /\ UNCHANGED <<sql, dir, faults>>

ReclaimFails(p) ==
    /\ pc[p] = "reclaim" /\ Fault
    /\ reclaim' = Absent
    /\ GoTo(p, "closing")
    /\ UNCHANGED <<sql, dir>>

Rechecked(p) ==
    /\ pc[p] = "recheck"
    /\ dir' = IF Abandoned(dir) THEN Absent ELSE dir
    /\ GoTo(p, "unreclaim")
    /\ UNCHANGED <<sql, reclaim, faults>>

\* Another round, unless the deadline has passed.
ReclaimReturned(p) ==
    /\ pc[p] = "unreclaim"
    /\ reclaim' = Absent
    /\ GoTo(p, "lock") \/ GoTo(p, "closing")
    /\ UNCHANGED <<sql, dir, faults>>

\* A reclaim directory that a crash has left behind goes first.
KeepsReclaim(d) == FALSE                                          \* (mutant)
Clears(d) == d.there /\ Abandoned(d)

ReclaimCleared(p) ==
    /\ pc[p] = "lock" /\ dir.there /\ Abandoned(dir) /\ Clears(reclaim)
    /\ reclaim' = Absent
    /\ GoTo(p, "lock") \/ GoTo(p, "closing")
    /\ UNCHANGED <<sql, dir, faults>>

\* Every round looks at the directories before it looks at the deadline.
LockTimesOut(p) ==
    /\ pc[p] = "lock" /\ dir.there
    /\ ~Abandoned(dir) \/ (reclaim.there /\ ~Clears(reclaim))
    /\ GoTo(p, "closing")
    /\ UNCHANGED <<sql, dir, reclaim, faults>>

\* finally: the directory if it is still one's own, then the transaction.
Unlock(p) ==
    /\ pc[p] = "out"
    /\ dir' = IF dir.owner = p THEN Absent ELSE dir
    /\ GoTo(p, "closing")
    /\ UNCHANGED <<sql, reclaim, faults>>

\* What p leaves behind; its record may no longer be its own.
LeftBy(p, d, owner) == [d EXCEPT !.owner = IF @ = p THEN owner ELSE @]

\* The record cannot be read, or the directory not be removed: it stays, with
\* its record or without, and the process lives on.
UnlockFails(p) ==
    /\ pc[p] = "out" /\ Fault
    /\ \E owner \in {None, Recycled} : dir' = LeftBy(p, dir, owner)
    /\ GoTo(p, "closing")
    /\ UNCHANGED <<sql, reclaim>>

Close(p) ==
    /\ pc[p] = "closing"
    /\ sql' = None
    /\ GoTo(p, "idle")
    /\ UNCHANGED <<dir, reclaim, faults>>

Older(d) == [d EXCEPT !.age = IF @ = "fresh" THEN "halfMinute" ELSE "tenMinutes"]

\* Nobody looks at the age of a lock while the transaction is held for long.
DirAges ==
    /\ sql = None /\ dir.there /\ dir.age # "tenMinutes"
    /\ dir' = Older(dir)
    /\ UNCHANGED <<sql, reclaim, pc, faults>>

ReclaimAges ==
    /\ sql = None /\ reclaim.there /\ reclaim.age # "tenMinutes"
    /\ reclaim' = Older(reclaim)
    /\ UNCHANGED <<sql, dir, pc, faults>>

\* The process dies: the kernel releases the transaction and nothing else, and
\* its pid may be given to a stranger.
LockCrash(p) ==
    /\ Fault
    /\ sql' = IF sql = p THEN None ELSE sql
    /\ \E pid \in {Dead, Recycled} :
          /\ dir' = LeftBy(p, dir, pid)
          /\ reclaim' = LeftBy(p, reclaim, pid)
    /\ GoTo(p, "idle")

\* What goes on in withFileLock outside the update itself.
LockStep(p) ==
    \/ LockTaken(p) \/ LockOwned(p) \/ LockOwnerFails(p)
    \/ ReclaimTaken(p) \/ ReclaimOwned(p) \/ ReclaimFails(p) \/ Rechecked(p)
    \/ ReclaimReturned(p) \/ ReclaimCleared(p)
    \/ LockTimesOut(p) \/ Unlock(p) \/ UnlockFails(p) \/ Close(p)

LockTypeOK ==
    /\ sql \in Procs \cup {None}
    /\ dir \in Dirs /\ reclaim \in Dirs
    /\ pc \in [Procs -> {"idle", "lock", "own", "reclaim", "recheck", "unreclaim",
                         "in", "out", "closing"}]
    /\ faults \in 0..MaxFaults
=============================================================================
