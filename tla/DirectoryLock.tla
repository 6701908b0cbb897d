--------------------------- MODULE DirectoryLock ---------------------------
(***************************************************************************)
(* The cross-process lock of backend/core/directory-lock.mjs: a directory  *)
(* made with mkdir(2), an "owner" file written into it afterwards, removal *)
(* by path when its owner is gone or too old, and an optional heartbeat    *)
(* from a worker thread.  One file operation per step; the recursive       *)
(* removal of the directory is one of them.  withDirectoryLockAsync takes  *)
(* the same steps with awaits between them.                                *)
(*                                                                         *)
(* A process stands for one incarnation running one call at a time.  The   *)
(* age of the lock is counted in quarters that the code tells apart:       *)
(* 0 just touched, 1 older than a heartbeat, 2 older than staleMs, 3 older *)
(* than LIVE_OWNER_HARD_CAP_MS.                                            *)
(***************************************************************************)
EXTENDS Naturals

CONSTANTS
  Proc,         \* process incarnations
  Pid,          \* the pid an incarnation runs under
  Mortal,       \* incarnations that may crash
  Slow,         \* incarnations whose action may outlast staleMs
  Heartbeating, \* incarnations whose calls pass heartbeatMs
  Failing,      \* incarnations whose write of the owner file may fail
  MaxAttempts,  \* maxAttempts
  NoLock,       \* the lock directory does not exist
  NoOwner       \* the lock directory holds no owner file

ASSUME ProcAssumption == Mortal \cup Slow \cup Heartbeating \cup Failing \subseteq Proc
ASSUME AttemptsAssumption == MaxAttempts \in Nat
ASSUME NoOwnerAssumption == NoOwner \notin Proc

VARIABLES
  life,   \* "new", "up" or "dead"
  lock,   \* NoLock, or the directory: its owner token and its age
  at,     \* the step of the call under way
  tries,  \* attempt
  seen    \* the owner token read from an existing lock

lockVars == <<life, lock, at, tries, seen>>

Directory == [owner : Proc \cup {NoOwner}, age : 0 .. 3]
ASSUME NoLockAssumption == NoLock \notin Directory

Labels == {"idle", "mkdir", "writeOwner", "undo", "readSeen", "stat", "recheck", "remove",
           "wait", "action", "release", "unlock", "busy"}

Up(p) == life[p] = "up"
PidAlive(p) == \E q \in Proc : Up(q) /\ Pid[q] = Pid[p]
At(p, label) == Up(p) /\ at[p] = label
Goto(p, label) == at' = [at EXCEPT ![p] = label]

\* readOwner: null when the directory or the file is missing.
OwnerToken == IF lock = NoLock THEN NoOwner ELSE lock.owner

\* (mutants) Time alone takes a lock from anyone; the hard cap is missing.
ReclaimableByAge(token) == lock.age > 1
ReclaimableUncapped(token) == lock.age > 1 /\ (token = NoOwner \/ ~PidAlive(token))

\* reclaimable: time alone takes a lock from a live owner only past the cap.
Reclaimable(token) ==
  /\ lock.age > 1
  /\ token = NoOwner \/ ~PidAlive(token) \/ lock.age > 2

\* The lock's owner is gone, or its maker went before it wrote the owner file.
Abandoned ==
  /\ lock # NoLock
  /\ IF lock.owner = NoOwner THEN \A p \in Proc : ~At(p, "writeOwner")
     ELSE ~Up(lock.owner)

LockInit ==
  /\ life = [p \in Proc |-> "new"]
  /\ lock = NoLock
  /\ at = [p \in Proc |-> "idle"]
  /\ tries = [p \in Proc |-> 0]
  /\ seen = [p \in Proc |-> NoOwner]

Start(p) ==
  /\ life[p] = "new"
  /\ ~PidAlive(p)
  /\ life' = [life EXCEPT ![p] = "up"]
  /\ UNCHANGED <<lock, at, tries, seen>>

Crash(p) ==
  /\ p \in Mortal
  /\ Up(p)
  /\ life' = [life EXCEPT ![p] = "dead"]
  /\ Goto(p, "idle")
  /\ tries' = [tries EXCEPT ![p] = 0]
  /\ seen' = [seen EXCEPT ![p] = NoOwner]
  /\ UNCHANGED lock

\* Time passes.  A call takes no time to speak of to write its owner file, to judge
\* a lock in use, to remove one or to release its own; only a slow action outlasts
\* staleMs, a heartbeat keeps its lock fresh, and no action outlasts the hard cap.
LockAges ==
  /\ lock # NoLock
  /\ lock.age < 3
  /\ lock.age > 0 => \A p \in Proc : Up(p) =>
       \/ at[p] \in {"idle", "mkdir", "readSeen", "wait", "busy"}
       \/ at[p] = "stat" /\ Abandoned
       \/ at[p] = "action" /\ p \in Slow \ Heartbeating /\ lock.age = 1
  /\ lock' = [lock EXCEPT !.age = @ + 1]
  /\ UNCHANGED <<life, at, tries, seen>>

\* The worker thread: only a lock that still carries the token is refreshed.
Heartbeat(p) ==
  /\ At(p, "action")
  /\ p \in Heartbeating
  /\ OwnerToken = p
  /\ lock' = [lock EXCEPT !.age = 0]
  /\ UNCHANGED <<life, at, tries, seen>>

(***************************************************************************)
(* Acquisition.                                                            *)
(***************************************************************************)
WithDirectoryLock(p) ==
  /\ At(p, "idle")
  /\ Goto(p, "mkdir")
  /\ UNCHANGED <<life, lock, tries, seen>>

\* mkdir fails with EEXIST; (mutant) with "recursive" it never does.
VacantRecursive == TRUE
Vacant == lock = NoLock

MakeDirectory(p) ==
  /\ At(p, "mkdir")
  /\ IF Vacant
     THEN lock' = [owner |-> NoOwner, age |-> 0] /\ Goto(p, "writeOwner")
     ELSE Goto(p, "readSeen") /\ UNCHANGED lock
  /\ UNCHANGED <<life, tries, seen>>

\* The file is written into whatever directory is there by now.
WriteOwner(p) ==
  /\ At(p, "writeOwner")
  /\ lock # NoLock
  /\ lock' = [owner |-> p, age |-> IF lock.owner = NoOwner THEN 0 ELSE lock.age]
  /\ Goto(p, "action")
  /\ UNCHANGED <<life, tries, seen>>

WriteOwnerFails(p) ==
  /\ At(p, "writeOwner")
  /\ lock = NoLock \/ p \in Failing
  /\ Goto(p, "undo")
  /\ UNCHANGED <<life, lock, tries, seen>>

UndoDirectory(p) ==
  /\ At(p, "undo")
  /\ lock' = NoLock
  /\ Goto(p, "wait")
  /\ UNCHANGED <<life, tries, seen>>

ReadSeen(p) ==
  /\ At(p, "readSeen")
  /\ seen' = [seen EXCEPT ![p] = OwnerToken]
  /\ Goto(p, "stat")
  /\ UNCHANGED <<life, lock, tries>>

StatLock(p) ==
  /\ At(p, "stat")
  /\ Goto(p, IF lock # NoLock /\ Reclaimable(seen[p]) THEN "recheck" ELSE "wait")
  /\ UNCHANGED <<life, lock, tries, seen>>

RecheckOwner(p) ==
  /\ At(p, "recheck")
  /\ Goto(p, IF OwnerToken = seen[p] THEN "remove" ELSE "wait")
  /\ UNCHANGED <<life, lock, tries, seen>>

RemoveLock(p) ==
  /\ At(p, "remove")
  /\ lock' = NoLock
  /\ Goto(p, "wait")
  /\ UNCHANGED <<life, tries, seen>>

AttemptsLeft(p) == tries[p] < MaxAttempts

\* Sleep and try again, or give up as busy.
Wait(p) ==
  /\ At(p, "wait")
  /\ IF AttemptsLeft(p)
     THEN Goto(p, "mkdir") /\ tries' = [tries EXCEPT ![p] = @ + 1]
     ELSE Goto(p, "busy") /\ tries' = [tries EXCEPT ![p] = 0]
  /\ seen' = [seen EXCEPT ![p] = NoOwner]
  /\ UNCHANGED <<life, lock>>

\* The caller handles the busy error.
HandleBusy(p) ==
  /\ At(p, "busy")
  /\ Goto(p, "idle")
  /\ UNCHANGED <<life, lock, tries, seen>>

(***************************************************************************)
(* The end of the action: the heartbeat stops, and the lock is removed if  *)
(* it still carries the token of this call.                                *)
(***************************************************************************)
EndAction(p) ==
  /\ At(p, "action")
  /\ Goto(p, "release")
  /\ UNCHANGED <<life, lock, tries, seen>>

ReadOwnOwner(p) ==
  /\ At(p, "release")
  /\ IF OwnerToken = p THEN Goto(p, "unlock") /\ UNCHANGED tries
     ELSE Goto(p, "idle") /\ tries' = [tries EXCEPT ![p] = 0]
  /\ UNCHANGED <<life, lock, seen>>

Unlock(p) ==
  /\ At(p, "unlock")
  /\ lock' = NoLock
  /\ Goto(p, "idle")
  /\ tries' = [tries EXCEPT ![p] = 0]
  /\ UNCHANGED <<life, seen>>

\* The steps of a call other than those of its action.
CallStep(p) ==
  \/ MakeDirectory(p) \/ WriteOwner(p) \/ WriteOwnerFails(p) \/ UndoDirectory(p)
  \/ ReadSeen(p) \/ StatLock(p) \/ RecheckOwner(p) \/ RemoveLock(p) \/ Wait(p)
  \/ ReadOwnOwner(p) \/ Unlock(p)

LockNext ==
  \/ LockAges
  \/ \E p \in Proc :
       \/ Start(p) \/ Crash(p) \/ Heartbeat(p) \/ WithDirectoryLock(p)
       \/ CallStep(p) \/ HandleBusy(p) \/ EndAction(p)

LockSpec == LockInit /\ [][LockNext]_lockVars

(***************************************************************************)
(* Fairness: time passes, if only while the contenders sleep; a call runs  *)
(* on, an action ends, and an immortal process asks again.                 *)
(***************************************************************************)
Fairness ==
  /\ SF_lockVars(LockAges)
  /\ \A p \in Proc : WF_lockVars(CallStep(p))
  /\ \A p \in Proc : WF_lockVars(EndAction(p))
  /\ \A p \in Proc \ Mortal : WF_lockVars(Start(p) \/ HandleBusy(p) \/ WithDirectoryLock(p))

FairLockSpec == LockSpec /\ Fairness
-----------------------------------------------------------------------------
\* Types; in particular no call makes more retries than maxAttempts.
LockTypeOK ==
  /\ life \in [Proc -> {"new", "up", "dead"}]
  /\ lock \in Directory \cup {NoLock}
  /\ at \in [Proc -> Labels]
  /\ tries \in [Proc -> 0 .. MaxAttempts]
  /\ seen \in [Proc -> Proc \cup {NoOwner}]

\* The removal of a dead owner's lock goes by path: what two processes that both
\* judged it do next is outside the two promises below.
NoneDied == \A p \in Proc : life[p] # "dead"

\* At most one process is in its action, however long the action lasts.
MutualExclusion ==
  /\ LockTypeOK
  /\ NoneDied => \A p, q \in Proc : At(p, "action") /\ At(q, "action") => p = q

\* "Time alone never steals a lock held by a live process until the hard cap": the
\* lock of a running action stays until the process ends it.
LiveOwnerKept ==
  [][\A p \in Proc :
       NoneDied' /\ At(p, "action") /\ OwnerToken = p => OwnerToken' = p]_lockVars

\* While processes go on asking, a lock whose owner, or whose maker, crashed is
\* replaced in the end, even when its pid runs another process by then.
CrashedOwnerReplaced == Abandoned ~> ~Abandoned
=============================================================================
