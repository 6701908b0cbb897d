---------------------------- MODULE ReclaimLock ----------------------------
(***************************************************************************)
(* The per-task reclaim lock of backend/core/task-runtime-lease.mjs        *)
(* (#takeReclaimLock and the two critical sections that use it), one file  *)
(* system call per step.  The lock is a directory holding one file,        *)
(* "owner".  It is published by renaming a prepared directory into place,  *)
(* taken from a dead owner by renaming it to a tombstone that is never     *)
(* removed, and released by deleting the file and then the directory.      *)
(*                                                                         *)
(* A process stands for one incarnation of an operating system process:    *)
(* its start key is its identity, and Pid tells which pid it runs under,   *)
(* so a later incarnation may reuse the pid of a dead one.  The UUID of an *)
(* owner record is the field "by": two records of one incarnation are not  *)
(* told apart, which only adds behaviours (no comparison of tokens in the  *)
(* code ever meets two records of one incarnation).                        *)
(***************************************************************************)
EXTENDS Naturals

CONSTANTS
  Proc,      \* process incarnations; each is its own process start key
  Pid,       \* the pid an incarnation runs under
  Steady,    \* incarnations that do not crash (the environment of liveness)
  NoLock,    \* the lock directory does not exist
  NoOwner,   \* the lock directory holds no owner file
  NoKey      \* an owner record written without a process start key

VARIABLES
  life,     \* "new", "up" or "dead", per incarnation
  lock,     \* NoLock, or the directory: its owner file, and whether it is
            \* older than RECLAIM_LOCK_STALE_MS
  retired,  \* the tombstones: the token each is named after, and its content
  keyRead,  \* reclaimOwnerStartKeyRead, per incarnation
  at,       \* the step of the call under way, per incarnation, and its locals:
  require,  \*   requireOwnerStartKey,
  again,    \*   whether it is in its second create(),
  token,    \*   the owner record it writes,
  seen      \*   the owner record it read from an existing lock

locals == <<require, again, token, seen>>
vars == <<life, lock, retired, keyRead, at, locals>>

(***************************************************************************)
(* An owner record names the pid and, when it was known, the start key of  *)
(* the incarnation that wrote it.                                          *)
(***************************************************************************)
OwnerRecord ==
  {r \in [by : Proc, pid : {Pid[p] : p \in Proc}, key : Proc \cup {NoKey}] :
     r.pid = Pid[r.by] /\ r.key \in {r.by, NoKey}}

Directory == [owner : OwnerRecord \cup {NoOwner}, old : BOOLEAN]

ASSUME SteadyAssumption  == Steady \subseteq Proc
ASSUME NoKeyAssumption   == NoKey \notin Proc
ASSUME NoOwnerAssumption == NoOwner \notin OwnerRecord
ASSUME NoLockAssumption  == NoLock \notin Directory

Labels == {"idle", "create", "stat", "rename", "restat", "age", "readOwner", "judge",
           "recheck", "quarantine", "critical", "unlinkOwner", "rmdir"}

Up(p) == life[p] = "up"
ProcessAlive(pid) == \E q \in Proc : Up(q) /\ Pid[q] = pid

At(p, label) == Up(p) /\ at[p] = label

\* Go on within a call, and leave it: its locals go out of scope.
Goto(p, label) ==
  /\ at' = [at EXCEPT ![p] = label]
  /\ UNCHANGED locals

Finish(p) ==
  /\ at' = [at EXCEPT ![p] = "idle"]
  /\ require' = [require EXCEPT ![p] = FALSE]
  /\ again' = [again EXCEPT ![p] = FALSE]
  /\ token' = [token EXCEPT ![p] = NoOwner]
  /\ seen' = [seen EXCEPT ![p] = NoOwner]

\* readReclaimOwner: the owner file, if the directory and the file exist.
OwnerFile == IF lock = NoLock THEN NoOwner ELSE lock.owner

Init ==
  /\ life = [p \in Proc |-> "new"]
  /\ lock = NoLock
  /\ retired = {}
  /\ keyRead = [p \in Proc |-> FALSE]
  /\ at = [p \in Proc |-> "idle"]
  /\ require = [p \in Proc |-> FALSE]
  /\ again = [p \in Proc |-> FALSE]
  /\ token = [p \in Proc |-> NoOwner]
  /\ seen = [p \in Proc |-> NoOwner]

(***************************************************************************)
(* A process starts, under a pid no running process has, or dies at any    *)
(* point: whatever it had put on disk stays there.                         *)
(***************************************************************************)
Start(p) ==
  /\ life[p] = "new"
  /\ ~ProcessAlive(Pid[p])
  /\ life' = [life EXCEPT ![p] = "up"]
  /\ UNCHANGED <<lock, retired, keyRead, at, locals>>

Crash(p) ==
  /\ Up(p)
  /\ p \notin Steady
  /\ life' = [life EXCEPT ![p] = "dead"]
  /\ Finish(p)
  /\ UNCHANGED <<lock, retired, keyRead>>

\* RECLAIM_LOCK_STALE_MS pass since the directory was last modified.
LockAges ==
  /\ lock # NoLock
  /\ ~lock.old
  /\ lock' = [lock EXCEPT !.old = TRUE]
  /\ UNCHANGED <<life, retired, keyRead, at, locals>>

(***************************************************************************)
(* create(): stale-lease reclaim (required = TRUE) must know its own start *)
(* key, a session write (required = FALSE) may leave it out.               *)
(***************************************************************************)
TakeReclaimLock(p, required) ==
  /\ At(p, "idle")
  /\ at' = [at EXCEPT ![p] = "create"]
  /\ require' = [require EXCEPT ![p] = required]
  /\ UNCHANGED <<life, lock, retired, keyRead, again, token, seen>>

\* create() found the lock in place: the first call goes on to examine it,
\* the second one gives up.
Occupied(p) ==
  IF again[p] THEN Finish(p)
  ELSE /\ at' = [at EXCEPT ![p] = "age"]
       /\ token' = [token EXCEPT ![p] = NoOwner]
       /\ UNCHANGED <<require, again, seen>>

\* The start key is needed and cannot be read.
CreateUnidentified(p) ==
  /\ At(p, "create")
  /\ require[p] /\ ~keyRead[p]
  /\ IF lock = NoLock THEN Finish(p) ELSE Occupied(p)
  /\ UNCHANGED <<life, lock, retired, keyRead>>

NewRecord(p) ==
  [by |-> p, pid |-> Pid[p], key |-> IF require[p] \/ keyRead[p] THEN p ELSE NoKey]

\* mkdir of the temporary directory and write of its owner file.
CreateTemporary(p) ==
  /\ At(p, "create")
  /\ keyRead' = [keyRead EXCEPT ![p] = @ \/ require[p]]
  /\ token' = [token EXCEPT ![p] = NewRecord(p)]
  /\ at' = [at EXCEPT ![p] = "stat"]
  /\ UNCHANGED <<life, lock, retired, require, again, seen>>

StatLock(p) ==
  /\ At(p, "stat")
  /\ IF lock = NoLock THEN Goto(p, "rename") ELSE Occupied(p)
  /\ UNCHANGED <<life, lock, retired, keyRead>>

\* (mutant) The rename replaces a populated directory as well.
VacantAlways == TRUE

\* rename(2) replaces an empty directory and refuses a populated one.  The
\* directory brings along its own modification time.
Vacant == OwnerFile = NoOwner

RenameIntoPlace(p) ==
  /\ At(p, "rename")
  /\ Vacant
  /\ \E old \in BOOLEAN : lock' = [owner |-> token[p], old |-> old]
  /\ Goto(p, "critical")
  /\ UNCHANGED <<life, retired, keyRead>>

RenameRefused(p) ==
  /\ At(p, "rename")
  /\ ~Vacant
  /\ Goto(p, "restat")
  /\ UNCHANGED <<life, lock, retired, keyRead>>

\* After a refused rename: occupied if the lock is still there, an error
\* that ends the attempt otherwise.
RestatLock(p) ==
  /\ At(p, "restat")
  /\ IF lock = NoLock THEN Finish(p) ELSE Occupied(p)
  /\ UNCHANGED <<life, lock, retired, keyRead>>

(***************************************************************************)
(* Taking a lock over from an owner that is gone.                          *)
(***************************************************************************)
CheckAge(p) ==
  /\ At(p, "age")
  /\ IF lock # NoLock /\ lock.old THEN Goto(p, "readOwner") ELSE Finish(p)
  /\ UNCHANGED <<life, lock, retired, keyRead>>

ReadReclaimOwner(p) ==
  /\ At(p, "readOwner")
  /\ IF OwnerFile = NoOwner THEN Finish(p)
     ELSE /\ at' = [at EXCEPT ![p] = "judge"]
          /\ seen' = [seen EXCEPT ![p] = OwnerFile]
          /\ UNCHANGED <<require, again, token>>
  /\ UNCHANGED <<life, lock, retired, keyRead>>

\* (mutants) A record without a start key counts as one that differs; the
\* start key is not compared at all.
PidReusedUnkeyed(r) == \E q \in Proc : Up(q) /\ Pid[q] = r.pid /\ q # r.key
PidReusedNever(r)   == FALSE

\* What the liveness and the start key of the pid in a record prove.
PidGone(r)   == ~ProcessAlive(r.pid)
PidReused(r) == r.key # NoKey /\ \E q \in Proc : Up(q) /\ Pid[q] = r.pid /\ q # r.key

\* keyVisible: the start key of the owner's pid could be read; ownKey: so
\* could ours, if it had not been before.
JudgeOwner(p, keyVisible, ownKey) ==
  LET r == seen[p] IN
  /\ At(p, "judge")
  /\ keyRead' = [keyRead EXCEPT ![p] = @ \/ ownKey]
  /\ IF (PidGone(r) \/ (keyVisible /\ PidReused(r))) /\ (keyRead[p] \/ ownKey)
     THEN Goto(p, "recheck") ELSE Finish(p)
  /\ UNCHANGED <<life, lock, retired>>

\* (mutant) The owner file is not read again.
SameOwnerTrusted(p) == TRUE

SameOwner(p) == OwnerFile = seen[p]

RecheckOwner(p) ==
  /\ At(p, "recheck")
  /\ IF SameOwner(p) THEN Goto(p, "quarantine") ELSE Finish(p)
  /\ UNCHANGED <<life, lock, retired, keyRead>>

SetAside(name) ==
  {t \in retired : t.name # name} \cup {[name |-> name, content |-> lock.owner]}

\* rename of the lock to the tombstone named after the owner that was seen,
\* whatever the lock holds by now; refused when that tombstone is populated.
Populated(name) == \E t \in retired : t.name = name /\ t.content # NoOwner

Quarantine(p) ==
  LET name == seen[p] IN
  /\ At(p, "quarantine")
  /\ lock # NoLock
  /\ ~Populated(name)
  /\ retired' = SetAside(name)
  /\ lock' = NoLock
  /\ again' = [again EXCEPT ![p] = TRUE]
  /\ seen' = [seen EXCEPT ![p] = NoOwner]
  /\ at' = [at EXCEPT ![p] = "create"]
  /\ UNCHANGED <<life, keyRead, require, token>>

QuarantineRefused(p) ==
  /\ At(p, "quarantine")
  /\ lock = NoLock \/ Populated(seen[p])
  /\ Finish(p)
  /\ UNCHANGED <<life, lock, retired, keyRead>>

(***************************************************************************)
(* The end of the critical section: the lock is removed, file first, only  *)
(* if it still carries this attempt's record.  A failure to remove it is   *)
(* swallowed.                                                              *)
(***************************************************************************)
ReadOwnOwner(p) ==
  /\ At(p, "critical")
  /\ IF OwnerFile = token[p] THEN Goto(p, "unlinkOwner") ELSE Finish(p)
  /\ UNCHANGED <<life, lock, retired, keyRead>>

UnlinkOwner(p) ==
  /\ At(p, "unlinkOwner")
  /\ lock' = IF lock = NoLock THEN lock ELSE [owner |-> NoOwner, old |-> FALSE]
  /\ Goto(p, "rmdir")
  /\ UNCHANGED <<life, retired, keyRead>>

\* rmdir(2) refuses a populated directory.
RemoveDirectory(p) ==
  /\ At(p, "rmdir")
  /\ lock' = IF lock # NoLock /\ lock.owner = NoOwner THEN NoLock ELSE lock
  /\ Finish(p)
  /\ UNCHANGED <<life, retired, keyRead>>

RemovalFails(p) ==
  /\ At(p, "unlinkOwner")
  /\ p \notin Steady
  /\ Finish(p)
  /\ UNCHANGED <<life, lock, retired, keyRead>>

\* The steps that follow from the code once an attempt is under way.
Step(p) ==
  \/ CreateUnidentified(p)
  \/ CreateTemporary(p)
  \/ StatLock(p)
  \/ RenameIntoPlace(p)
  \/ RenameRefused(p)
  \/ RestatLock(p)
  \/ CheckAge(p)
  \/ ReadReclaimOwner(p)
  \/ \E keyVisible, ownKey \in BOOLEAN : JudgeOwner(p, keyVisible, ownKey)
  \/ RecheckOwner(p)
  \/ Quarantine(p)
  \/ QuarantineRefused(p)
  \/ ReadOwnOwner(p)
  \/ UnlinkOwner(p)
  \/ RemoveDirectory(p)
  \/ RemovalFails(p)

Next ==
  \/ \E p \in Proc : Start(p)
  \/ \E p \in Proc : Crash(p)
  \/ \E p \in Proc, required \in BOOLEAN : TakeReclaimLock(p, required)
  \/ \E p \in Proc : Step(p)
  \/ LockAges

Spec == Init /\ [][Next]_vars

(***************************************************************************)
(* Fairness: time passes; a synchronous attempt under way runs to its end; *)
(* a steady process keeps asking for the lock (the relay and the hang      *)
(* watchdog sweep periodically), and reading a process start key does not  *)
(* fail for ever.                                                          *)
(***************************************************************************)
Fairness ==
  /\ WF_vars(LockAges)
  /\ \A p \in Proc : WF_vars(Step(p))
  /\ \A p \in Steady :
       /\ WF_vars(Start(p))
       /\ WF_vars(TakeReclaimLock(p, TRUE))
       /\ SF_vars(CreateTemporary(p))
       /\ SF_vars(JudgeOwner(p, TRUE, TRUE))

FairSpec == Spec /\ Fairness
-----------------------------------------------------------------------------
\* The lock, its tombstones and the call of each process are of the kinds described above.
TypeOK ==
  /\ life \in [Proc -> {"new", "up", "dead"}]
  /\ lock \in Directory \cup {NoLock}
  /\ retired \subseteq [name : OwnerRecord \cup {NoOwner}, content : OwnerRecord \cup {NoOwner}]
  /\ keyRead \in [Proc -> BOOLEAN]
  /\ at \in [Proc -> Labels]
  /\ require \in [Proc -> BOOLEAN]
  /\ again \in [Proc -> BOOLEAN]
  /\ token \in [Proc -> OwnerRecord \cup {NoOwner}]
  /\ seen \in [Proc -> OwnerRecord \cup {NoOwner}]

\* At most one running process is in the section the lock guards (a stale
\* lease's removal, or a session write), whatever process died where and
\* whoever took the lock over from whom.
MutualExclusion ==
  \A p, q \in Proc : At(p, "critical") /\ At(q, "critical") => p = q

\* "Atomically quarantine this exact stale owner": a tombstone holds the very
\* record it is named after, and the process that wrote it is dead.  A
\* contender paused after its checks never moves a fresh lock there.
TombstonesExact ==
  \A t \in retired : t.content = t.name /\ life[t.name.by] = "dead"

\* The records on disk are whole, and those quarantined are the dead owners' own.
QuarantineExact == TypeOK /\ TombstonesExact

\* The section the lock guards is an exclusive one: entered by one process at a
\* time, left by itself or by dying.
Section == INSTANCE ExclusiveSection WITH
  inside <- {p \in Proc : At(p, "critical")},
  gone <- {p \in Proc : life[p] = "dead"}

\* The behaviours of the lock are behaviours of ExclusiveSection.
ImplementsSection == Section!Spec

\* While a process is in its critical section the lock carries its record:
\* neither a reclaimer nor the tail of another process's removal takes it.
HolderKeepsLock ==
  \A p \in Proc : At(p, "critical") => OwnerFile = token[p]

\* An owner that is gone beyond doubt: dead, and its pid is free or its
\* record carries the start key that tells it from the pid's next user.
OwnerGone(r) == life[r.by] = "dead" /\ (r.key # NoKey \/ PidGone(r))

\* A lock left by a crashed owner is taken from it, as long as some steady
\* process keeps asking for the lock: a tombstone never blocks a retirement.
CrashedOwnerRetired ==
  \A r \in OwnerRecord :
    (OwnerFile = r /\ OwnerGone(r) /\ Steady # {}) ~> (OwnerFile # r \/ ~OwnerGone(r))
=============================================================================
