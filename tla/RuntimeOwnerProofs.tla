-------------------------- MODULE RuntimeOwnerProofs --------------------------
(***************************************************************************)
(* Proofs about RuntimeOwner and the DirectoryLock it extends, for any     *)
(* number of processes.  As long as no process dies, at most one process   *)
(* is in its action, and nobody judges a lock in use to be abandoned;      *)
(* as long as none dies in the middle of a claim, the owner record names   *)
(* every owner.                                                            *)
(***************************************************************************)
EXTENDS RuntimeOwner, TLAPS

(***************************************************************************)
(* The lock.                                                               *)
(***************************************************************************)
\* The steps between a successful mkdir and the removal of the directory: before and
\* after the owner file is in it.
Making  == {"writeOwner", "undo"}
Owning  == {"action", "release", "unlock"}
Holding == Making \cup Owning

\* A process that does not run has no call under way.
Resting == \A p \in Proc : ~Up(p) => at[p] = "idle"

\* The directory is there exactly while a process holds it, and names that process.
Held ==
  /\ lock = NoLock => \A p \in Proc : at[p] \notin Holding
  /\ lock # NoLock => \E p \in Proc :
       /\ at[p] \in Holding
       /\ \A q \in Proc : at[q] \in Holding => q = p
       /\ lock.owner = IF at[p] \in Making THEN NoOwner ELSE p

\* A lock past staleMs has its owner file; whoever is about to judge it has read it.
Stale ==
  lock # NoLock =>
    /\ lock.age < 3
    /\ lock.age = 2 => /\ lock.owner # NoOwner
                       /\ \A p \in Proc : at[p] = "stat" => seen[p] = lock.owner

\* So nobody reclaims.
NobodyReclaims == \A p \in Proc : at[p] \notin {"recheck", "remove"}

Sound == Resting /\ Held /\ Stale /\ NobodyReclaims

LockIInv == LockTypeOK /\ (NoneDied => Sound)
-----------------------------------------------------------------------------
\* The steps of a process, each by itself.
Moves(p) == Start(p) \/ Heartbeat(p) \/ WithDirectoryLock(p) \/ CallStep(p) \/ HandleBusy(p) \/ EndAction(p)

LEMMA LockInitInv == LockInit => LockTypeOK /\ Sound
<1> SUFFICES ASSUME LockInit PROVE LockTypeOK /\ Sound
  OBVIOUS
<1>1. LockTypeOK
  BY AttemptsAssumption DEF LockInit, LockTypeOK, Labels
<1>2. Sound
  BY DEF LockInit, Sound, Resting, Held, Stale, NobodyReclaims, Holding, Making, Owning
<1> QED BY <1>1, <1>2

LEMMA LockTypeStep ==
  ASSUME LockTypeOK, LockAges \/ \E p \in Proc : Crash(p) \/ Moves(p)
  PROVE  LockTypeOK'
<1>1. CASE LockAges
  BY <1>1 DEF LockAges, LockTypeOK, Directory
<1>2. ASSUME NEW p \in Proc, Crash(p) \/ Start(p) \/ Heartbeat(p) \/ WithDirectoryLock(p)
                             \/ HandleBusy(p) \/ EndAction(p)
      PROVE  LockTypeOK'
  BY <1>2, AttemptsAssumption, NoOwnerAssumption
     DEF Crash, Start, Heartbeat, WithDirectoryLock, HandleBusy, EndAction, LockTypeOK, Directory,
     Goto, Labels, OwnerToken, At
<1>3. ASSUME NEW p \in Proc, MakeDirectory(p) \/ WriteOwner(p) \/ WriteOwnerFails(p) \/ UndoDirectory(p)
      PROVE  LockTypeOK'
  BY <1>3 DEF MakeDirectory, WriteOwner, WriteOwnerFails, UndoDirectory, LockTypeOK, Directory, Goto,
     Labels
<1>4. ASSUME NEW p \in Proc, ReadSeen(p) \/ StatLock(p) \/ RecheckOwner(p) \/ RemoveLock(p) \/ Wait(p)
      PROVE  LockTypeOK'
  BY <1>4, AttemptsAssumption
     DEF ReadSeen, StatLock, RecheckOwner, RemoveLock, Wait, AttemptsLeft, LockTypeOK, Directory,
     OwnerToken, Goto, Labels
<1>5. ASSUME NEW p \in Proc, ReadOwnOwner(p) \/ Unlock(p)
      PROVE  LockTypeOK'
  BY <1>5, AttemptsAssumption DEF ReadOwnOwner, Unlock, LockTypeOK, Directory, Goto, Labels
<1> QED BY <1>1, <1>2, <1>3, <1>4, <1>5 DEF Moves, CallStep
-----------------------------------------------------------------------------
\* Time: a lock that ages past staleMs belongs to a running action, and nobody is
\* between reading its owner and judging it.
LEMMA AgesSound ==
  ASSUME LockTypeOK, Sound, LockAges
  PROVE  Sound'
<1> USE DEF Sound
<1>1. /\ lock # NoLock /\ lock' # NoLock /\ lock.age \in 0 .. 2
      /\ lock'.owner = lock.owner /\ lock'.age = lock.age + 1
      /\ UNCHANGED <<life, at, tries, seen>>
  BY NoLockAssumption DEF LockAges, LockTypeOK, Directory
<1>2. Resting' /\ NobodyReclaims' /\ Held'
  BY <1>1 DEF Resting, NobodyReclaims, Held, Up
<1>3. Stale'
  <2>1. CASE lock.age = 0
    BY <1>1, <2>1 DEF Stale
  <2>2. CASE lock.age # 0
    <3>1. PICK p \in Proc : at[p] \in Holding /\ lock.owner = IF at[p] \in Making THEN NoOwner ELSE p
      BY <1>1 DEF Held
    <3>2. Up(p)
      BY <3>1 DEF Resting, Holding, Making, Owning
    <3>3. at[p] = "action" /\ lock.age = 1
      BY <1>1, <2>2, <3>1, <3>2 DEF LockAges, Holding, Making, Owning
    <3>4. ~Abandoned
      BY <3>1, <3>2, <3>3, NoOwnerAssumption DEF Abandoned, Making
    <3>5. ASSUME NEW q \in Proc PROVE at[q] # "stat"
      BY <1>1, <2>2, <3>4 DEF LockAges, Resting
    <3> QED BY <1>1, <3>1, <3>3, <3>5, NoOwnerAssumption DEF Stale, Making
  <2> QED BY <2>1, <2>2
<1> QED BY <1>2, <1>3

\* A call that takes, writes or leaves the directory.
LEMMA HolderSound ==
  ASSUME LockTypeOK, Sound, NEW p \in Proc,
         MakeDirectory(p) \/ WriteOwner(p) \/ WriteOwnerFails(p) \/ UndoDirectory(p)
           \/ EndAction(p) \/ ReadOwnOwner(p) \/ Unlock(p)
  PROVE  Sound'
<1> USE DEF Sound, LockTypeOK
<1>1. /\ UNCHANGED <<life, seen>> /\ Up(p)
      /\ \A q \in Proc : q # p => at'[q] = at[q]
      /\ at[p] = "mkdir" \/ at[p] \in Holding
  BY DEF MakeDirectory, WriteOwner, WriteOwnerFails, UndoDirectory, EndAction, ReadOwnOwner, Unlock,
     Goto, At, Holding, Making, Owning
<1>2. Resting'
  BY <1>1 DEF Resting, Up
<1>3. NobodyReclaims'
  BY <1>1 DEF NobodyReclaims, MakeDirectory, WriteOwner, WriteOwnerFails, UndoDirectory, EndAction,
     ReadOwnOwner, Unlock, Goto
<1>4. CASE at[p] = "mkdir"
  <2>1. MakeDirectory(p)
    BY <1>4 DEF WriteOwner, WriteOwnerFails, UndoDirectory, EndAction, ReadOwnOwner, Unlock, At
  <2>2. CASE lock = NoLock
    <3>1. lock' = [owner |-> NoOwner, age |-> 0] /\ at'[p] = "writeOwner"
      BY <2>1, <2>2 DEF MakeDirectory, Vacant, Goto
    <3>2. lock' # NoLock /\ lock'.age = 0 /\ lock'.owner = NoOwner
      BY <3>1, NoLockAssumption DEF Directory
    <3>3. Held'
      BY <1>1, <2>2, <3>1, <3>2 DEF Held, Holding, Making
    <3> QED BY <1>2, <1>3, <3>2, <3>3 DEF Stale
  <2>3. CASE lock # NoLock
    <3>1. lock' = lock /\ at'[p] = "readSeen"
      BY <2>1, <2>3 DEF MakeDirectory, Vacant, Goto
    <3>2. Held'
      BY <1>1, <1>4, <3>1 DEF Held, Holding, Making, Owning
    <3>3. Stale'
      BY <1>1, <3>1 DEF Stale
    <3> QED BY <1>2, <1>3, <3>2, <3>3
  <2> QED BY <2>2, <2>3
<1>5. CASE at[p] \in Holding
  <2>1. /\ lock # NoLock
        /\ \A q \in Proc : at[q] \in Holding => q = p
        /\ lock.owner = IF at[p] \in Making THEN NoOwner ELSE p
    BY <1>5 DEF Held
  <2>2. lock \in Directory /\ ~MakeDirectory(p)
    BY <1>5, <2>1 DEF MakeDirectory, At, Holding, Making, Owning
  <2>3. CASE UndoDirectory(p) \/ Unlock(p)
    <3>1. lock' = NoLock /\ at'[p] \notin Holding
      BY <2>3 DEF UndoDirectory, Unlock, Goto, Holding, Making, Owning
    <3>2. Held' /\ Stale'
      BY <1>1, <2>1, <3>1 DEF Held, Stale
    <3> QED BY <1>2, <1>3, <3>2
  <2>4. CASE WriteOwner(p)
    <3>1. lock' = [owner |-> p, age |-> 0] /\ at'[p] = "action"
      BY <2>1, <2>4 DEF WriteOwner, At, Goto, Making
    <3>2. lock' # NoLock /\ lock'.age = 0 /\ lock'.owner = p
      BY <3>1, NoLockAssumption DEF Directory
    <3>3. Held'
      BY <1>1, <2>1, <3>1, <3>2 DEF Held, Holding, Making, Owning
    <3> QED BY <1>2, <1>3, <3>2, <3>3 DEF Stale
  <2>5. CASE WriteOwnerFails(p) \/ EndAction(p) \/ ReadOwnOwner(p)
    <3>1. lock' = lock /\ IF at[p] \in Making THEN at'[p] \in Making ELSE at'[p] \in Owning
      BY <2>1, <2>5 DEF WriteOwnerFails, EndAction, ReadOwnOwner, OwnerToken, At, Goto, Making, Owning
    <3>2. Held'
      BY <1>1, <1>5, <2>1, <3>1 DEF Held, Holding, Making, Owning
    <3>3. Stale'
      BY <1>1, <3>1 DEF Stale, Making, Owning
    <3> QED BY <1>2, <1>3, <3>2, <3>3
  <2> QED BY <2>2, <2>3, <2>4, <2>5
<1> QED BY <1>1, <1>4, <1>5

\* A call that waits for the lock: it judges a holder that runs, and leaves it alone.
LEMMA WaiterSound ==
  ASSUME LockTypeOK, Sound, NEW p \in Proc,
         Start(p) \/ WithDirectoryLock(p) \/ ReadSeen(p) \/ StatLock(p) \/ RecheckOwner(p)
           \/ RemoveLock(p) \/ Wait(p) \/ HandleBusy(p)
  PROVE  Sound'
<1> USE DEF Sound, LockTypeOK
<1>1. ~RecheckOwner(p) /\ ~RemoveLock(p)
  BY DEF NobodyReclaims, RecheckOwner, RemoveLock, At
<1>2. /\ lock' = lock
      /\ \A q \in Proc : q # p => life'[q] = life[q] /\ at'[q] = at[q] /\ seen'[q] = seen[q]
      /\ at[p] \notin Holding /\ at'[p] \notin Holding \cup {"remove"}
      /\ Up(p)'
  BY <1>1 DEF Start, WithDirectoryLock, ReadSeen, StatLock, Wait, HandleBusy, Goto, At, Up, Holding,
     Making, Owning, Resting
<1>3. Resting' /\ Held'
  BY <1>2 DEF Resting, Held, Up
<1>4. NobodyReclaims'
  <2>1. CASE StatLock(p) /\ lock # NoLock /\ lock.age = 2
    <3>1. seen[p] = lock.owner /\ lock.owner # NoOwner
      BY <2>1 DEF Stale, StatLock, At
    <3>2. PICK q \in Proc : at[q] \in Holding /\ lock.owner = IF at[q] \in Making THEN NoOwner ELSE q
      BY <2>1 DEF Held
    <3>3. Up(q) /\ lock.owner = q
      BY <3>1, <3>2 DEF Resting, Holding, Making, Owning
    <3>4. ~Reclaimable(seen[p])
      BY <2>1, <3>1, <3>3 DEF Reclaimable, PidAlive
    <3> QED BY <1>2, <2>1, <3>4 DEF NobodyReclaims, StatLock, Goto
  <2>2. CASE StatLock(p) /\ ~(lock # NoLock /\ lock.age = 2)
    <3>1. ~(lock # NoLock /\ Reclaimable(seen[p]))
      BY <2>2 DEF Reclaimable, Stale, Directory
    <3> QED BY <1>2, <2>2, <3>1 DEF NobodyReclaims, StatLock, Goto
  <2>3. CASE ~StatLock(p)
    BY <1>1, <1>2, <2>3
       DEF NobodyReclaims, Start, WithDirectoryLock, ReadSeen, Wait, HandleBusy, Goto
  <2> QED BY <2>1, <2>2, <2>3
<1>5. Stale'
  <2>1. at'[p] = "stat" /\ lock # NoLock => seen'[p] = lock.owner
    BY <1>1 DEF Start, WithDirectoryLock, ReadSeen, StatLock, Wait, HandleBusy, Goto, OwnerToken,
       Resting, Up
  <2> QED BY <1>2, <2>1 DEF Stale
<1> QED BY <1>3, <1>4, <1>5

LEMMA HeartbeatSound ==
  ASSUME LockTypeOK, Sound, NEW p \in Proc, Heartbeat(p)
  PROVE  Sound'
<1>1. /\ UNCHANGED <<life, at, tries, seen>>
      /\ lock # NoLock /\ lock' # NoLock /\ lock'.owner = lock.owner /\ lock'.age = 0
  BY NoLockAssumption, NoOwnerAssumption DEF Heartbeat, OwnerToken, LockTypeOK, Directory
<1> QED BY <1>1 DEF Sound, Resting, Held, Stale, NobodyReclaims, Up

\* A process that dies between two calls leaves the lock as it was.
LEMMA CrashSound ==
  ASSUME LockTypeOK, Sound, NEW p \in Proc, Crash(p), at[p] = "idle"
  PROVE  Sound'
<1>1. /\ UNCHANGED <<lock, at>>
      /\ \A q \in Proc : q # p => life'[q] = life[q] /\ seen'[q] = seen[q]
      /\ at'[p] = "idle"
  BY DEF Crash, Goto, LockTypeOK
<1> QED BY <1>1 DEF Sound, Resting, Held, Stale, NobodyReclaims, Up, LockTypeOK

LEMMA LockSound ==
  ASSUME LockTypeOK, Sound,
         \/ LockAges
         \/ \E p \in Proc : (Crash(p) /\ at[p] = "idle") \/ Moves(p)
  PROVE  Sound'
BY AgesSound, HolderSound, WaiterSound, HeartbeatSound, CrashSound DEF Moves, CallStep
-----------------------------------------------------------------------------
LEMMA LockInvStep == LockIInv /\ [LockNext]_lockVars => LockIInv'
<1> SUFFICES ASSUME LockIInv, [LockNext]_lockVars PROVE LockIInv'
  OBVIOUS
<1> USE DEF LockIInv
<1>1. CASE UNCHANGED lockVars
  <2>1. LockTypeOK' /\ (NoneDied' => NoneDied)
    BY <1>1 DEF lockVars, LockTypeOK, NoneDied
  <2>2. Sound => Sound'
    BY <1>1 DEF lockVars, Sound, Resting, Held, Stale, NobodyReclaims, Up
  <2> QED BY <2>1, <2>2
<1>2. CASE LockNext
  <2>1. LockTypeOK'
    BY <1>2, LockTypeStep DEF LockNext, Moves
  <2>2. ASSUME NoneDied' PROVE Sound'
    <3>1. NoneDied
      BY <1>2, <2>2
         DEF NoneDied, LockNext, LockAges, Crash, Start, Heartbeat, WithDirectoryLock, CallStep,
         MakeDirectory, WriteOwner, WriteOwnerFails, UndoDirectory, ReadSeen, StatLock, RecheckOwner,
         RemoveLock, Wait, ReadOwnOwner, Unlock, HandleBusy, EndAction, LockTypeOK
    <3>2. ASSUME NEW p \in Proc PROVE ~Crash(p)
      BY <2>2 DEF NoneDied, Crash, LockTypeOK
    <3> QED BY <1>2, <3>1, <3>2, LockSound DEF LockNext, Moves
  <2> QED BY <2>1, <2>2
<1> QED BY <1>1, <1>2

LEMMA LockInv == LockSpec => []LockIInv
<1>1. LockInit => LockIInv
  BY LockInitInv DEF LockIInv
<1> QED BY <1>1, LockInvStep, PTL DEF LockSpec

\* withDirectoryLock: every call that runs is at a step of it, and makes no more retries
\* than maxAttempts.
THEOREM LockTypeCorrect == LockSpec => []LockTypeOK
<1>1. LockIInv => LockTypeOK
  BY DEF LockIInv
<1> QED BY <1>1, LockInv, PTL

\* mkdir excludes, without "recursive": until a process dies, at most one is in the action
\* of its call, whatever the others judge meanwhile and however their writes fail.
THEOREM OneInAction == LockSpec => []MutualExclusion
<1>1. LockIInv => MutualExclusion
  BY DEF LockIInv, MutualExclusion, Sound, Held, At, Holding, Owning
<1> QED BY <1>1, LockInv, PTL

\* "Time alone never steals a lock held by a live process until the hard cap": nobody but
\* its owner removes the lock of a running action.
THEOREM LiveOwnersKeep == LockSpec => LiveOwnerKept
<1> DEFINE Kept == \A p \in Proc :
                     NoneDied' /\ At(p, "action") /\ OwnerToken = p => OwnerToken' = p
<1>1. ASSUME LockIInv, LockIInv', [LockNext]_lockVars PROVE [Kept]_lockVars
  <2> SUFFICES ASSUME LockNext, NEW p \in Proc, NoneDied', At(p, "action"), OwnerToken = p
               PROVE  OwnerToken' = p
    BY <1>1
  <2>1. Sound' /\ LockTypeOK /\ LockTypeOK'
    BY <1>1 DEF LockIInv
  <2>2. at'[p] \in Owning
    BY <2>1
       DEF LockNext, LockAges, Crash, Start, Heartbeat, WithDirectoryLock, CallStep, MakeDirectory,
       WriteOwner, WriteOwnerFails, UndoDirectory, ReadSeen, StatLock, RecheckOwner, RemoveLock, Wait,
       ReadOwnOwner, Unlock, HandleBusy, EndAction, LockTypeOK, At, Goto, NoneDied, Owning
  <2> QED BY <2>1, <2>2 DEF Sound, Held, Holding, Making, Owning, OwnerToken
<1> QED BY <1>1, LockInv, PTL DEF LockSpec, LiveOwnerKept

(***************************************************************************)
(* The owner record, claimed inside the action of the lock.                *)
(***************************************************************************)
OwnerTyped == record \in Record \cup {NoRecord} /\ claim \in [Proc -> Steps] /\ owner \subseteq Proc

\* A claim runs inside the action of the lock, a release outside of it.
Inside == {"read", "grace", "remove", "write", "fill"}
Placed ==
  \A p \in Proc :
     /\ claim[p] \in Inside => at[p] = "action"
     /\ claim[p] = "release" \/ (claim[p] = "none" /\ p \in owner) => at[p] = "idle"
     /\ ~Up(p) => claim[p] = "none" /\ p \notin owner

\* The record is that of every owner, and of whoever is about to remove its own.
Recorded ==
  \A p \in Proc :
     /\ p \in owner => claim[p] \in {"none", "claimed"}
     /\ p \in owner \/ claim[p] = "release" => record # NoRecord /\ record.by = p /\ record.whole
     /\ claim[p] = "fill" => record # NoRecord /\ record.by = p

\* A claim never finds a record half written, and goes on only without a living owner.
Judged ==
  /\ record # NoRecord => life[record.by] # "new"
  /\ record # NoRecord /\ ~record.whole => claim[record.by] = "fill"
  /\ \A p \in Proc :
        /\ claim[p] # "grace"
        /\ claim[p] = "remove" => record # NoRecord /\ life[record.by] = "dead"
        /\ claim[p] = "write" => record = NoRecord

Guarded == Sound /\ Placed /\ Recorded /\ Judged
OwnerInv == TypeOK /\ (NoneCareless => Guarded)
-----------------------------------------------------------------------------
LEMMA OwnerInitInv == Init => OwnerInv
<1> SUFFICES ASSUME Init PROVE OwnerInv
  OBVIOUS
<1>1. LockTypeOK /\ Sound
  BY LockInitInv DEF Init
<1>2. TypeOK
  BY <1>1 DEF TypeOK, Init, Steps
<1>3. Placed /\ Recorded /\ Judged
  BY DEF Placed, Recorded, Judged, Init, Inside
<1> QED BY <1>1, <1>2, <1>3 DEF OwnerInv, Guarded

LEMMA OwnerTypeStep == TypeOK /\ [Next]_vars => TypeOK'
<1> SUFFICES ASSUME TypeOK, [Next]_vars PROVE TypeOK'
  OBVIOUS
<1> USE DEF TypeOK
<1>1. LockTypeOK'
  <2>1. CASE UNCHANGED lockVars
    BY <2>1 DEF lockVars, LockTypeOK
  <2>2. CASE ~UNCHANGED lockVars
    <3>1. LockAges \/ \E p \in Proc : Crash(p) \/ Moves(p)
      BY <2>2 DEF Next, vars, Ages, RecordAges, LockOnly, Die, ClaimStep, CheckExists, ReadOwner,
         CheckGrace, RemoveRecord, CreateRecord, FillRecord, Settle, RemoveOwnRecord, ReleaseOwner, Moves,
         lockVars
    <3> QED BY <3>1, LockTypeStep
  <2> QED BY <2>1, <2>2
<1>2. OwnerTyped'
  <2>1. CASE UNCHANGED ownerVars
    BY <2>1 DEF OwnerTyped, ownerVars
  <2>2. CASE RecordAges
    BY <2>2, NoRecordAssumption DEF OwnerTyped, RecordAges, Record
  <2>3. ASSUME NEW p \in Proc, Die(p) \/ ReleaseOwner(p) \/ Settle(p) \/ RemoveOwnRecord(p) PROVE OwnerTyped'
    BY <2>3 DEF OwnerTyped, Die, ReleaseOwner, Settle, RemoveOwnRecord, Steps, Step
  <2>4. ASSUME NEW p \in Proc, CheckExists(p) \/ ReadOwner(p) \/ CheckGrace(p) \/ RemoveRecord(p)
        PROVE  OwnerTyped'
    BY <2>4 DEF OwnerTyped, CheckExists, ReadOwner, CheckGrace, RemoveRecord, Steps, Step
  <2>5. ASSUME NEW p \in Proc, CreateRecord(p) PROVE OwnerTyped'
    <3>1. [by |-> p, whole |-> FALSE, young |-> TRUE] \in Record
      BY DEF Record
    <3>2. record' \in Record \cup {NoRecord}
      BY <2>5, <3>1, Zenon DEF CreateRecord
    <3>3. claim' \in [Proc -> Steps] /\ owner' \subseteq Proc
      BY <2>5 DEF CreateRecord, Steps, Step
    <3> QED BY <3>2, <3>3 DEF OwnerTyped
  <2>6. ASSUME NEW p \in Proc, FillRecord(p) PROVE OwnerTyped'
    <3>1. record # NoRecord => [record EXCEPT !.whole = TRUE] \in Record
      BY DEF Record
    <3>2. record' \in Record \cup {NoRecord}
      BY <2>6, <3>1 DEF FillRecord
    <3> QED BY <2>6, <3>2 DEF OwnerTyped, FillRecord, Steps, Step
  <2> QED BY <2>1, <2>2, <2>3, <2>4, <2>5, <2>6
          DEF Next, vars, Ages, LockOnly, ClaimStep, ownerVars
<1> QED BY <1>1, <1>2 DEF OwnerTyped
-----------------------------------------------------------------------------
\* What the lock does outside the claims.
LEMMA LockOnlyGuarded ==
  ASSUME TypeOK, Guarded, NEW p \in Proc, LockOnly(p)
  PROVE  Guarded'
<1> USE DEF TypeOK, Guarded
<1>1. Moves(p) /\ UNCHANGED ownerVars
  BY DEF LockOnly, Moves
<1>2. Sound'
  BY <1>1, LockSound
<1>3. \A q \in Proc : (Up(q) => Up(q)') /\ (q # p => at'[q] = at[q] /\ (Up(q)' => Up(q)))
  BY DEF LockOnly, Start, WithDirectoryLock, CallStep, MakeDirectory, WriteOwner, WriteOwnerFails,
     UndoDirectory, ReadSeen, StatLock, RecheckOwner, RemoveLock, Wait, ReadOwnOwner, Unlock, HandleBusy,
     EndAction, LockTypeOK, Goto, Up
<1>4. claim[p] \in Inside => at'[p] = at[p]
  BY DEF LockOnly, Start, WithDirectoryLock, CallStep, MakeDirectory, WriteOwner, WriteOwnerFails,
     UndoDirectory, ReadSeen, StatLock, RecheckOwner, RemoveLock, Wait, ReadOwnOwner, Unlock, HandleBusy,
     EndAction, At, Inside, Placed
<1>5. claim[p] = "release" \/ (claim[p] = "none" /\ p \in owner) => at'[p] = at[p]
  BY DEF LockOnly, Start, WithDirectoryLock, CallStep, MakeDirectory, WriteOwner, WriteOwnerFails,
     UndoDirectory, ReadSeen, StatLock, RecheckOwner, RemoveLock, Wait, ReadOwnOwner, Unlock, HandleBusy,
     EndAction, At, Placed
<1>6. Placed' /\ Recorded'
  BY <1>1, <1>3, <1>4, <1>5 DEF Placed, Recorded, ownerVars
<1>7. \A q \in Proc : life[q] # "new" => life'[q] = life[q]
  BY DEF LockOnly, Start, WithDirectoryLock, CallStep, MakeDirectory, WriteOwner, WriteOwnerFails,
     UndoDirectory, ReadSeen, StatLock, RecheckOwner, RemoveLock, Wait, ReadOwnOwner, Unlock, HandleBusy,
     EndAction, LockTypeOK
<1>8. Judged'
  BY <1>1, <1>7 DEF Judged, ownerVars, Record
<1> QED BY <1>2, <1>6, <1>8

\* Time; a record in use is not half written for long.
LEMMA TimeGuarded ==
  ASSUME TypeOK, Guarded, Ages \/ RecordAges
  PROVE  Guarded'
<1> USE DEF TypeOK, Guarded
<1>1. CASE Ages
  <2>1. Sound'
    BY <1>1, LockSound DEF Ages
  <2>2. UNCHANGED <<life, at, record, claim, owner>>
    BY <1>1 DEF Ages, LockAges, ownerVars
  <2> QED BY <2>1, <2>2 DEF Placed, Recorded, Judged, Up
<1>2. CASE RecordAges
  <2>1. UNCHANGED <<lockVars, claim, owner>>
    BY <1>2 DEF RecordAges
  <2>2. Sound'
    BY <2>1 DEF lockVars, Sound, Resting, Held, Stale, NobodyReclaims, Up
  <2>3. record # NoRecord /\ record' # NoRecord /\ record'.by = record.by /\ record'.whole = record.whole
    BY <1>2, NoRecordAssumption DEF RecordAges, Record
  <2> QED BY <2>1, <2>2, <2>3 DEF lockVars, Placed, Recorded, Judged, Up
<1> QED BY <1>1, <1>2

\* An owner that dies leaves its record behind.
LEMMA DieGuarded ==
  ASSUME TypeOK, Guarded, NEW p \in Proc, Die(p), at[p] = "idle"
  PROVE  Guarded'
<1> USE DEF TypeOK, Guarded
<1>1. Sound'
  BY LockSound DEF Die
<1>2. /\ Up(p) /\ ~Up(p)' /\ life'[p] = "dead"
      /\ \A q \in Proc : q # p => life'[q] = life[q]
      /\ at' = at /\ record' = record
      /\ owner' = owner \ {p} /\ claim' = [claim EXCEPT ![p] = "none"]
  BY DEF Die, Crash, Goto, LockTypeOK, Up
<1>3. claim[p] \notin Inside
  BY DEF Placed
<1>4. Placed'
  BY <1>2 DEF Placed, Up, Inside
<1>5. Recorded'
  BY <1>2 DEF Recorded
<1>6. Judged'
  BY <1>2, <1>3 DEF Judged, Inside, Up, Record
<1> QED BY <1>1, <1>4, <1>5, <1>6

\* Only the holder of the lock is in a claim.
LEMMA OneClaim ==
  ASSUME Guarded, NEW p \in Proc, NEW q \in Proc, at[p] = "action", claim[q] \in Inside
  PROVE  q = p
BY DEF Guarded, Sound, Held, Placed, Holding, Owning

\* The claim, and the release.
LEMMA ClaimGuarded ==
  ASSUME TypeOK, Guarded, NEW p \in Proc, ClaimStep(p) \/ ReleaseOwner(p)
  PROVE  Guarded'
<1> USE DEF TypeOK, Guarded
<1>1. /\ UNCHANGED lockVars /\ Up(p)
      /\ \A q \in Proc : q # p => claim'[q] = claim[q] /\ (q \in owner' <=> q \in owner)
  BY DEF ClaimStep, CheckExists, ReadOwner, CheckGrace, RemoveRecord, CreateRecord, FillRecord, Settle,
     RemoveOwnRecord, ReleaseOwner, Claiming, Step, At
<1>2. Sound' /\ \A q \in Proc : (Up(q)' <=> Up(q)) /\ at'[q] = at[q] /\ life'[q] = life[q]
  BY <1>1 DEF lockVars, Sound, Resting, Held, Stale, NobodyReclaims, Up
<1>3. CASE CheckExists(p)
  <2>1. /\ at[p] = "action" /\ claim[p] = "none" /\ UNCHANGED <<record, owner>>
        /\ claim'[p] = IF record = NoRecord THEN "write" ELSE "read"
    BY <1>3 DEF CheckExists, Step, At
  <2> QED BY <1>1, <1>2, <2>1 DEF Placed, Recorded, Judged, Inside, Record
<1>4. CASE ReadOwner(p)
  <2>1. /\ claim[p] = "read" /\ UNCHANGED <<record, owner>>
        /\ claim'[p] = IF record = NoRecord THEN "failed"
                       ELSE IF ~record.whole THEN "grace"
                       ELSE IF OwnerAlive THEN "failed" ELSE "remove"
    BY <1>4 DEF ReadOwner, Step, Claiming
  <2>2. at[p] = "action"
    BY <2>1 DEF Placed, Inside
  <2>3. record # NoRecord /\ ~record.whole => FALSE
    BY <2>1, <2>2, OneClaim DEF Judged, Inside, Record
  <2>4. record # NoRecord /\ ~OwnerAlive => life[record.by] = "dead"
    BY DEF OwnerAlive, Judged, Up, LockTypeOK, Record
  <2>5. claim'[p] \in {"failed", "remove"} /\ (claim'[p] = "remove" => record # NoRecord /\ ~OwnerAlive)
    BY <2>1, <2>3
  <2> QED BY <1>1, <1>2, <2>1, <2>2, <2>4, <2>5 DEF Placed, Recorded, Judged, Inside, Record
<1>5. CASE RemoveRecord(p)
  <2>1. /\ claim[p] = "remove" /\ at[p] = "action" /\ record' = NoRecord /\ owner' = owner
        /\ claim'[p] = "write"
    BY <1>5 DEF RemoveRecord, Claiming, Step, Placed, Inside
  <2>2. ASSUME NEW q \in Proc PROVE q \notin owner /\ claim[q] # "release"
    BY <2>1 DEF Judged, Recorded, Placed, Up
  <2>3. ASSUME NEW q \in Proc, claim[q] \in Inside PROVE q = p
    BY <2>1, <2>3, OneClaim
  <2>4. Placed' /\ Recorded'
    BY <1>1, <1>2, <2>1, <2>2, <2>3 DEF Placed, Recorded, Inside
  <2>5. Judged'
    BY <1>1, <2>1, <2>3 DEF Judged, Inside
  <2> QED BY <1>2, <2>4, <2>5
<1>6. CASE CreateRecord(p)
  <2>1. /\ claim[p] = "write" /\ at[p] = "action" /\ record = NoRecord /\ owner' = owner
        /\ record' = [by |-> p, whole |-> FALSE, young |-> TRUE] /\ claim'[p] = "fill"
    <3>1. claim[p] = "write" /\ at[p] = "action" /\ record = NoRecord
      BY <1>6 DEF CreateRecord, Claiming, Placed, Inside, Judged
    <3>2. Step(p, "fill") /\ record' = [by |-> p, whole |-> FALSE, young |-> TRUE] /\ owner' = owner
      BY <1>6, <3>1, Zenon DEF CreateRecord
    <3> QED BY <3>1, <3>2, Zenon DEF Step
  <2>2. record' # NoRecord /\ record'.by = p /\ ~record'.whole
    <3>1. [by |-> p, whole |-> FALSE, young |-> TRUE] \in Record
      BY DEF Record
    <3>2. record' # NoRecord
      BY <2>1, <3>1, NoRecordAssumption
    <3>3. record'.by = p /\ record'.whole = FALSE
      BY <2>1
    <3> QED BY <3>2, <3>3
  <2>3. ASSUME NEW q \in Proc PROVE q \notin owner /\ claim[q] # "release"
    BY <2>1 DEF Recorded
  <2>4. ASSUME NEW q \in Proc, claim[q] \in Inside PROVE q = p
    BY <2>1, <2>4, OneClaim
  <2>5. Placed' /\ Recorded'
    BY <1>1, <1>2, <2>1, <2>2, <2>3, <2>4 DEF Placed, Recorded, Inside
  <2>6. Judged'
    BY <1>1, <1>2, <2>1, <2>2, <2>4 DEF Judged, Inside, Up
  <2> QED BY <1>2, <2>5, <2>6
<1>7. CASE FillRecord(p)
  <2>1. /\ claim[p] = "fill" /\ at[p] = "action" /\ record # NoRecord /\ record.by = p
        /\ record' = [record EXCEPT !.whole = TRUE]
        /\ owner' = owner \cup {p} /\ claim'[p] = "claimed"
    BY <1>7 DEF FillRecord, Claiming, Step, Placed, Inside, Recorded
  <2>2. record' # NoRecord /\ record'.by = p /\ record'.whole
    BY <2>1, NoRecordAssumption DEF Record
  <2>3. ASSUME NEW q \in Proc, claim[q] \in Inside \/ q \in owner \/ claim[q] = "release" PROVE q = p
    BY <2>1, <2>3, OneClaim DEF Recorded
  <2>4. Placed' /\ Recorded'
    BY <1>1, <1>2, <2>1, <2>2, <2>3 DEF Placed, Recorded, Inside
  <2>5. Judged'
    BY <1>1, <1>2, <2>1, <2>2, <2>3 DEF Judged, Inside, Up
  <2> QED BY <1>2, <2>4, <2>5
<1>8. CASE Settle(p)
  <2>1. /\ claim[p] \in {"failed", "claimed"} /\ at[p] = "idle" /\ UNCHANGED <<record, owner>>
        /\ claim'[p] = "none"
    BY <1>8 DEF Settle, Claiming, Step
  <2> QED BY <1>1, <1>2, <2>1 DEF Placed, Recorded, Judged, Inside, Record
<1>9. CASE ReleaseOwner(p)
  <2>1. /\ p \in owner /\ claim[p] = "none" /\ at[p] = "idle" /\ record' = record
        /\ owner' = owner \ {p} /\ claim'[p] = "release"
    BY <1>9 DEF ReleaseOwner, Claiming, Step, Recorded, Placed
  <2> QED BY <1>1, <1>2, <2>1 DEF Placed, Recorded, Judged, Inside, Record
<1>10. CASE RemoveOwnRecord(p)
  <2>1. /\ claim[p] = "release" /\ record # NoRecord /\ record.by = p /\ record.whole
        /\ record' = NoRecord /\ owner' = owner /\ claim'[p] = "none"
        /\ p \notin owner /\ Up(p)
    BY <1>10 DEF RemoveOwnRecord, Claiming, Step, Recorded
  <2>2. ASSUME NEW q \in Proc, q \in owner \/ claim[q] \in {"release", "fill", "remove"} PROVE q = p
    BY <2>1, <2>2 DEF Recorded, Judged, Up
  <2>3. Placed' /\ Recorded'
    BY <1>1, <1>2, <2>1, <2>2 DEF Placed, Recorded, Inside
  <2>4. Judged'
    BY <1>1, <1>2, <2>1, <2>2 DEF Judged
  <2> QED BY <1>2, <2>3, <2>4
<1>11. ~CheckGrace(p)
  BY DEF Judged, CheckGrace, Claiming
<1> QED BY <1>3, <1>4, <1>5, <1>6, <1>7, <1>8, <1>9, <1>10, <1>11 DEF ClaimStep
-----------------------------------------------------------------------------
LEMMA OwnerInvStep == OwnerInv /\ [Next]_vars => OwnerInv'
<1> SUFFICES ASSUME OwnerInv, [Next]_vars, NoneCareless' PROVE TypeOK' /\ Guarded'
  BY OwnerTypeStep DEF OwnerInv
<1>1. TypeOK /\ TypeOK'
  BY OwnerTypeStep DEF OwnerInv
<1>2. ASSUME NEW q \in Proc, life[q] = "dead" PROVE life'[q] = "dead"
  BY <1>1, <1>2
     DEF TypeOK, LockTypeOK, Next, vars, lockVars, Ages, LockAges, RecordAges, LockOnly, Die, Crash,
     Start, WithDirectoryLock, CallStep, MakeDirectory, WriteOwner, WriteOwnerFails, UndoDirectory,
     ReadSeen, StatLock, RecheckOwner, RemoveLock, Wait, ReadOwnOwner, Unlock, HandleBusy, EndAction,
     ClaimStep, CheckExists, ReadOwner, CheckGrace, RemoveRecord, CreateRecord, FillRecord, Settle,
     RemoveOwnRecord, ReleaseOwner
<1>3. Guarded
  BY <1>1, <1>2, CarelessAssumption, ProcAssumption DEF OwnerInv, NoneCareless
<1>4. CASE UNCHANGED vars
  <2>1. Sound'
    BY <1>3, <1>4 DEF vars, lockVars, Guarded, Sound, Resting, Held, Stale, NobodyReclaims, Up
  <2> QED BY <1>1, <1>3, <1>4, <2>1
          DEF vars, lockVars, ownerVars, Guarded, Placed, Recorded, Judged, Up
<1>5. CASE Ages \/ RecordAges
  BY <1>1, <1>3, <1>5, TimeGuarded
<1>6. ASSUME NEW p \in Proc, LockOnly(p) \/ ClaimStep(p) \/ ReleaseOwner(p) PROVE Guarded'
  BY <1>1, <1>3, <1>6, LockOnlyGuarded, ClaimGuarded
<1>7. ASSUME NEW p \in Proc, Die(p) PROVE Guarded'
  <2>1. p \notin Careless
    BY <1>1, <1>7 DEF Die, Crash, NoneCareless, TypeOK, LockTypeOK
  <2> QED BY <1>1, <1>3, <1>7, <2>1, DieGuarded DEF Die
<1> QED BY <1>1, <1>4, <1>5, <1>6, <1>7 DEF Next

LEMMA OwnerSpecInv == Spec => []OwnerInv
BY OwnerInitInv, OwnerInvStep, PTL DEF Spec

\* acquireRuntimeOwner: the lock, the record and every claim keep their types.
THEOREM OwnerTypeCorrect == Spec => []TypeOK
<1>1. OwnerInv => TypeOK
  BY DEF OwnerInv
<1> QED BY <1>1, OwnerSpecInv, PTL

\* "A live owner with a matching process-start key cannot be replaced": until a process
\* dies in the middle of a claim, the record in place is whole and names every owner,
\* however pids are reused, owners crash and claims come after one another.
THEOREM OneOwner == Spec => []SingleOwner
<1>1. OwnerInv => SingleOwner
  BY DEF OwnerInv, SingleOwner, TypeOK, Guarded, Recorded
<1> QED BY <1>1, OwnerSpecInv, PTL
=============================================================================
