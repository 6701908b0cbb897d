------------------------- MODULE ReclaimLockProofs -------------------------
(***************************************************************************)
(* The reclaim lock guards its critical section for every set of process   *)
(* incarnations and every way pids are reused.                             *)
(***************************************************************************)
EXTENDS ReclaimLock, TLAPS

(***************************************************************************)
(* Type correctness.                                                       *)
(***************************************************************************)
LEMMA OwnRecord ==
  ASSUME NEW p \in Proc, NEW k \in {p, NoKey}
  PROVE  [by |-> p, pid |-> Pid[p], key |-> k] \in OwnerRecord
BY DEF OwnerRecord

\* The initial state is type correct.
LEMMA TypeInit == Init => TypeOK
BY DEF Init, TypeOK, Labels

\* Every step of a process, in acquire or in release, preserves types.
LEMMA StepType ==
  ASSUME TypeOK, NEW p \in Proc, Step(p)
  PROVE  TypeOK'
<1> USE DEF TypeOK, Finish, Goto, Occupied, Labels, locals
<1>1. CASE CreateUnidentified(p)
  BY <1>1 DEF CreateUnidentified
<1>2. CASE CreateTemporary(p)
  <2> DEFINE k == IF require[p] \/ keyRead[p] THEN p ELSE NoKey
  <2>1. k \in {p, NoKey}
    OBVIOUS
  <2>2. [by |-> p, pid |-> Pid[p], key |-> k] \in OwnerRecord
    BY <2>1, OwnRecord
  <2>3. keyRead' \in [Proc -> BOOLEAN]
    BY <1>2 DEF CreateTemporary, NewRecord
  <2> QED BY <1>2, <2>2, <2>3 DEF CreateTemporary, NewRecord
<1>3. CASE StatLock(p)
  BY <1>3 DEF StatLock
<1>4. CASE RenameIntoPlace(p)
  BY <1>4 DEF RenameIntoPlace, Vacant, Directory
<1>5. CASE RenameRefused(p)
  BY <1>5 DEF RenameRefused, Vacant
<1>6. CASE RestatLock(p)
  BY <1>6 DEF RestatLock
<1>7. CASE CheckAge(p)
  BY <1>7 DEF CheckAge
<1>8. CASE ReadReclaimOwner(p)
  BY <1>8 DEF ReadReclaimOwner, OwnerFile, Directory
<1>9. ASSUME NEW keyVisible \in BOOLEAN, NEW ownKey \in BOOLEAN,
             JudgeOwner(p, keyVisible, ownKey)
      PROVE  TypeOK'
  BY <1>9 DEF JudgeOwner
<1>10. CASE RecheckOwner(p)
  BY <1>10 DEF RecheckOwner, SameOwner
<1>11. CASE Quarantine(p)
  BY <1>11 DEF Quarantine, SetAside, Directory
<1>12. CASE QuarantineRefused(p)
  BY <1>12 DEF QuarantineRefused
<1>13. CASE ReadOwnOwner(p)
  BY <1>13 DEF ReadOwnOwner
<1>14. CASE UnlinkOwner(p)
  BY <1>14 DEF UnlinkOwner, Directory
<1>15. CASE RemoveDirectory(p)
  BY <1>15 DEF RemoveDirectory
<1>16. CASE RemovalFails(p)
  BY <1>16 DEF RemovalFails
<1> QED
  BY <1>1, <1>2, <1>3, <1>4, <1>5, <1>6, <1>7, <1>8, <1>9, <1>10, <1>11, <1>12,
     <1>13, <1>14, <1>15, <1>16 DEF Step

\* Every action preserves types.
LEMMA TypeNext ==
  ASSUME TypeOK, Next
  PROVE  TypeOK'
<1> USE DEF TypeOK, Finish, Goto, Labels, locals
<1>1. ASSUME NEW p \in Proc, Start(p) PROVE TypeOK'
  BY <1>1 DEF Start
<1>2. ASSUME NEW p \in Proc, Crash(p) PROVE TypeOK'
  BY <1>2 DEF Crash
<1>3. ASSUME NEW p \in Proc, NEW required \in BOOLEAN, TakeReclaimLock(p, required)
      PROVE  TypeOK'
  BY <1>3 DEF TakeReclaimLock
<1>4. ASSUME NEW p \in Proc, Step(p) PROVE TypeOK'
  BY <1>4, StepType
<1>5. CASE LockAges
  BY <1>5 DEF LockAges, Directory
<1> QED BY <1>1, <1>2, <1>3, <1>4, <1>5 DEF Next

\* Every reachable state is type correct.
THEOREM TypeCorrect == Spec => []TypeOK
<1>1. TypeOK /\ UNCHANGED vars => TypeOK'
  BY DEF TypeOK, vars, locals
<1>2. TypeOK /\ [Next]_vars => TypeOK'
  BY <1>1, TypeNext
<1> QED BY TypeInit, <1>2, PTL DEF Spec

(***************************************************************************)
(* The inductive invariant.  A record on disk or in a local was written by *)
(* a process that has started, so once its pid is free or runs another     *)
(* process its writer is dead for good; only the writer removes a record   *)
(* by deletion, so a record judged gone is either still in the lock or     *)
(* already in its own tombstone.                                           *)
(***************************************************************************)
Writing == {"stat", "rename", "restat", "critical", "unlinkOwner"}

\* Only a running process is in the middle of a call.
IdleWhenDown == \A p \in Proc : at[p] # "idle" => Up(p)

\* A pid runs one process at a time.
OnePerPid == \A p, q \in Proc : Up(p) /\ Up(q) /\ Pid[p] = Pid[q] => p = q

\* The record a process carries is its own.
OwnToken == \A p \in Proc : at[p] \in Writing => token[p] # NoOwner /\ token[p].by = p

\* Whoever wrote a record that exists anywhere has started.
WriterStarted ==
  /\ OwnerFile # NoOwner => life[OwnerFile.by] # "new"
  /\ \A p \in Proc : at[p] = "judge" => seen[p] # NoOwner /\ life[seen[p].by] # "new"

\* A process that entered the critical section and has not begun to remove
\* the lock finds its record there.
Holding == \A p \in Proc : at[p] \in {"critical", "unlinkOwner"} => OwnerFile = token[p]

\* The record a contender judged gone was written by a dead process,
JudgedDead ==
  \A p \in Proc : at[p] \in {"recheck", "quarantine"} =>
    seen[p] # NoOwner /\ life[seen[p].by] = "dead"

\* and, once checked again, it is in the lock or in its tombstone.
SeenAccounted ==
  \A p \in Proc : at[p] = "quarantine" => OwnerFile = seen[p] \/ Populated(seen[p])

IInv ==
  /\ TypeOK
  /\ IdleWhenDown
  /\ OnePerPid
  /\ OwnToken
  /\ WriterStarted
  /\ Holding
  /\ JudgedDead
  /\ SeenAccounted
  /\ TombstonesExact

\* The invariant holds before anyone has started.
LEMMA InvInit == Init => IInv
BY TypeInit DEF Init, IInv, IdleWhenDown, OnePerPid, OwnToken, WriterStarted, Holding,
                JudgedDead, SeenAccounted, TombstonesExact, OwnerFile, Up, Writing

\* A free pid, or a start key that is not that of the process running under
\* the pid, proves the writer of a record dead.
LEMMA GoneIsDead ==
  ASSUME TypeOK, OnePerPid, NEW r \in OwnerRecord, life[r.by] # "new",
         PidGone(r) \/ PidReused(r)
  PROVE  life[r.by] = "dead"
<1>1. r.by \in Proc /\ r.pid = Pid[r.by] /\ (r.key # NoKey => r.key = r.by)
  BY DEF OwnerRecord
<1>2. ~Up(r.by)
  BY <1>1 DEF PidGone, PidReused, ProcessAlive, OnePerPid
<1> QED BY <1>1, <1>2 DEF TypeOK, Up

\* Every step of a process preserves the invariant.
LEMMA StepInv ==
  ASSUME IInv, NEW p \in Proc, Step(p)
  PROVE  IInv'
<1>0. TypeOK /\ TypeOK'
  BY StepType DEF IInv
<1> USE <1>0 DEF TypeOK, IInv, IdleWhenDown, OnePerPid, OwnToken, WriterStarted, Holding,
                 JudgedDead, SeenAccounted, TombstonesExact, OwnerFile, Writing,
                 Finish, Goto, At, Up, Occupied, locals, Populated
<1>1. CASE CreateUnidentified(p)
  BY <1>1 DEF CreateUnidentified
<1>2. CASE CreateTemporary(p)
  <2> DEFINE r == [by |-> p, pid |-> Pid[p],
                   key |-> IF require[p] \/ keyRead[p] THEN p ELSE NoKey]
  <2>1. r \in OwnerRecord /\ r.by = p
    BY OwnRecord
  <2>2. token' = [token EXCEPT ![p] = r] /\ at' = [at EXCEPT ![p] = "stat"]
    BY <1>2 DEF CreateTemporary, NewRecord
  <2> HIDE DEF r
  <2>3. OwnToken'
    BY <2>1, <2>2, NoOwnerAssumption
  <2>4. Holding'
    BY <1>2, <2>2 DEF CreateTemporary, NewRecord
  <2>5. IdleWhenDown' /\ OnePerPid' /\ WriterStarted' /\ JudgedDead' /\ SeenAccounted'
        /\ TombstonesExact'
    BY <1>2, <2>2 DEF CreateTemporary, NewRecord
  <2> QED BY <2>3, <2>4, <2>5
<1>3. CASE StatLock(p)
  BY <1>3 DEF StatLock
<1>4. CASE RenameIntoPlace(p)
  <2>1. /\ at[p] = "rename" /\ Up(p) /\ token[p] # NoOwner /\ token[p].by = p
        /\ at' = [at EXCEPT ![p] = "critical"]
        /\ UNCHANGED <<life, retired, keyRead, require, again, token, seen>>
    BY <1>4 DEF RenameIntoPlace, Vacant
  <2>2. lock' # NoLock /\ lock'.owner = token[p]
    <3>1. PICK old \in BOOLEAN : lock' = [owner |-> token[p], old |-> old]
      BY <1>4 DEF RenameIntoPlace, Vacant
    <3>2. lock' \in Directory
      BY <3>1 DEF Directory
    <3> QED BY <3>1, <3>2, NoLockAssumption
  <2>3. OwnerFile = NoOwner /\ OwnerFile' = token[p]
    BY <1>4, <2>2 DEF RenameIntoPlace, Vacant
  <2> HIDE DEF OwnerFile
  <2>4. Holding'
    BY <2>1, <2>3
  <2>5. WriterStarted'
    BY <2>1, <2>3
  <2>6. SeenAccounted'
    BY <2>1, <2>3
  <2> QED BY <2>1, <2>4, <2>5, <2>6
<1>5. CASE RenameRefused(p)
  BY <1>5 DEF RenameRefused, Vacant
<1>6. CASE RestatLock(p)
  BY <1>6 DEF RestatLock
<1>7. CASE CheckAge(p)
  BY <1>7 DEF CheckAge
<1>8. CASE ReadReclaimOwner(p)
  BY <1>8 DEF ReadReclaimOwner
<1>9. ASSUME NEW keyVisible \in BOOLEAN, NEW ownKey \in BOOLEAN,
             JudgeOwner(p, keyVisible, ownKey)
      PROVE  IInv'
  BY <1>9, GoneIsDead DEF JudgeOwner
<1>10. CASE RecheckOwner(p)
  BY <1>10 DEF RecheckOwner, SameOwner
<1>11. CASE Quarantine(p)
  <2>1. /\ at[p] = "quarantine" /\ seen[p] # NoOwner /\ life[seen[p].by] = "dead"
        /\ at' = [at EXCEPT ![p] = "create"]
        /\ seen' = [seen EXCEPT ![p] = NoOwner]
        /\ UNCHANGED <<life, token>>
    BY <1>11 DEF Quarantine, SetAside
  <2>2. lock # NoLock /\ lock.owner = seen[p] /\ lock' = NoLock
    BY <1>11, <2>1 DEF Quarantine, SetAside
  <2> DEFINE t == [name |-> seen[p], content |-> seen[p]]
  <2>3. retired' = {u \in retired : u.name # seen[p]} \cup {t}
    BY <1>11, <2>2 DEF Quarantine, SetAside
  <2>4. TombstonesExact'
    BY <2>1, <2>3
  <2>5. Holding'
    BY <2>1, <2>2
  <2>6. SeenAccounted'
    <3> SUFFICES ASSUME NEW q \in Proc, at'[q] = "quarantine"
                 PROVE  Populated(seen[q])'
      BY DEF SeenAccounted
    <3>1. q # p /\ at[q] = "quarantine" /\ seen'[q] = seen[q] /\ seen[q] # NoOwner
      BY <2>1
    <3>2. CASE seen[q] = seen[p]
      <4>1. t \in retired' /\ t.name = seen'[q] /\ t.content # NoOwner
        BY <2>1, <2>3, <3>1, <3>2
      <4> QED BY <4>1
    <3>3. CASE seen[q] # seen[p]
      <4>1. Populated(seen[q])
        BY <2>2, <3>1, <3>3
      <4> QED BY <2>3, <3>1, <3>3, <4>1
    <3> QED BY <3>2, <3>3
  <2>7. IdleWhenDown' /\ OnePerPid' /\ OwnToken' /\ WriterStarted' /\ JudgedDead'
    BY <2>1, <2>2
  <2> QED BY <2>4, <2>5, <2>6, <2>7
<1>12. CASE QuarantineRefused(p)
  BY <1>12 DEF QuarantineRefused
<1>13. CASE ReadOwnOwner(p)
  BY <1>13 DEF ReadOwnOwner
<1>14. CASE UnlinkOwner(p)
  BY <1>14 DEF UnlinkOwner
<1>15. CASE RemoveDirectory(p)
  BY <1>15 DEF RemoveDirectory
<1>16. CASE RemovalFails(p)
  BY <1>16 DEF RemovalFails
<1> QED
  BY <1>1, <1>2, <1>3, <1>4, <1>5, <1>6, <1>7, <1>8, <1>9, <1>10, <1>11, <1>12,
     <1>13, <1>14, <1>15, <1>16 DEF Step

\* Every action preserves the invariant, a death and a restart included.
LEMMA InvNext ==
  ASSUME IInv, [Next]_vars
  PROVE  IInv'
<1> USE DEF IInv, IdleWhenDown, OnePerPid, OwnToken, WriterStarted, Holding, JudgedDead,
            SeenAccounted, TombstonesExact, OwnerFile, Writing, Finish, Goto, At, Up, locals,
            Populated
<1>0. TypeOK'
  <2>1. CASE Next
    BY <2>1, TypeNext
  <2>2. CASE UNCHANGED vars
    BY <2>2 DEF TypeOK, vars
  <2> QED BY <2>1, <2>2
<1>1. ASSUME NEW p \in Proc, Start(p) PROVE IInv'
  BY <1>0, <1>1 DEF Start, ProcessAlive, TypeOK
<1>2. ASSUME NEW p \in Proc, Crash(p) PROVE IInv'
  BY <1>0, <1>2 DEF Crash, TypeOK
<1>3. ASSUME NEW p \in Proc, NEW required \in BOOLEAN, TakeReclaimLock(p, required)
      PROVE  IInv'
  BY <1>0, <1>3 DEF TakeReclaimLock, TypeOK
<1>4. ASSUME NEW p \in Proc, Step(p) PROVE IInv'
  BY <1>4, StepInv
<1>5. CASE LockAges
  <2>1. lock' # NoLock /\ lock # NoLock /\ lock'.owner = lock.owner
    <3>1. lock \in Directory /\ lock' = [lock EXCEPT !.old = TRUE]
      BY <1>5 DEF LockAges, TypeOK
    <3>2. lock' \in Directory /\ lock'.owner = lock.owner
      BY <3>1 DEF Directory
    <3> QED BY <1>5, <3>2, NoLockAssumption DEF LockAges
  <2>2. UNCHANGED <<life, retired, keyRead, at, require, again, token, seen>>
    BY <1>5 DEF LockAges
  <2> QED BY <1>0, <2>1, <2>2
<1>6. CASE UNCHANGED vars
  BY <1>0, <1>6 DEF vars
<1> QED BY <1>1, <1>2, <1>3, <1>4, <1>5, <1>6 DEF Next

\* The invariant holds in every reachable state.
LEMMA Invariance == Spec => []IInv
BY InvInit, InvNext, PTL DEF Spec

\* At most one running process is in the critical section, for every set of
\* processes, every assignment of pids and every pattern of crashes.
THEOREM Mutex == Spec => []MutualExclusion
<1>1. IInv => MutualExclusion
  BY DEF IInv, OwnToken, Holding, MutualExclusion, At, Writing
<1> QED BY <1>1, Invariance, PTL

\* A tombstone holds exactly the dead owner's record it is named after.
THEOREM Exact == Spec => []QuarantineExact
<1>1. IInv => QuarantineExact
  BY DEF IInv, QuarantineExact
<1> QED BY <1>1, Invariance, PTL

\* Nobody takes the lock from under a process in its critical section.
THEOREM HolderKeeps == Spec => []HolderKeepsLock
<1>1. IInv => HolderKeepsLock
  BY DEF IInv, Holding, HolderKeepsLock, At
<1> QED BY <1>1, Invariance, PTL
-----------------------------------------------------------------------------
(***************************************************************************)
(* Refinement: the steps that matter to ExclusiveSection are the rename    *)
(* that enters the critical section, the read that leaves it, and a crash; *)
(* every other step stutters.                                              *)
(***************************************************************************)
Inside == {p \in Proc : At(p, "critical")}
Gone == {p \in Proc : life[p] = "dead"}

\* A rename into place succeeds only while nobody is in the critical section.
LEMMA RenameFindsNobody ==
  ASSUME IInv, NEW p \in Proc, RenameIntoPlace(p)
  PROVE  Inside = {}
<1> SUFFICES ASSUME NEW q \in Proc, At(q, "critical") PROVE FALSE
  BY DEF Inside
<1>1. OwnerFile = token[q] /\ token[q] # NoOwner
  BY DEF IInv, Holding, OwnToken, At, Writing
<1> QED BY <1>1 DEF RenameIntoPlace, Vacant, OwnerFile

\* A step of a process enters or leaves the abstract section, or stutters in it.
LEMMA StepRefines ==
  ASSUME IInv, NEW p \in Proc, Step(p)
  PROVE  Section!Next \/ UNCHANGED Section!vars
<1> USE DEF IInv, TypeOK
<1>1. life' = life /\ Gone' = Gone
  BY DEF Step, CreateUnidentified, CreateTemporary, StatLock, RenameIntoPlace, RenameRefused,
         RestatLock, CheckAge, ReadReclaimOwner, JudgeOwner, RecheckOwner, Quarantine,
         QuarantineRefused, ReadOwnOwner, UnlinkOwner, RemoveDirectory, RemovalFails, Gone
<1>2. CASE RenameIntoPlace(p)
  <2>1. Inside = {} /\ Inside' = {p} /\ p \notin Gone
    BY <1>1, <1>2, RenameFindsNobody DEF RenameIntoPlace, Inside, Goto, At, Up, Gone
  <2> QED BY <1>1, <2>1 DEF Section!Next, Section!Enter, Inside, Gone
<1>3. CASE ReadOwnOwner(p)
  <2>1. p \in Inside /\ Inside' = Inside \ {p}
    BY <1>1, <1>3 DEF ReadOwnOwner, Inside, Goto, Finish, At, Up
  <2> QED BY <1>1, <2>1 DEF Section!Next, Section!Leave, Inside, Gone
<1>4. CASE ~RenameIntoPlace(p) /\ ~ReadOwnOwner(p)
  <2>1. at[p] # "critical" /\ at'[p] # "critical" /\ \A q \in Proc \ {p} : at'[q] = at[q]
    BY <1>4 DEF Step, CreateUnidentified, CreateTemporary, StatLock, RenameRefused,
         RestatLock, CheckAge, ReadReclaimOwner, JudgeOwner, RecheckOwner, Quarantine,
         QuarantineRefused, UnlinkOwner, RemoveDirectory, RemovalFails, Finish, Goto, Occupied, At
  <2>2. Inside' = Inside
    BY <1>1, <2>1 DEF Inside, At, Up
  <2> QED BY <1>1, <2>2 DEF Section!vars, Inside, Gone
<1> QED BY <1>2, <1>3, <1>4

\* Every action is an abstract step or a stutter.
LEMMA NextRefines ==
  ASSUME IInv, [Next]_vars
  PROVE  [Section!Next]_(Section!vars)
<1> USE DEF IInv, TypeOK
<1>1. ASSUME NEW p \in Proc, Start(p) PROVE UNCHANGED Section!vars
  <2>1. at[p] # "critical" /\ at' = at
    BY <1>1 DEF Start, IdleWhenDown, Up
  <2>2. Inside' = Inside /\ Gone' = Gone
    BY <1>1, <2>1 DEF Start, Inside, Gone, At, Up
  <2> QED BY <2>2 DEF Section!vars, Inside, Gone
<1>2. ASSUME NEW p \in Proc, Crash(p) PROVE Section!Next
  <2>1. p \notin Gone /\ Gone' = Gone \cup {p} /\ Inside' = Inside \ {p}
    BY <1>2 DEF Crash, Finish, Inside, Gone, At, Up
  <2> QED BY <2>1 DEF Section!Next, Section!Die, Inside, Gone
<1>3. ASSUME NEW p \in Proc, NEW required \in BOOLEAN, TakeReclaimLock(p, required)
      PROVE  UNCHANGED Section!vars
  <2>1. Inside' = Inside /\ Gone' = Gone
    BY <1>3 DEF TakeReclaimLock, Inside, Gone, At, Up
  <2> QED BY <2>1 DEF Section!vars, Inside, Gone
<1>4. CASE LockAges \/ UNCHANGED vars
  BY <1>4 DEF LockAges, vars, Section!vars, At, Up
<1> QED BY <1>1, <1>2, <1>3, <1>4, StepRefines DEF Next

\* The reclaim lock implements an exclusive section: entered by one process at a time
\* and only while it is empty, left by the process inside or by its death.
THEOREM Implements == Spec => ImplementsSection
<1>1. Init => Section!Init
  BY DEF Init, Section!Init, At, Up
<1> QED BY <1>1, NextRefines, Invariance, PTL DEF Spec, ImplementsSection, Section!Spec
=============================================================================
