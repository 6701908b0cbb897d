---------------------------- MODULE RuntimeOwner ----------------------------
(***************************************************************************)
(* The single runtime owner of a data directory, acquireRuntimeOwner of    *)
(* backend/core/runtime-owner-lock.mjs: a process claims the owner record  *)
(* as the action of the directory lock, keeps it for its lifetime and      *)
(* removes it when it exits.                                               *)
(*                                                                         *)
(* A record names its process by pid, start key and token, so it stands    *)
(* for the incarnation that wrote it.  The start key of a running process  *)
(* can always be observed.                                                 *)
(***************************************************************************)
EXTENDS DirectoryLock

CONSTANTS
  Careless,  \* processes that may crash in the middle of a claim
  NoRecord   \* runtime-owner.json does not exist

ASSUME CarelessAssumption == Careless \subseteq Mortal

VARIABLES
  record, \* NoRecord, or the file: its writer, whether it is whole, and whether
          \* it is younger than INITIAL_OWNER_GRACE_MS
  claim,  \* the step of the claim under way
  owner   \* processes whose acquireRuntimeOwner has returned

ownerVars == <<record, claim, owner>>
vars == <<lockVars, ownerVars>>

Record == [by : Proc, whole : BOOLEAN, young : BOOLEAN]
ASSUME NoRecordAssumption == NoRecord \notin Record

Steps == {"none", "read", "grace", "remove", "write", "fill", "claimed", "failed", "release"}

Claiming(p, step) == Up(p) /\ claim[p] = step
Step(p, step) == claim' = [claim EXCEPT ![p] = step]

Init ==
  /\ LockInit
  /\ record = NoRecord
  /\ claim = [p \in Proc |-> "none"]
  /\ owner = {}

\* What the lock does to a process that has not entered its action, or has left it.
LockOnly(p) ==
  /\ \/ Start(p)
     \/ claim[p] = "none" /\ p \notin owner /\ WithDirectoryLock(p)
     \/ CallStep(p)
     \/ HandleBusy(p)
     \/ claim[p] \in {"claimed", "failed"} /\ EndAction(p)
  /\ UNCHANGED ownerVars

Ages == LockAges /\ UNCHANGED ownerVars

Die(p) ==
  /\ Crash(p)
  /\ p \in Careless \/ at[p] = "idle"
  /\ claim' = [claim EXCEPT ![p] = "none"]
  /\ owner' = owner \ {p}
  /\ UNCHANGED record

\* The grace period of a record that is not whole runs out; a running process
\* takes no time to speak of to fill its record, or from a read to the stat.
RecordAges ==
  /\ record # NoRecord
  /\ record.young
  /\ \A p \in Proc : ~Claiming(p, "fill") /\ ~Claiming(p, "grace")
  /\ record' = [record EXCEPT !.young = FALSE]
  /\ UNCHANGED <<lockVars, claim, owner>>

(***************************************************************************)
(* The claim, in the action of the lock.                                   *)
(***************************************************************************)
CheckExists(p) ==
  /\ At(p, "action")
  /\ claim[p] = "none"
  /\ Step(p, IF record = NoRecord THEN "write" ELSE "read")
  /\ UNCHANGED <<lockVars, record, owner>>

\* (mutants) A record is replaced whoever wrote it; the pid alone tells its writer.
OwnerAliveNever == FALSE
OwnerAliveByPid == PidAlive(record.by)

\* ownerAlive, and the age of a record that cannot be parsed.
OwnerAlive == Up(record.by)
InGrace == record.young

ReadOwner(p) ==
  /\ Claiming(p, "read")
  /\ Step(p, IF record = NoRecord THEN "failed"
             ELSE IF ~record.whole THEN "grace"
             ELSE IF OwnerAlive THEN "failed" ELSE "remove")
  /\ UNCHANGED <<lockVars, record, owner>>

CheckGrace(p) ==
  /\ Claiming(p, "grace")
  /\ Step(p, IF record # NoRecord /\ InGrace THEN "failed" ELSE "remove")
  /\ UNCHANGED <<lockVars, record, owner>>

RemoveRecord(p) ==
  /\ Claiming(p, "remove")
  /\ record' = NoRecord
  /\ Step(p, "write")
  /\ UNCHANGED <<lockVars, owner>>

\* Flag "wx": creating the record fails if there is one by now.
CreateRecord(p) ==
  /\ Claiming(p, "write")
  /\ IF record = NoRecord
     THEN record' = [by |-> p, whole |-> FALSE, young |-> TRUE] /\ Step(p, "fill")
     ELSE Step(p, "failed") /\ UNCHANGED record
  /\ UNCHANGED <<lockVars, owner>>

\* The text is written into the file created, which may have been removed by now.
FillRecord(p) ==
  /\ Claiming(p, "fill")
  /\ record' = IF record # NoRecord /\ record.by = p THEN [record EXCEPT !.whole = TRUE] ELSE record
  /\ owner' = owner \cup {p}
  /\ Step(p, "claimed")
  /\ UNCHANGED lockVars

\* A process whose claim failed may claim again; an owner goes on to run.
Settle(p) ==
  /\ Claiming(p, "failed") \/ Claiming(p, "claimed")
  /\ at[p] = "idle"
  /\ Step(p, "none")
  /\ UNCHANGED <<lockVars, record, owner>>

(***************************************************************************)
(* The release when the owner exits: read, compare, remove.                *)
(***************************************************************************)
ReleaseOwner(p) ==
  /\ p \in owner
  /\ Claiming(p, "none")
  /\ owner' = owner \ {p}
  /\ Step(p, IF record # NoRecord /\ record.whole /\ record.by = p THEN "release" ELSE "none")
  /\ UNCHANGED <<lockVars, record>>

RemoveOwnRecord(p) ==
  /\ Claiming(p, "release")
  /\ record' = NoRecord
  /\ Step(p, "none")
  /\ UNCHANGED <<lockVars, owner>>

ClaimStep(p) ==
  \/ CheckExists(p) \/ ReadOwner(p) \/ CheckGrace(p) \/ RemoveRecord(p)
  \/ CreateRecord(p) \/ FillRecord(p) \/ Settle(p) \/ RemoveOwnRecord(p)

Next ==
  \/ Ages \/ RecordAges
  \/ \E p \in Proc : LockOnly(p) \/ Die(p) \/ ClaimStep(p) \/ ReleaseOwner(p)

Spec == Init /\ [][Next]_vars

\* Time passes, a call runs on, and an immortal process claims until it owns.  Attempts
\* are milliseconds apart and a write is not: a process does not for ever find its new
\* directory removed by another one that failed in the same way.
OwnerFairness ==
  /\ SF_vars(Ages)
  /\ SF_vars(RecordAges)
  /\ \A p \in Proc : WF_vars(LockOnly(p)) /\ WF_vars(ClaimStep(p))
  /\ \A p \in Proc : SF_vars(WriteOwner(p) /\ UNCHANGED ownerVars)

FairSpec == Spec /\ OwnerFairness
-----------------------------------------------------------------------------
\* Types of the lock, the record and the claims.
TypeOK ==
  /\ LockTypeOK
  /\ record \in Record \cup {NoRecord}
  /\ claim \in [Proc -> Steps]
  /\ owner \subseteq Proc

\* A death in the middle of a claim leaves the lock to whoever judges it first: the
\* two promises below are made until then, OwnerReplaced whatever happens.
NoneCareless == \A p \in Careless : life[p] # "dead"

\* One runtime owner: "A live owner with a matching process-start key cannot be
\* replaced": the record in place is whole and names every owner, so there is one.
SingleOwner ==
  /\ TypeOK
  /\ NoneCareless => \A p \in owner : record # NoRecord /\ record.by = p /\ record.whole

\* A record left by a crash does not keep the data directory without an owner.
OwnerReplaced == <>(owner # {}) /\ [](owner = {} => <>(owner # {}))
=============================================================================
