----------------------------- MODULE TaskLease -----------------------------
(***************************************************************************)
(* The runtime lease of one task (backend/core/task-runtime-lease.mjs):    *)
(* a file that names the worker process executing the task.  Workers are   *)
(* separate processes sharing a data directory; within one the service is  *)
(* synchronous, so an operation interleaves with other processes' steps at *)
(* each file system call but never with another operation of its own       *)
(* process.  The leases of different tasks share no file; one is modelled. *)
(*                                                                         *)
(* The reclaim lock is the set "section" of workers inside it: the module  *)
(* ReclaimLock implements it (ExclusiveSection).                           *)
(*                                                                         *)
(* Time advances in ticks of HEARTBEAT_MS.  A process keeps the pace of    *)
(* its timers: no tick passes over a heartbeat that is due, nor in the     *)
(* middle of a synchronous operation, except at the steps in stallAt.      *)
(***************************************************************************)
EXTENDS Naturals

CONSTANTS
  Worker,       \* worker process incarnations
  Stale,        \* TASK_LEASE_STALE_MS, in ticks
  MaxFailures,  \* MAX_HEARTBEAT_FAILURES
  MaxAttempts,  \* MAX_ACQUIRE_ATTEMPTS
  Setups,       \* the circumstances to consider; see setup
  NoLease       \* the lease file does not exist

ASSUME LimitAssumption ==
  /\ Stale \in Nat /\ MaxFailures \in Nat /\ MaxAttempts \in Nat
  /\ 0 < MaxFailures /\ MaxFailures < Stale /\ 0 < MaxAttempts

VARIABLES
  setup,     \* fixed: pid, the pid an incarnation runs under; stallAt, the steps at
             \* which a worker may be held up for any time; and the workers that are
             \* started at all (starting), whose heartbeat writes may fail (failing),
             \* that may install a lease-lost listener (listening; the runtime itself
             \* installs none) and that reconcile orphans (reconciling)
  life,      \* "new", "up" or "dead", per worker
  lease,     \* the lease file: whose it is, and the ages of its heartbeatAt
             \* field and of its modification time
  section,   \* the workers inside the reclaim lock
  owned,     \* whether the task is in state.ownedTasks
  failures,  \* #heartbeatFailures
  due,       \* the heartbeat interval has elapsed and its callback not run
  listening, \* leaseLostListener is set
  unreported,\* the task is in pendingLeaseLosses
  temporary, \* the lease is acquired for one session write only (temporaryLease)
  at,        \* the step of the operation under way
  tries,     \* attempts used by acquireTaskLease
  drift,     \* ticks since the operation under way read the clock
  running,   \* the caller executes the task on the strength of the lease
  status,    \* the task's status in the store
  lost,      \* history: the worker gave its lease up as lost, and has not published a
             \* record since but for a session write
  late       \* history: somebody has set out, without the reclaim lock, to refresh or remove
             \* its own record when it was already stale, or to remove an orphan's

notices == <<listening, unreported>>
processes == <<life, setup>>
past == <<lost, late>>
calls == <<at, tries, drift, temporary>>
claims == <<owned, failures, due, running>>
vars == <<processes, lease, section, claims, notices, calls, status, past>>

Ages == 0 .. Stale + 1
Lease == [by : Worker, heartbeat : Ages, mtime : Ages]
ASSUME NoLeaseAssumption == NoLease \notin Lease

Labels == {"idle", "acquire", "lock", "revalidate", "unlinkStale", "link", "touch", "touchWrite",
           "beatWrite", "writeLock", "writeCheck", "write", "unlinkOwn",
           "orphanPatch", "orphanUnlink"}

\* Steps that hold a clock reading which ends up in a lease record.
HoldsClock == {"lock", "revalidate", "unlinkStale", "link", "touchWrite", "beatWrite"}

Up(w) == life[w] = "up"
ProcessAlive(pid) == \E v \in Worker : Up(v) /\ setup.pid[v] = pid
At(w, label) == Up(w) /\ at[w] = label

LeaseOf(w)   == lease # NoLease /\ lease.by = w
LeaseAlive   == lease # NoLease /\ ProcessAlive(setup.pid[lease.by])

\* (mutant) A lease is active as long as the pid of its owner is alive.
LeaseActiveByPid == LeaseAlive

LeaseActive  == LeaseAlive /\ lease.heartbeat <= Stale
IsStalePath  == lease # NoLease /\ (~LeaseAlive \/ lease.mtime > Stale)
OwnsTaskLease(w) == LeaseOf(w) /\ owned[w]
HasActiveTaskLease(w) == IF LeaseOf(w) THEN owned[w] ELSE LeaseActive

Init ==
  /\ setup \in Setups
  /\ life = [w \in Worker |-> "new"]
  /\ lease = NoLease
  /\ section = {}
  /\ owned = [w \in Worker |-> FALSE]
  /\ failures = [w \in Worker |-> 0]
  /\ due = [w \in Worker |-> FALSE]
  /\ listening = [w \in Worker |-> FALSE]
  /\ unreported = [w \in Worker |-> FALSE]
  /\ temporary = [w \in Worker |-> FALSE]
  /\ at = [w \in Worker |-> "idle"]
  /\ tries = [w \in Worker |-> 0]
  /\ drift = [w \in Worker |-> 0]
  /\ running = [w \in Worker |-> FALSE]
  /\ status = "idle"
  /\ lost = [w \in Worker |-> FALSE]
  /\ late = FALSE

-----------------------------------------------------------------------------
(***************************************************************************)
(* Processes and time.                                                     *)
(***************************************************************************)
Start(w) ==
  /\ life[w] = "new" /\ w \in setup.starting
  /\ ~ProcessAlive(setup.pid[w])
  /\ life' = [life EXCEPT ![w] = "up"]
  /\ UNCHANGED <<setup, lease, section, claims, notices, calls, status, past>>

Crash(w) ==
  /\ Up(w)
  /\ life' = [life EXCEPT ![w] = "dead"]
  /\ section' = section \ {w}
  /\ owned' = [owned EXCEPT ![w] = FALSE]
  /\ failures' = [failures EXCEPT ![w] = 0]
  /\ due' = [due EXCEPT ![w] = FALSE]
  /\ listening' = [listening EXCEPT ![w] = FALSE]
  /\ unreported' = [unreported EXCEPT ![w] = FALSE]
  /\ temporary' = [temporary EXCEPT ![w] = FALSE]
  /\ at' = [at EXCEPT ![w] = "idle"]
  /\ tries' = [tries EXCEPT ![w] = 0]
  /\ drift' = [drift EXCEPT ![w] = 0]
  /\ running' = [running EXCEPT ![w] = FALSE]
  /\ lost' = [lost EXCEPT ![w] = FALSE]
  /\ UNCHANGED <<setup, lease, status, late>>

Older(age) == IF age <= Stale THEN age + 1 ELSE age

\* HEARTBEAT_MS pass.
Tick ==
  /\ \A w \in Worker : at[w] \in setup.stallAt \/ (at[w] = "idle" /\ ~due[w])
  /\ lease' = IF lease = NoLease THEN NoLease
              ELSE [by |-> lease.by, heartbeat |-> Older(lease.heartbeat),
                    mtime |-> Older(lease.mtime)]
  /\ drift' = [w \in Worker |-> IF at[w] \in HoldsClock THEN Older(drift[w]) ELSE drift[w]]
  /\ due' = [w \in Worker |-> due[w] \/ owned[w]]
  /\ UNCHANGED <<processes, section, owned, failures, running, notices, at, tries, temporary, status, past>>

Goto(w, label) == at' = [at EXCEPT ![w] = label]

ReadClock(w) == drift' = [drift EXCEPT ![w] = 0]

\* An operation's clock reading and attempts go out of scope.
Forget(w) ==
  /\ tries' = [tries EXCEPT ![w] = 0]
  /\ ReadClock(w)

\* history: the own record is read when it is stale, to be refreshed or removed.
ReadLate(w) == late' = (late \/ (LeaseOf(w) /\ lease.heartbeat > Stale))

\* history: a record is published; one for a session write is given back after it.
Publish(w) == lost' = [lost EXCEPT ![w] = @ /\ temporary[w]]

\* acquireTaskLease returns true: the caller goes on to its session write, or executes the
\* task.
Acquired(w) ==
  /\ Goto(w, IF temporary[w] THEN "writeLock" ELSE "idle")
  /\ running' = [running EXCEPT ![w] = @ \/ ~temporary[w]]
  /\ Forget(w)
  /\ UNCHANGED temporary

(***************************************************************************)
(* #loseTaskLease: the task is no longer counted as owned, and whoever     *)
(* listens is told of it, now or when it is set.                           *)
(***************************************************************************)
LoseTaskLease(w) ==
  /\ owned' = [owned EXCEPT ![w] = FALSE]
  /\ failures' = [failures EXCEPT ![w] = 0]
  /\ due' = [due EXCEPT ![w] = FALSE]
  /\ unreported' = [unreported EXCEPT ![w] = @ \/ (owned[w] /\ ~listening[w])]
  /\ lost' = [lost EXCEPT ![w] = @ \/ owned[w]]
  /\ UNCHANGED listening

\* The listener is the caller's: it stops executing the task.
Heard(w) == owned[w] /\ listening[w]

\* setLeaseLostListener: a loss met before is reported at once.
SetLeaseLostListener(w) ==
  /\ At(w, "idle")
  /\ w \in setup.listening /\ ~listening[w]
  /\ listening' = [listening EXCEPT ![w] = TRUE]
  /\ unreported' = [unreported EXCEPT ![w] = FALSE]
  /\ running' = [running EXCEPT ![w] = @ /\ ~unreported[w]]
  /\ UNCHANGED <<processes, lease, section, owned, failures, due, calls, status, past>>

(***************************************************************************)
(* #touchTaskLease, from the heartbeat timer ("beatWrite") and at the end  *)
(* of acquireTaskLease ("touchWrite"), which returns true whatever the     *)
(* touch met: read the record, then rename a refreshed copy over whatever  *)
(* the path holds by then.                                                 *)
(***************************************************************************)
HeartbeatReads(w) ==
  /\ At(w, "idle")
  /\ due[w]
  /\ ReadLate(w)
  /\ IF LeaseOf(w)
     THEN /\ Goto(w, "beatWrite")
          /\ ReadClock(w)
          /\ due' = [due EXCEPT ![w] = FALSE]
          /\ UNCHANGED <<owned, failures, running, notices, tries, temporary, lost>>
     ELSE /\ LoseTaskLease(w)
          /\ running' = [running EXCEPT ![w] = @ /\ ~Heard(w)]
          /\ UNCHANGED calls
  /\ UNCHANGED <<processes, lease, section, status>>

TouchReads(w) ==
  /\ At(w, "touch")
  /\ ReadLate(w)
  /\ IF LeaseOf(w)
     THEN /\ Goto(w, "touchWrite")
          /\ ReadClock(w)
          /\ UNCHANGED <<claims, notices, tries, temporary, lost>>
     ELSE LoseTaskLease(w) /\ Acquired(w)
  /\ UNCHANGED <<processes, lease, section, status>>

Touched(w) == [by |-> w, heartbeat |-> drift[w], mtime |-> drift[w]]

\* The touch is over: the timer callback, or acquireTaskLease, returns.
TouchReturns(w) ==
  IF at[w] = "touchWrite" THEN Acquired(w)
  ELSE Goto(w, "idle") /\ Forget(w) /\ UNCHANGED <<running, temporary>>

TouchWrites(w) ==
  /\ Up(w) /\ at[w] \in {"beatWrite", "touchWrite"}
  /\ lease' = Touched(w)
  /\ failures' = [failures EXCEPT ![w] = 0]
  /\ Publish(w)
  /\ TouchReturns(w)
  /\ UNCHANGED <<processes, section, owned, due, notices, status, late>>

\* (mutant) Failures are never counted out.
GivesUpNever(w) == failures[w] + 1 > Stale

GivesUp(w) == failures[w] + 1 >= MaxFailures

TouchFails(w) ==
  /\ w \in setup.failing
  /\ Up(w) /\ at[w] \in {"beatWrite", "touchWrite"}
  /\ IF GivesUp(w) THEN LoseTaskLease(w)
     ELSE /\ failures' = [failures EXCEPT ![w] = @ + 1]
          /\ UNCHANGED <<owned, due, notices, lost>>
  /\ IF GivesUp(w) /\ at[w] = "beatWrite"
     THEN /\ Goto(w, "idle") /\ Forget(w)
          /\ running' = [running EXCEPT ![w] = @ /\ ~Heard(w)]
          /\ UNCHANGED temporary
     ELSE TouchReturns(w)
  /\ UNCHANGED <<processes, lease, section, status, late>>

(***************************************************************************)
(* releaseTaskLease: read the token, then unlink the path.                 *)
(***************************************************************************)
ReleaseReads(w) ==
  /\ owned' = [owned EXCEPT ![w] = FALSE]
  /\ failures' = [failures EXCEPT ![w] = 0]
  /\ due' = [due EXCEPT ![w] = FALSE]
  /\ temporary' = [temporary EXCEPT ![w] = FALSE]
  /\ Goto(w, IF LeaseOf(w) THEN "unlinkOwn" ELSE "idle")
  /\ Forget(w)
  /\ ReadLate(w)
  /\ UNCHANGED lost

\* abortTaskSessionsAfterLeaseLoss: the local session stops and releases; the shared task
\* is left alone.
AbortAfterLeaseLoss(w) ==
  /\ ReleaseReads(w)
  /\ running' = [running EXCEPT ![w] = FALSE]

\* The caller's turn settles: it records the outcome and releases.
ReleaseTaskLease(w) ==
  /\ At(w, "idle")
  /\ running[w]
  /\ ReleaseReads(w)
  /\ running' = [running EXCEPT ![w] = FALSE]
  /\ status' = "idle"
  /\ UNCHANGED <<processes, lease, section, notices>>

UnlinkOwn(w) ==
  /\ At(w, "unlinkOwn")
  /\ lease' = NoLease
  /\ Goto(w, "idle")
  /\ UNCHANGED <<processes, section, claims, notices, tries, drift, temporary, status, past>>

(***************************************************************************)
(* acquireTaskLease and #reclaimStale.  A caller acquires to execute the   *)
(* task, at each agent_start of the execution, and for a session write     *)
(* while it does not own the task.                                         *)
(***************************************************************************)
Begin(w, label) ==
  /\ At(w, "idle")
  /\ Goto(w, label)
  /\ UNCHANGED <<processes, lease, section, claims, notices, tries, drift, status, past>>

AgentStart(w) ==
  /\ running[w] /\ OwnsTaskLease(w)
  /\ Begin(w, "acquire") /\ UNCHANGED temporary

\* A turn, or a tool of it, starts when the lease is lost.
NoticeLoss(w) ==
  /\ At(w, "idle")
  /\ running[w] /\ ~OwnsTaskLease(w)
  /\ AbortAfterLeaseLoss(w)
  /\ UNCHANGED <<processes, lease, section, notices, status>>

\* A session write of the execution begins.  (One outside an execution acquires, writes and
\* releases as a short execution does.)
GuardedWrite(w) ==
  /\ running[w]
  /\ Begin(w, IF OwnsTaskLease(w) THEN "writeLock" ELSE "acquire")
  /\ temporary' = [temporary EXCEPT ![w] = ~OwnsTaskLease(w)]

\* acquireTaskLease returns false.  A session write is given up with its session; a turn
\* that is starting publishes the task as failed; any other caller reports the conflict.
Refuse(w) ==
  IF temporary[w]
  THEN AbortAfterLeaseLoss(w) /\ UNCHANGED status
  ELSE /\ Goto(w, "idle") /\ Forget(w)
       /\ status' = IF running[w] THEN "error" ELSE status
       /\ UNCHANGED <<claims, temporary, past>>

\* The next turn of the loop, or the end of the last one.
Retry(w) ==
  IF tries[w] + 1 < MaxAttempts
  THEN /\ Goto(w, "acquire")
       /\ tries' = [tries EXCEPT ![w] = @ + 1]
       /\ ReadClock(w)
       /\ UNCHANGED <<claims, temporary, status, past>>
  ELSE Refuse(w)

\* Read the record and decide: already ours, another's, stale, or free.
Judge(w) ==
  /\ IF ~LeaseOf(w) /\ LeaseActive THEN Refuse(w)
     ELSE /\ owned' = [owned EXCEPT ![w] = @ \/ LeaseOf(w)]
          /\ Goto(w, IF LeaseOf(w) THEN "touch" ELSE IF IsStalePath THEN "lock" ELSE "link")
          /\ ReadClock(w)
          /\ UNCHANGED <<failures, due, running, tries, temporary, status, past>>
  /\ UNCHANGED <<processes, lease, section, notices>>

AcquireTaskLease(w) ==
  /\ At(w, "idle") /\ ~running[w]
  /\ Judge(w)

AcquireReads(w) ==
  /\ At(w, "acquire")
  /\ Judge(w)

\* (mutant) The lock is taken by all who ask.
SectionFreeAlways == TRUE

SectionFree == section = {}

\* #takeReclaimLock for a reclaim: taken, or refused for whatever reason.
ReclaimEnters(w) ==
  /\ At(w, "lock")
  /\ SectionFree
  /\ section' = section \cup {w}
  /\ Goto(w, "revalidate")
  /\ UNCHANGED <<processes, lease, claims, notices, tries, drift, temporary, status, past>>

ReclaimRefused(w) ==
  /\ At(w, "lock")
  /\ Retry(w)
  /\ UNCHANGED <<processes, lease, section, notices>>

\* (mutant) What was judged before the lock was taken is trusted.
RemovableTrusted == TRUE

Removable == ~LeaseActive /\ IsStalePath

\* Under the lock the record is judged again.
Revalidate(w) ==
  /\ At(w, "revalidate")
  /\ section' = IF Removable THEN section ELSE section \ {w}
  /\ IF lease # NoLease /\ ~Removable THEN Retry(w)
     ELSE /\ Goto(w, IF Removable THEN "unlinkStale" ELSE "link")
          /\ UNCHANGED <<claims, tries, drift, temporary, status, past>>
  /\ UNCHANGED <<processes, lease, notices>>

\* unlink of the path, and release of the lock.
UnlinkStale(w) ==
  /\ At(w, "unlinkStale")
  /\ lease' = NoLease
  /\ section' = section \ {w}
  /\ Goto(w, "link")
  /\ UNCHANGED <<processes, claims, notices, tries, drift, temporary, status, past>>

Linkable == lease = NoLease

\* The exclusive link of a complete record.
CreateLeaseFile(w) ==
  /\ At(w, "link")
  /\ Linkable
  /\ lease' = [by |-> w, heartbeat |-> drift[w], mtime |-> 0]
  /\ owned' = [owned EXCEPT ![w] = TRUE]
  /\ Publish(w)
  /\ Acquired(w)
  /\ UNCHANGED <<processes, section, failures, due, notices, status, late>>

CreateOccupied(w) ==
  /\ At(w, "link")
  /\ ~Linkable
  /\ Retry(w)
  /\ UNCHANGED <<processes, lease, section, notices>>

\* The lock cannot be created, or a record not be linked, for another reason than that the
\* path is there: acquireTaskLease throws, and its caller goes no further.
AcquireThrows(w) ==
  /\ Up(w) /\ at[w] \in {"lock", "link"}
  /\ Goto(w, "idle") /\ Forget(w)
  /\ temporary' = [temporary EXCEPT ![w] = FALSE]
  /\ UNCHANGED <<processes, lease, section, claims, notices, status, past>>

(***************************************************************************)
(* runWithTaskLeaseOwnership: one session write under the reclaim lock.    *)
(* A caller refused aborts its session; a temporary lease is given back    *)
(* whatever happened, while the execution, if any, goes on.                *)
(***************************************************************************)
WriteEnters(w) ==
  /\ At(w, "writeLock")
  /\ SectionFree
  /\ section' = section \cup {w}
  /\ Goto(w, "writeCheck")
  /\ UNCHANGED <<processes, lease, claims, notices, tries, drift, temporary, status, past>>

WriteRefused(w) ==
  /\ At(w, "writeLock")
  /\ AbortAfterLeaseLoss(w)
  /\ UNCHANGED <<processes, lease, section, notices, status>>

WriteChecks(w) ==
  /\ At(w, "writeCheck")
  /\ IF OwnsTaskLease(w)
     THEN Goto(w, "write") /\ UNCHANGED <<section, claims, tries, drift, temporary, past>>
     ELSE AbortAfterLeaseLoss(w) /\ section' = section \ {w}
  /\ UNCHANGED <<processes, lease, notices, status>>

GiveBack(w) ==
  /\ IF temporary[w] THEN ReleaseReads(w)
     ELSE Goto(w, "idle") /\ UNCHANGED <<owned, failures, due, tries, drift, temporary, past>>
  /\ UNCHANGED <<processes, lease, running, notices, status>>

WriteEnds(w) ==
  /\ At(w, "write")
  /\ section' = section \ {w}
  /\ GiveBack(w)

\* The lock cannot be created: the write throws.
WriteThrows(w) ==
  /\ At(w, "writeLock")
  /\ GiveBack(w)
  /\ UNCHANGED section

(***************************************************************************)
(* The caller marks the task as working once it has the lease.             *)
(***************************************************************************)
MarkWorking(w) ==
  /\ At(w, "idle")
  /\ running[w]
  /\ status' = "working"
  /\ UNCHANGED <<processes, lease, section, claims, notices, calls, past>>

(***************************************************************************)
(* reconcileOrphanedWorkingTasks: a working task without an active lease   *)
(* is marked as failed, its lease file is unlinked, and its snapshot goes  *)
(* to the orphan listener or its backlog (RestartResume).                  *)
(***************************************************************************)
ReconcileReads(w) ==
  /\ At(w, "idle")
  /\ w \in setup.reconciling
  /\ status = "working" /\ ~HasActiveTaskLease(w)
  /\ Goto(w, "orphanPatch")
  /\ late' = TRUE
  /\ UNCHANGED <<processes, lease, section, claims, notices, tries, drift, temporary, status, lost>>

OrphanPatch(w) ==
  /\ At(w, "orphanPatch")
  /\ status' = "error"
  /\ Goto(w, "orphanUnlink")
  /\ UNCHANGED <<processes, lease, section, claims, notices, tries, drift, temporary, past>>

OrphanUnlink(w) ==
  /\ At(w, "orphanUnlink")
  /\ lease' = NoLease
  /\ Goto(w, "idle")
  /\ UNCHANGED <<processes, section, claims, notices, tries, drift, temporary, status, past>>

\* What a caller or a timer begins, and the steps that follow from the code.
Call(w) ==
  \/ SetLeaseLostListener(w) \/ AcquireTaskLease(w) \/ AgentStart(w) \/ ReleaseTaskLease(w)
  \/ MarkWorking(w) \/ NoticeLoss(w) \/ GuardedWrite(w) \/ ReconcileReads(w)

Step(w) ==
  \/ HeartbeatReads(w) \/ TouchReads(w) \/ TouchWrites(w) \/ TouchFails(w)
  \/ AcquireReads(w) \/ ReclaimEnters(w) \/ ReclaimRefused(w) \/ Revalidate(w) \/ UnlinkStale(w)
  \/ CreateLeaseFile(w) \/ CreateOccupied(w) \/ AcquireThrows(w) \/ UnlinkOwn(w)
  \/ WriteEnters(w) \/ WriteRefused(w) \/ WriteChecks(w) \/ WriteEnds(w) \/ WriteThrows(w)
  \/ OrphanPatch(w) \/ OrphanUnlink(w)

Next ==
  \/ Tick
  \/ \E w \in Worker : Start(w) \/ Crash(w) \/ Call(w) \/ Step(w)

Spec == Init /\ [][Next]_vars

(***************************************************************************)
(* Fairness: time passes, however busy the processes; a synchronous        *)
(* operation runs to its end and a timer callback runs; a process in use   *)
(* runs the orphan reconciliation again and again (every session attach,   *)
(* prompt and relay status begins with it), between operations.            *)
(***************************************************************************)
Fairness ==
  /\ SF_vars(Tick)
  /\ \A w \in Worker : WF_vars(Step(w)) /\ SF_vars(ReconcileReads(w))

FairSpec == Spec /\ Fairness
-----------------------------------------------------------------------------
\* Types; in particular fewer than MaxFailures failures are ever counted for an owned
\* task, and an acquisition never begins one attempt too many.
TypeOK ==
  /\ setup \in Setups
  /\ life \in [Worker -> {"new", "up", "dead"}]
  /\ lease \in Lease \cup {NoLease}
  /\ section \subseteq Worker
  /\ owned \in [Worker -> BOOLEAN]
  /\ failures \in [Worker -> 0 .. MaxFailures - 1]
  /\ due \in [Worker -> BOOLEAN]
  /\ listening \in [Worker -> BOOLEAN]
  /\ unreported \in [Worker -> BOOLEAN]
  /\ temporary \in [Worker -> BOOLEAN]
  /\ at \in [Worker -> Labels]
  /\ tries \in [Worker -> 0 .. MaxAttempts - 1]
  /\ drift \in [Worker -> Ages]
  /\ running \in [Worker -> BOOLEAN]
  /\ status \in {"idle", "working", "error"}
  /\ lost \in [Worker -> BOOLEAN]
  /\ late \in BOOLEAN

\* No worker is held up but in a session write, and nobody has set out, without the reclaim
\* lock, to refresh or remove a stale record of its own or an orphan's: what is renamed over
\* or unlinked then may be its successor's, and each breaks what follows.
Orderly == setup.stallAt \subseteq {"write"} /\ ~late

\* Nor is a worker held up in a session write.
Paced == setup.stallAt = {} /\ ~late

\* runWithTaskLeaseOwnership "closes the ownership-check-to-append race with another process
\* taking over the lease": the lease is the writer's for as long as a session write takes,
\* though it outlasts the lease, and though the lease was acquired for the write only.
WriteFenced == Orderly => \A w \in Worker : At(w, "write") => LeaseOf(w)

\* "3 missed heartbeats is still inside TASK_LEASE_STALE_MS": a worker that counts the task
\* as its own, and has not given it up as lost, holds a lease no other worker may take,
\* however many of its heartbeat writes fail.
OwnerFenced ==
  /\ TypeOK
  /\ Paced => \A w \in Worker : owned[w] /\ ~lost[w] => LeaseOf(w) /\ LeaseActive

\* "Two workers that both judged it stale must not each delete the other's freshly created
\* lease": the active lease of a process is removed or replaced by nobody but that process,
\* when it releases.
FreshLeaseKept ==
  [][Orderly => \A w \in Worker :
       LeaseOf(w) /\ Up(w) /\ LeaseActive /\ ~LeaseOf(w)' => At(w, "unlinkOwn")]_vars

\* "Report the loss before that happens": of two processes that execute the task one has
\* given the lease up as lost before the other took it.  That the first one stops is a
\* matter of its listener, and the runtime installs none: it goes on until it meets the
\* loss itself.
SingleRunner ==
  Paced => \A v, w \in Worker : running[v] /\ running[w] => v = w \/ lost[v] \/ lost[w]

\* A task whose runner is gone does not stay "working" for ever: as long as a
\* process that reconciles is up, it is marked as failed or somebody runs it.
OrphanReported ==
  (status = "working" /\ ~\E w \in Worker : running[w])
    ~> (status # "working" \/ (\E w \in Worker : running[w])
        \/ ~\E w \in setup.reconciling : Up(w))
=============================================================================
