--------------------------- MODULE RestartResume ---------------------------
(***************************************************************************)
(* The resumption of turns that a restart of the Backend interrupted:      *)
(* backend/core/restart-resume.mjs, the startup sequence that registers    *)
(* it (backend/core/runtime-startup.mjs and backend/src/startup.mjs), and  *)
(* the reconciliation of working tasks that nobody runs, which both the    *)
(* startup and the attached runtime call.                                  *)
(*                                                                         *)
(* A backend is one process: it claims the runtime owner slot, may be told *)
(* to stop (it then gives the slot up while its turns run on) and may      *)
(* crash.  A turn is its lease.  The budget file is read and written as a  *)
(* whole under a directory lock, taken here as one that a crash frees.     *)
(* A resume blocks its backend until the prompt: nothing else of that      *)
(* process runs in between, other processes do.                            *)
(***************************************************************************)
EXTENDS Naturals, FiniteSets

CONSTANTS
  Backend,     \* backend processes, in no order
  Task,        \* task ids
  Mortal,      \* backends that may crash
  Draining,    \* backends that may be stopped while turns of theirs run on
  PidReused,   \* backends whose pid is in use again once they are gone
  Skipped,     \* tasks that restartResumeSkipReason names a reason for
  Held,        \* tasks owned by a Goal Loop that cannot be resumed
  MaxAttempts, \* RESTART_RESUME_MAX_ATTEMPTS
  None         \* no backend, no task

ASSUME BackendAssumption == Mortal \cup Draining \cup PidReused \subseteq Backend
ASSUME TaskAssumption == Skipped \cup Held \subseteq Task
ASSUME AttemptsAssumption == MaxAttempts \in Nat
ASSUME NoneAssumption == None \notin Backend \cup Task

VARIABLES
  phase,   \* of each backend
  status,  \* of each task: "orphaned" is an error with ORPHANED_WORKING_TASK_ERROR
  lease,   \* the backend whose runtime lease a task carries, or None
  missed,  \* (history) tasks that a startup took for running, because the pid of the
           \* backend that ran them was in use again; until they are offered or run
  timers,  \* the delayed resumes of each backend
  step,    \* the step of the resume under way in each backend
  target,  \* its task
  read,    \* the attempts it read, without the records past the window
  section, \* the backend that holds the lock of the budget file, or None
  budget,  \* restart-resume.json: count of each task, 0 without a record
  old,     \* tasks whose record is past RESTART_RESUME_WINDOW_MS
  intact,  \* whether the file can be interpreted
  resent   \* (history) prompts sent since the task's record was begun

budgetVars == <<read, section, budget, old, intact, resent>>
turnVars == <<status, lease, missed>>
vars == <<phase, turnVars, timers, step, target, budgetVars>>

Phases == {"new", "loading", "registered", "ready", "draining", "ended", "crashed"}
Steps == {"idle", "lock", "read", "write", "prompt"}

Running(b) == phase[b] \in {"loading", "registered", "ready", "draining"}
OwnsSlot(b) == phase[b] \in {"loading", "registered", "ready"}
Idle(b) == phase[b] \in {"ready", "draining"} /\ step[b] = "idle"
At(b, s) == Running(b) /\ step[b] = s
Becomes(b, p) == phase' = [phase EXCEPT ![b] = p]
Goto(b, s) == step' = [step EXCEPT ![b] = s]
Finish(b) == Goto(b, "idle") /\ target' = [target EXCEPT ![b] = None]

\* hasActiveTaskLease: a pid that is in use again looks like a running owner.
LeaseActive(t) == lease[t] # None /\ (Running(lease[t]) \/ lease[t] \in PidReused)

\* A turn whose backend is gone.
Interrupted(t) == status[t] = "working" /\ (lease[t] = None \/ ~Running(lease[t]))

Init ==
  /\ phase = [b \in Backend |-> "new"]
  /\ status = [t \in Task |-> "settled"]
  /\ lease = [t \in Task |-> None]
  /\ missed = {}
  /\ timers = [b \in Backend |-> {}]
  /\ step = [b \in Backend |-> "idle"]
  /\ target = [b \in Backend |-> None]
  /\ read = [b \in Backend |-> [t \in Task |-> 0]]
  /\ section = None
  /\ budget = [t \in Task |-> 0]
  /\ old = {}
  /\ intact = TRUE
  /\ resent = [t \in Task |-> 0]

(***************************************************************************)
(* The life of a backend.                                                  *)
(***************************************************************************)
Start(b) ==
  /\ phase[b] = "new"
  /\ \A c \in Backend : ~OwnsSlot(c)
  /\ Becomes(b, "loading")
  /\ UNCHANGED <<turnVars, timers, step, target, budgetVars>>

\* stop: the server closes and the slot is given up; the process lives on while its
\* turns do.
Stop(b) ==
  /\ b \in Draining
  /\ phase[b] = "ready"
  /\ step[b] = "idle"
  /\ Becomes(b, "draining")
  /\ UNCHANGED <<turnVars, timers, step, target, budgetVars>>

\* A process that has stopped ends; a mortal one may crash at any step.
Die(b) ==
  /\ Running(b)
  /\ b \in Mortal \/ phase[b] = "draining"
  /\ Becomes(b, IF phase[b] = "draining" THEN "ended" ELSE "crashed")
  /\ timers' = [timers EXCEPT ![b] = {}]
  /\ Finish(b)
  /\ section' = IF section = b THEN None ELSE section
  /\ read' = [read EXCEPT ![b] = [t \in Task |-> 0]]
  /\ UNCHANGED <<turnVars, budget, old, intact, resent>>

\* The heartbeat of a lease left behind passes TASK_LEASE_STALE_MS.
LeaseExpires(t) ==
  /\ lease[t] # None
  /\ ~Running(lease[t])
  /\ lease' = [lease EXCEPT ![t] = None]
  /\ UNCHANGED <<phase, status, missed, timers, step, target, budgetVars>>

(***************************************************************************)
(* Turns.                                                                  *)
(***************************************************************************)
StartTurn(b, t) ==
  /\ status' = [status EXCEPT ![t] = "working"]
  /\ lease' = [lease EXCEPT ![t] = b]
  /\ missed' = missed \ {t}

UserPrompt(b, t) ==
  /\ phase[b] = "ready"
  /\ step[b] = "idle"
  /\ status[t] # "working"
  /\ ~LeaseActive(t)
  /\ StartTurn(b, t)
  /\ UNCHANGED <<phase, timers, step, target, budgetVars>>

TurnEnds(t) ==
  /\ status[t] = "working"
  /\ lease[t] # None
  /\ Idle(lease[t])
  /\ status' = [status EXCEPT ![t] = "settled"]
  /\ lease' = [lease EXCEPT ![t] = None]
  /\ UNCHANGED <<phase, missed, timers, step, target, budgetVars>>

\* The user edits, stops or deletes a task that waits for its resume.
UserStop(b, t) ==
  /\ phase[b] = "ready"
  /\ step[b] = "idle"
  /\ status[t] = "orphaned"
  /\ status' = [status EXCEPT ![t] = "settled"]
  /\ UNCHANGED <<phase, lease, missed, timers, step, target, budgetVars>>

(***************************************************************************)
(* Startup: register the listener and offer it the orphans of earlier      *)
(* runs, then reconcile.  handleOrphanedTasks schedules a resume each.     *)
(***************************************************************************)
Offer(b, tasks) == timers' = [timers EXCEPT ![b] = @ \cup (tasks \ Skipped)]

\* (mutant) The orphans an earlier run had patched are left to it.
PersistedOrphansNone == {}
PersistedOrphans == {t \in Task : status[t] = "orphaned"}

Register(b) ==
  /\ phase[b] = "loading"
  /\ Becomes(b, "registered")
  /\ Offer(b, PersistedOrphans)
  /\ missed' = missed \ PersistedOrphans
  /\ UNCHANGED <<status, lease, step, target, budgetVars>>

\* reconcileOrphanedWorkingTasks: patch the store and unlink the lease.
Orphans == {t \in Task : status[t] = "working" /\ ~LeaseActive(t)}
Patch ==
  /\ status' = [t \in Task |-> IF t \in Orphans THEN "orphaned" ELSE status[t]]
  /\ lease' = [t \in Task |-> IF t \in Orphans THEN None ELSE lease[t]]

Reconcile(b) ==
  /\ phase[b] = "registered"
  /\ Becomes(b, "ready")
  /\ Patch
  /\ missed' = missed \cup {t \in Task : Interrupted(t) /\ LeaseActive(t)}
  /\ Offer(b, Orphans)
  /\ UNCHANGED <<step, target, budgetVars>>

\* The attached runtime reconciles, in a read say, through a lease service of its own,
\* which has no orphan listener.  It is attached before the listener of the other service
\* is set; nothing else of the process runs from there to the reconciliation.
RuntimeReconcile(b) ==
  /\ Idle(b) \/ phase[b] = "loading"
  /\ Orphans # {}
  /\ Patch
  /\ UNCHANGED <<phase, missed, timers, step, target, budgetVars>>

(***************************************************************************)
(* resumeOrphanedTask: check the task, claim an attempt, prompt.           *)
(***************************************************************************)
Refused(t) == status[t] # "orphaned" \/ t \in Held

ResumeOrphanedTask(b, t) ==
  /\ Idle(b)
  /\ t \in timers[b]
  /\ timers' = [timers EXCEPT ![b] = @ \ {t}]
  /\ IF Refused(t) THEN UNCHANGED <<step, target>>
     ELSE Goto(b, "lock") /\ target' = [target EXCEPT ![b] = t]
  /\ UNCHANGED <<phase, turnVars, budgetVars>>

\* (mutant) The budget is read and written without the lock.
SectionFreeAlways == TRUE
SectionFree == section = None

TakeLock(b) ==
  /\ At(b, "lock")
  /\ SectionFree
  /\ section' = b
  /\ Goto(b, "read")
  /\ UNCHANGED <<phase, turnVars, timers, target, read, budget, old, intact, resent>>

\* "restart-resume budget is busy": no resume without a recorded attempt.
LockBusy(b) ==
  /\ At(b, "lock")
  /\ ~SectionFree
  /\ Finish(b)
  /\ UNCHANGED <<phase, turnVars, timers, budgetVars>>

ReadAttempts(b) ==
  /\ At(b, "read")
  /\ intact
  /\ read' = [read EXCEPT ![b] = [t \in Task |-> IF t \in old THEN 0 ELSE budget[t]]]
  /\ Goto(b, "write")
  /\ UNCHANGED <<phase, turnVars, timers, target, section, budget, old, intact, resent>>

\* A file that cannot be interpreted is set aside, and this claim refused.
SetAside(b) ==
  /\ At(b, "read")
  /\ ~intact
  /\ budget' = [t \in Task |-> 0]
  /\ resent' = [t \in Task |-> 0]
  /\ old' = {}
  /\ intact' = TRUE
  /\ section' = None
  /\ Finish(b)
  /\ UNCHANGED <<phase, turnVars, timers, read>>

AttemptsLeft(count) == count < MaxAttempts

Spent(count) == count + 1

WriteAttempts(b) ==
  /\ At(b, "write")
  /\ LET t == target[b]
         granted == AttemptsLeft(read[b][t])
         dropped == {u \in old : read[b][u] = 0}
     IN /\ budget' = IF granted THEN [read[b] EXCEPT ![t] = Spent(@)] ELSE read[b]
        /\ old' = old \ dropped
        /\ resent' = [u \in Task |-> IF u \in dropped THEN 0 ELSE resent[u]]
        /\ IF granted THEN Goto(b, "prompt") /\ UNCHANGED target ELSE Finish(b)
  /\ read' = [read EXCEPT ![b] = [t \in Task |-> 0]]
  /\ section' = None
  /\ UNCHANGED <<phase, turnVars, timers, intact>>

\* The file cannot be read or written: no resume either.
ClaimFails(b) ==
  /\ At(b, "read") \/ At(b, "write")
  /\ section' = None
  /\ read' = [read EXCEPT ![b] = [t \in Task |-> 0]]
  /\ Finish(b)
  /\ UNCHANGED <<phase, turnVars, timers, budget, old, intact, resent>>

\* promptTask, or the resumption of the task's Goal Loop.
PromptTask(b) ==
  /\ At(b, "prompt")
  /\ ~LeaseActive(target[b])
  /\ StartTurn(b, target[b])
  /\ resent' = [resent EXCEPT ![target[b]] = @ + 1]
  /\ Finish(b)
  /\ UNCHANGED <<phase, timers, read, section, budget, old, intact>>

\* The task is run elsewhere, or its session cannot be opened: the attempt is spent.
PromptFails(b) ==
  /\ At(b, "prompt")
  /\ Finish(b)
  /\ UNCHANGED <<phase, turnVars, timers, budgetVars>>

ResumeStep(b) ==
  \/ TakeLock(b) \/ LockBusy(b) \/ ReadAttempts(b) \/ SetAside(b) \/ WriteAttempts(b)
  \/ ClaimFails(b) \/ PromptTask(b) \/ PromptFails(b)

(***************************************************************************)
(* Time and damage, while no resume of the task, or none at all, runs.     *)
(***************************************************************************)
WindowPasses(t) ==
  /\ budget[t] > 0
  /\ t \notin old
  /\ \A b \in Backend : target[b] # t
  /\ old' = old \cup {t}
  /\ UNCHANGED <<phase, turnVars, timers, step, target, read, section, budget, intact, resent>>

CorruptBudget ==
  /\ intact
  /\ \E t \in Task : budget[t] > 0
  /\ \A b \in Backend : step[b] = "idle"
  /\ intact' = FALSE
  /\ UNCHANGED <<phase, turnVars, timers, step, target, read, section, budget, old, resent>>

BackendStep(b) ==
  \/ Register(b) \/ Reconcile(b) \/ RuntimeReconcile(b) \/ ResumeStep(b)
  \/ \E t \in Task : ResumeOrphanedTask(b, t)

Next ==
  \/ \E b \in Backend : Start(b) \/ Stop(b) \/ Die(b) \/ BackendStep(b)
  \/ \E b \in Backend, t \in Task : UserPrompt(b, t) \/ UserStop(b, t)
  \/ \E t \in Task : TurnEnds(t) \/ LeaseExpires(t) \/ WindowPasses(t)
  \/ CorruptBudget

Spec == Init /\ [][Next]_vars

(***************************************************************************)
(* Fairness: the Host starts a backend whenever the slot is free, a        *)
(* backend runs on, and time passes.                                       *)
(***************************************************************************)
Fairness ==
  /\ \A b \in Backend : WF_vars(Start(b)) /\ WF_vars(BackendStep(b))
  /\ \A t \in Task : WF_vars(LeaseExpires(t))

FairSpec == Spec /\ Fairness
-----------------------------------------------------------------------------
\* Types; in particular the persisted count of a task never passes MaxAttempts.
TypeOK ==
  /\ phase \in [Backend -> Phases]
  /\ status \in [Task -> {"settled", "working", "orphaned"}]
  /\ lease \in [Task -> Backend \cup {None}]
  /\ missed \subseteq Task
  /\ timers \in [Backend -> SUBSET Task]
  /\ step \in [Backend -> Steps]
  /\ target \in [Backend -> Task \cup {None}]
  /\ read \in [Backend -> [Task -> 0 .. MaxAttempts]]
  /\ section \in Backend \cup {None}
  /\ budget \in [Task -> 0 .. MaxAttempts]
  /\ old \subseteq Task
  /\ intact \in BOOLEAN
  /\ resent \in [Task -> 0 .. MaxAttempts]

\* "Never resend without recording the retry budget first", "so two Backends cannot
\* both read the same count": every prompt sent, and every one about to be sent, has
\* an attempt of its own in the file.
ResendsBudgeted ==
  /\ TypeOK
  /\ \A t \in Task :
    resent[t] + Cardinality({b \in Backend : At(b, "prompt") /\ target[b] = t}) <= budget[t]

\* A turn that a restart interrupted is attended to: resumed, or refused for its budget,
\* unless the user gets there first; whichever service patched its row, and when.  The
\* promise is made while no backend has been stopped with turns running on, and for a task
\* that no startup took for running: the startup looks once, and a lease under a pid in use
\* again looks active until its heartbeat is past TASK_LEASE_STALE_MS.
Attended(t) ==
  \/ status[t] = "settled"
  \/ status[t] = "working" /\ lease[t] # None /\ Running(lease[t])
  \/ \E b \in Backend : target[b] = t
NoneStopped == \A b \in Backend : phase[b] \notin {"draining", "ended"}
Promised(t) == NoneStopped /\ t \notin missed
OrphanOffered ==
  \A t \in Task \ (Skipped \cup Held) : Interrupted(t) /\ Promised(t) ~> Attended(t) \/ ~Promised(t)
=============================================================================
