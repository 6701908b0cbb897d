---------------------------- MODULE BotCodeRelay ----------------------------
(***************************************************************************)
(* The durable outbox of Bot Code requests (bot-code-relay.ts) in the      *)
(* process that owns the runtime, with crashes and restarts.  A request is *)
(* a file; whatever runs between two awaits is one action; the operations  *)
(* of a request exclude each other by its lock file, the reports to a Bot  *)
(* by the Bot's.  A lock a crash leaves behind is free again after its     *)
(* minute, here at once.                                                   *)
(*                                                                         *)
(* Goal Loops, Rooms (but for a turn that is superseded), images, pruning, *)
(* rows of the old queue and requests that prompt the Code task of an      *)
(* earlier one are left out.                                               *)
(***************************************************************************)
EXTENDS Naturals, Sequences

CONSTANTS
    Launched,      \* requests of a Bot that create or adopt a Code task
    Interventions, \* prompts of the user, queued for the worker of the task
    Target,        \* the request whose Code task an intervention prompts
    User,          \* a prompt that belongs to no request
    NoRequest,
    MaxCrashes,    \* bound: crashes of the process
    MaxFaults,     \* bound: prompts and reports that fail or find the Bot busy
    MaxPrompts     \* bound: prompts queued in one Code task at a time

ASSUME RelayAssumption ==
    /\ Launched \cap Interventions = {}
    /\ Target \in [Interventions -> Launched]
    /\ User \notin Launched \cup Interventions
    /\ NoRequest \notin Launched \cup Interventions
    /\ MaxCrashes \in Nat /\ MaxFaults \in Nat /\ MaxPrompts \in Nat

Requests == Launched \cup Interventions
Code(r)  == IF r \in Interventions THEN Target[r] ELSE r

VARIABLES
    rec,       \* the request files
    told,      \* per request: the outcome the Bot has reported in its transcript
    answered,  \* Code tasks whose last turn ended with an answer
    chain,     \* per Code task: the prompts of its live session
    enabled,   \* the Bot that owns the requests is still there and enabled
    current,   \* requests whose Room turn no newer one has superseded
    lock,      \* request locks held over an await
    botLock,   \* the request whose report holds the Bot's lock
    launch,    \* per request: the launch under way
    scan,      \* per request: where the running tick is with it
    capture,   \* per request: who is reading the result of its Code task
    due,       \* requests whose completion has to be handled
    stopping,  \* per request: the abort that follows a stop or a cancel
    copy,      \* per request: the result a report was started with
    prompts,   \* history: times the request was sent to its Code task
    reports,   \* history: reports the Bot has answered
    crashes,
    faults

fileVars == <<rec, told>>
taskVars == <<answered, chain, prompts>>
lockVars == <<lock, botLock>>
scanVars == <<scan, copy, reports>>
restVars == <<enabled, current, crashes, faults>>
relayVars == <<fileVars, taskVars, lockVars, scanVars, launch, capture, due, stopping, restVars>>

States   == {"none", "queued", "starting", "running", "ready", "delivered", "cancelled"}
Outcomes == {"none", "done", "failed", "stopped"}
Final(r)  == rec[r].state \in {"delivered", "cancelled"}
Active(r) == ~Final(r) /\ rec[r].state # "none"

\* isBusy: a turn, or the completion its prompt chain still awaits.
Busy(t) == chain[t] # <<>> \/ (t \in due /\ capture[t] = "complete")

RelayInit ==
    /\ rec = [r \in Requests |-> [state |-> "none", stopped |-> FALSE, task |-> FALSE,
                                  supervision |-> FALSE, result |-> "none"]]
    /\ told = [r \in Requests |-> "none"]
    /\ answered = {}
    /\ chain \in [Launched -> {<<>>, <<User>>}]
    /\ enabled = TRUE /\ current = Launched
    /\ lock = {} /\ botLock = NoRequest
    /\ launch = [r \in Requests |-> "no"]
    /\ scan = [r \in Requests |-> "idle"]
    /\ capture = [r \in Requests |-> "no"]
    /\ due = {}
    /\ stopping = [r \in Requests |-> "no"]
    /\ copy = [r \in Requests |-> "none"]
    /\ prompts = [r \in Requests |-> 0] /\ reports = [r \in Requests |-> 0]
    /\ crashes = 0 /\ faults = 0

Locked(r) == r \in lock
Save(r, s) == rec' = [rec EXCEPT ![r].state = s]
SaveResult(r, s, o) == rec' = [rec EXCEPT ![r].state = s, ![r].result = o]

\* A prompt joins the chain of the Code task and is counted.
SendPrompt(r) ==
    /\ Len(chain[Code(r)]) < MaxPrompts
    /\ chain' = [chain EXCEPT ![Code(r)] = Append(@, r)]
    /\ prompts' = [prompts EXCEPT ![r] = @ + 1]

\* A failure that may or may not happen.
Fault == faults < MaxFaults /\ faults' = faults + 1

-----------------------------------------------------------------------------
(* launchRequest and runUserBotCodeRequest: under the request lock         *)

LaunchBegins(r) ==
    /\ r \in Launched /\ chain[r] = <<>>
    /\ rec[r].state = "none" /\ ~Locked(r)
    /\ Save(r, "starting")
    /\ lock' = lock \cup {r}
    /\ launch' = [launch EXCEPT ![r] = "creating"]
    /\ UNCHANGED <<told, taskVars, botLock, scanVars, capture, due, stopping, restVars>>

\* beforePrompt links the task, then marks the request as running.
LaunchLinks(r) ==
    /\ launch[r] = "creating"
    /\ rec' = [rec EXCEPT ![r].task = TRUE]
    /\ launch' = [launch EXCEPT ![r] = "linked"]
    /\ UNCHANGED <<told, taskVars, lockVars, scanVars, capture, due, stopping, restVars>>

LaunchRuns(r) ==
    /\ launch[r] = "linked" /\ enabled /\ r \in current
    /\ Save(r, "running")
    /\ launch' = [launch EXCEPT ![r] = "running"]
    /\ UNCHANGED <<told, taskVars, lockVars, scanVars, capture, due, stopping, restVars>>

LaunchSends(r) ==
    /\ launch[r] = "running"
    /\ SendPrompt(r)
    /\ launch' = [launch EXCEPT ![r] = "no"]
    /\ lock' = lock \ {r}
    /\ UNCHANGED <<fileVars, answered, botLock, scanVars, capture, due, stopping, restVars>>

LaunchFails(r) ==
    /\ launch[r] # "no"
    /\ SaveResult(r, "ready", "failed")
    /\ launch' = [launch EXCEPT ![r] = "no"]
    /\ lock' = lock \ {r}
    /\ UNCHANGED <<told, taskVars, botLock, scanVars, capture, due, stopping, restVars>>

\* adoptUserCodeTask: a task of the user's that is working.
Adopt(r) ==
    /\ r \in Launched /\ chain[r] = <<User>>
    /\ rec[r].state = "none"
    /\ rec' = [rec EXCEPT ![r].state = "running", ![r].task = TRUE, ![r].supervision = TRUE]
    /\ UNCHANGED <<told, taskVars, lockVars, scanVars, launch, capture, due, stopping, restVars>>

\* releaseUserCodeTask does not take the request lock.
Release(r) ==
    /\ rec[r].supervision /\ Active(r)
    /\ Save(r, "cancelled")
    /\ UNCHANGED <<told, taskVars, lockVars, scanVars, launch, capture, due, stopping, restVars>>

\* queueBotCodePrompt
QueuePrompt(i) ==
    /\ i \in Interventions /\ rec[i].state = "none"
    /\ rec[Code(i)].task
    /\ rec' = [rec EXCEPT ![i].state = "queued", ![i].task = TRUE]
    /\ UNCHANGED <<told, taskVars, lockVars, scanVars, launch, capture, due, stopping, restVars>>

-----------------------------------------------------------------------------
(* The Code task                                                           *)

\* The user prompts the task from its own screen; modelled once its own request is settled
\* and while an instruction waits for a turn of it.
UserPrompts(t) ==
    /\ Final(t) /\ chain[t] = <<>>
    /\ \E i \in Interventions : Code(i) = t /\ rec[i].state \in {"queued", "starting"}
    /\ chain' = [chain EXCEPT ![t] = <<User>>]
    /\ UNCHANGED <<fileVars, answered, prompts, lockVars, scanVars, launch, capture, due,
                   stopping, restVars>>

\* The prompt's own finally asks for the completion of its request, unless
\* the hang watchdog is resolving it.
CodeTurnEnds(t) ==
    /\ chain[t] # <<>>
    /\ chain' = [chain EXCEPT ![t] = Tail(@)]
    /\ answered' \in {answered \cup {t}, answered \ {t}}
    /\ due' \in {due, due \cup ({Head(chain[t])} \cap Launched)}
    /\ UNCHANGED <<fileVars, prompts, lockVars, scanVars, launch, capture, stopping, restVars>>

\* abortTask: the turn and every queued prompt of the task go.
AbortTurn(t) ==
    /\ chain' = [chain EXCEPT ![t] = <<>>]
    /\ answered' = IF chain[t] = <<>> THEN answered ELSE answered \ {t}

-----------------------------------------------------------------------------
(* captureResult and complete                                              *)

\* codeResultOutcome: the user's stop before what the task says; an abort, an
\* error and a run without an answer are one.
Outcome(r) ==
    IF rec[r].stopped THEN "stopped" ELSE IF r \in answered THEN "done" ELSE "failed"

\* The messages of the task have been read: the result is written.
Captured(r) ==
    /\ capture[r] # "no"
    /\ SaveResult(r, "ready", Outcome(r))
    /\ scan' = IF capture[r] = "scan" THEN [scan EXCEPT ![r] = "deliver"] ELSE scan
    /\ due' = IF capture[r] = "complete" THEN due \ {r} ELSE due
    /\ capture' = [capture EXCEPT ![r] = "no"]
    /\ lock' = lock \ {r}
    /\ UNCHANGED <<told, taskVars, botLock, copy, reports, launch, stopping, restVars>>

\* codeCompletionAction
Complete(r) ==
    /\ r \in due /\ capture[r] # "complete" /\ ~Locked(r)
    /\ \/ /\ rec[r].state = "running"
          /\ capture' = [capture EXCEPT ![r] = "complete"]
          /\ lock' = lock \cup {r}
          /\ UNCHANGED <<rec, due>>
       \/ /\ rec[r].stopped /\ rec[r].state \in {"starting", "ready"}
          /\ SaveResult(r, "ready", "stopped")
          /\ due' = due \ {r}
          /\ UNCHANGED <<capture, lock>>
       \/ /\ rec[r].state # "running"
          /\ ~(rec[r].stopped /\ rec[r].state \in {"starting", "ready"})
          /\ due' = due \ {r}
          /\ UNCHANGED <<rec, capture, lock>>
    /\ UNCHANGED <<told, taskVars, botLock, scanVars, launch, stopping, restVars>>

-----------------------------------------------------------------------------
(* stopBotCodeRequest and cancelRequests                                   *)

StopRequest(r) ==
    /\ r \in Launched /\ Active(r) /\ ~Locked(r) /\ stopping[r] = "no"
    /\ ~rec[r].stopped
    /\ rec' = [rec EXCEPT ![r].stopped = TRUE,
                          ![r].result = IF rec[r].state = "ready" THEN "stopped" ELSE @,
                          ![r].state = IF rec[r].task THEN @ ELSE "cancelled"]
    /\ stopping' = [stopping EXCEPT ![r] = IF rec[r].task THEN "stop" ELSE "no"]
    /\ UNCHANGED <<told, taskVars, lockVars, scanVars, launch, capture, due, restVars>>

\* A reverted or reset conversation has no context to report into, and that of a Bot
\* that is deleted or disabled none either.
Cancel(r) ==
    /\ Active(r) /\ ~Locked(r) /\ stopping[r] = "no"
    /\ Save(r, "cancelled")
    /\ stopping' = [stopping EXCEPT ![r] =
                       IF rec[r].task /\ rec[r].state # "queued" THEN "cancel" ELSE "no"]
    /\ UNCHANGED <<told, taskVars, lockVars, scanVars, launch, capture, due, restVars>>

\* The caller aborts the Code task; after a stop it completes the request
\* even when the abort has failed.
StopAborts(r) ==
    /\ stopping[r] # "no"
    /\ AbortTurn(Code(r)) \/ UNCHANGED <<chain, answered>>
    /\ stopping' = [stopping EXCEPT ![r] = "no"]
    /\ due' = IF stopping[r] = "stop" THEN due \cup {r} ELSE due
    /\ UNCHANGED <<fileVars, prompts, lockVars, scanVars, launch, capture, restVars>>

\* The Bot is disabled, or its 1:1 task archived; modelled while no Room's turn is over.
Disable ==
    /\ enabled /\ \E r \in Requests : Active(r)
    /\ current = Launched
    /\ enabled' = FALSE
    /\ UNCHANGED <<fileVars, taskVars, lockVars, scanVars, launch, capture, due, stopping,
                   current, crashes, faults>>

\* A newer turn of the Room supersedes the request; a task of the user's is none of a Room's.
Supersede(r) ==
    /\ enabled /\ r \in current /\ Active(r) /\ ~rec[r].supervision
    /\ current' = current \ {r}
    /\ UNCHANGED <<fileVars, taskVars, lockVars, scanVars, launch, capture, due, stopping,
                   enabled, crashes, faults>>

-----------------------------------------------------------------------------
(* tick and processRequest                                                 *)

\* One scan at a time, over the requests that are active when it starts.
TickBegins ==
    /\ \A r \in Requests : scan[r] = "idle"
    /\ \E r \in Requests : Active(r)
    /\ scan' = [r \in Requests |-> IF Active(r) THEN "todo" ELSE "idle"]
    /\ UNCHANGED <<fileVars, taskVars, lockVars, copy, reports, launch, capture, due,
                   stopping, restVars>>

ScanTo(r, at) == scan' = [scan EXCEPT ![r] = at]

\* The request lock or the Bot's is not free within ten seconds.
LockTimesOut(r) ==
    /\ \/ scan[r] = "todo" /\ Locked(r)
       \/ scan[r] = "deliver" /\ botLock # NoRequest
       \/ scan[r] = "confirming" /\ Locked(r)
    /\ ScanTo(r, "idle")
    /\ botLock' = IF botLock = r THEN NoRequest ELSE botLock
    /\ copy' = [copy EXCEPT ![r] = "none"]
    /\ UNCHANGED <<fileVars, taskVars, lock, reports, launch, capture, due, stopping, restVars>>

\* A row that has nobody to report to any more is cancelled; an instruction is none of a
\* Room's.
Heard(r) == enabled /\ (r \in Launched => r \in current)

ScanSuperseded(r) ==
    /\ scan[r] = "todo" /\ ~Locked(r) /\ Active(r) /\ ~Heard(r)
    /\ Save(r, "cancelled")
    /\ IF rec[r].task /\ rec[r].state # "queued"
       THEN ScanTo(r, "aborting") /\ lock' = lock \cup {r}
       ELSE ScanTo(r, "idle") /\ UNCHANGED lock
    /\ UNCHANGED <<told, taskVars, botLock, copy, reports, launch, capture, due, stopping, restVars>>

ScanAborts(r) ==
    /\ scan[r] = "aborting"
    /\ AbortTurn(Code(r)) \/ UNCHANGED <<chain, answered>>
    /\ ScanTo(r, "idle")
    /\ lock' = lock \ {r}
    /\ UNCHANGED <<fileVars, prompts, botLock, copy, reports, launch, capture, due,
                   stopping, restVars>>

\* What is found starting without a launch was interrupted: it is not run again.
ScanInterrupted(r) ==
    /\ rec[r].state = "starting" /\ rec[r].task /\ ~Busy(Code(r))
    /\ SaveResult(r, "ready", IF rec[r].stopped THEN "stopped" ELSE "failed")
    /\ ScanTo(r, "deliver")
    /\ UNCHANGED <<capture, lock>>

ScanEnded(r) ==
    /\ rec[r].state = "running" /\ ~Busy(Code(r))
    /\ IF rec[r].stopped
       THEN /\ SaveResult(r, "ready", "stopped")
            /\ ScanTo(r, "deliver")
            /\ UNCHANGED <<capture, lock>>
       ELSE /\ capture' = [capture EXCEPT ![r] = "scan"]
            /\ ScanTo(r, "capturing")
            /\ lock' = lock \cup {r}
            /\ UNCHANGED rec

\* Nothing to do under the request lock: a ready row goes on to its delivery.
ScanPasses(r) ==
    /\ \/ rec[r].state \in {"none", "ready", "delivered", "cancelled"}
       \/ rec[r].state \in {"starting", "running"} /\ (~rec[r].task \/ Busy(Code(r)))
    /\ ScanTo(r, "deliver")
    /\ UNCHANGED <<rec, capture, lock>>

ScanRequest(r) ==
    /\ r \in Launched /\ scan[r] = "todo" /\ ~Locked(r)
    /\ ~Active(r) \/ Heard(r)
    /\ ScanInterrupted(r) \/ ScanEnded(r) \/ ScanPasses(r)
    /\ UNCHANGED <<told, taskVars, botLock, copy, reports, launch, due, stopping, restVars>>

-----------------------------------------------------------------------------
(* dispatchUserIntervention                                                *)

\* Only the owner of the task's lease prompts: while a turn runs, or by chance
\* while the session is opened.  A row a crash left starting is queued again,
\* but not while the task is busy.
DispatchableNever(i) == FALSE                                     \* (mutant)
Dispatchable(i) == Active(i) /\ (rec[i].state = "starting" => ~Busy(Code(i)))
Owned(i) == chain[Code(i)] # <<>>

Dispatch(i) ==
    /\ i \in Interventions /\ scan[i] = "todo" /\ ~Locked(i)
    /\ ~Active(i) \/ Heard(i)
    /\ \/ /\ Dispatchable(i)
          /\ Save(i, "starting")
          /\ ScanTo(i, "sending")
          /\ lock' = lock \cup {i}
       \/ /\ ~(Dispatchable(i) /\ Owned(i))
          /\ ScanTo(i, "idle")
          /\ UNCHANGED <<rec, lock>>
    /\ UNCHANGED <<told, taskVars, botLock, copy, reports, launch, capture, due, stopping, restVars>>

DispatchSends(i) ==
    /\ scan[i] = "sending"
    /\ SendPrompt(i)
    /\ ScanTo(i, "sent")
    /\ UNCHANGED <<fileVars, answered, lockVars, copy, reports, launch, capture, due,
                   stopping, restVars>>

\* codeDispatchResultState
DispatchResult(succeeded) == IF succeeded THEN "delivered" ELSE "queued"

DispatchEnds(i) ==
    /\ \/ scan[i] = "sent" /\ UNCHANGED faults
       \/ scan[i] = "sending" /\ Fault
    /\ Save(i, DispatchResult(scan[i] = "sent"))
    /\ ScanTo(i, "idle")
    /\ lock' = lock \ {i}
    /\ UNCHANGED <<told, taskVars, botLock, copy, reports, launch, capture, due, stopping,
                   enabled, current, crashes>>

-----------------------------------------------------------------------------
(* The delivery, under the Bot's lock                                      *)

Deliverable(r) == rec[r].state = "ready" /\ r \in current

\* Nothing to deliver, a Room turn that is over, a conversation that is busy, or the
\* backoff.  The owner of the request is not looked at again.
DeliveryRefused(r) ==
    /\ scan[r] = "deliver" /\ botLock = NoRequest
    /\ IF Deliverable(r) THEN Fault ELSE UNCHANGED faults
    /\ rec' = IF rec[r].state = "ready" /\ r \notin current
              THEN [rec EXCEPT ![r].state = "cancelled"] ELSE rec
    /\ ScanTo(r, "idle")
    /\ UNCHANGED <<told, taskVars, lockVars, copy, reports, launch, capture, due, stopping,
                   enabled, current, crashes>>

\* A stop that landed while this waited for the lock is what is reported.
DeliveryBegins(r) ==
    /\ scan[r] = "deliver" /\ botLock = NoRequest /\ Deliverable(r)
    /\ LET result == IF rec[r].stopped THEN "stopped" ELSE rec[r].result IN
       /\ rec' = [rec EXCEPT ![r].result = result]
       /\ copy' = [copy EXCEPT ![r] = result]
    /\ botLock' = r
    /\ ScanTo(r, "reporting")
    /\ UNCHANGED <<told, taskVars, lock, reports, launch, capture, due, stopping, restVars>>

\* hasBotCodeReport: an answered report is not asked for again.
HasReportNever(r) == FALSE                                        \* (mutant)
HasReport(r) == told[r] # "none"

Report(r) ==
    /\ scan[r] = "reporting"
    /\ \/ /\ HasReport(r)
          /\ UNCHANGED <<told, reports>>
       \/ /\ ~HasReport(r)
          /\ told' = [told EXCEPT ![r] = copy[r]]
          /\ reports' = [reports EXCEPT ![r] = @ + 1]
    /\ ScanTo(r, "confirming")
    /\ UNCHANGED <<rec, taskVars, lockVars, copy, launch, capture, due, stopping, restVars>>

\* The Bot's turn gave no answer, or its session cannot be opened.
ReportFails(r) ==
    /\ scan[r] = "reporting" /\ Fault
    /\ ScanTo(r, "idle")
    /\ botLock' = NoRequest
    /\ copy' = [copy EXCEPT ![r] = "none"]
    /\ UNCHANGED <<fileVars, taskVars, lock, reports, launch, capture, due, stopping,
                   enabled, current, crashes>>

\* The row is read again under its own lock before it is marked delivered.
ConfirmsStale(r) == [rec[r] EXCEPT !.state = "delivered", !.result = copy[r]]  \* (mutant)
Confirmed(r) ==
    IF Final(r) THEN rec[r]
    ELSE [rec[r] EXCEPT !.state = "delivered",
                        !.result = IF rec[r].stopped THEN "stopped" ELSE @]

Confirm(r) ==
    /\ scan[r] = "confirming" /\ ~Locked(r)
    /\ rec' = [rec EXCEPT ![r] = Confirmed(r)]
    /\ ScanTo(r, "idle")
    /\ botLock' = NoRequest
    /\ copy' = [copy EXCEPT ![r] = "none"]
    /\ UNCHANGED <<told, taskVars, lock, reports, launch, capture, due, stopping, restVars>>

-----------------------------------------------------------------------------
\* The process dies and starts again: turns and operations are gone.
Crash ==
    /\ crashes < MaxCrashes /\ crashes' = crashes + 1
    /\ answered' = {t \in answered : chain[t] = <<>>}
    /\ chain' = [t \in Launched |-> <<>>]
    /\ lock' = {} /\ botLock' = NoRequest /\ due' = {}
    /\ launch' = [r \in Requests |-> "no"]
    /\ scan' = [r \in Requests |-> "idle"]
    /\ capture' = [r \in Requests |-> "no"]
    /\ stopping' = [r \in Requests |-> "no"]
    /\ copy' = [r \in Requests |-> "none"]
    /\ UNCHANGED <<fileVars, prompts, enabled, current, reports, faults>>

LaunchStep(r) == LaunchLinks(r) \/ LaunchRuns(r) \/ LaunchSends(r) \/ LaunchFails(r)
ScanStep(r) ==
    \/ ScanSuperseded(r) \/ ScanAborts(r) \/ ScanRequest(r)
    \/ Dispatch(r) \/ DispatchSends(r) \/ DispatchEnds(r)
    \/ DeliveryRefused(r) \/ DeliveryBegins(r) \/ Report(r) \/ ReportFails(r) \/ Confirm(r)
    \/ LockTimesOut(r)

RelayNext ==
    \/ TickBegins \/ Disable \/ Crash
    \/ \E t \in Launched : UserPrompts(t) \/ CodeTurnEnds(t)
    \/ \E r \in Requests :
          \/ LaunchBegins(r) \/ LaunchStep(r) \/ Adopt(r) \/ Release(r) \/ QueuePrompt(r)
          \/ Captured(r) \/ Complete(r) \/ StopRequest(r) \/ Cancel(r) \/ StopAborts(r)
          \/ Supersede(r) \/ ScanStep(r)

\* The relay ticks and goes through a scan, turns end, and promises under way settle.
RelayFairness ==
    /\ WF_relayVars(TickBegins \/ \E r \in Requests : ScanStep(r))
    /\ WF_relayVars(\E t \in Launched : CodeTurnEnds(t))
    /\ WF_relayVars(\E r \in Requests : LaunchStep(r) \/ StopAborts(r) \/ Complete(r) \/ Captured(r))

RelaySpec == RelayInit /\ [][RelayNext]_relayVars
LiveRelaySpec == RelaySpec /\ RelayFairness

-----------------------------------------------------------------------------
RelayTypeOK ==
    /\ rec \in [Requests -> [state : States, stopped : BOOLEAN, task : BOOLEAN,
                             supervision : BOOLEAN, result : Outcomes]]
    /\ told \in [Requests -> Outcomes] /\ copy \in [Requests -> Outcomes]
    /\ answered \subseteq Launched
    /\ chain \in [Launched -> Seq(Requests \cup {User})]
    /\ enabled \in BOOLEAN /\ current \subseteq Launched
    /\ lock \subseteq Requests /\ botLock \in Requests \cup {NoRequest}
    /\ launch \in [Requests -> {"no", "creating", "linked", "running"}]
    /\ scan \in [Requests -> {"idle", "todo", "capturing", "aborting", "sending", "sent",
                              "deliver", "reporting", "confirming"}]
    /\ capture \in [Requests -> {"no", "scan", "complete"}]
    /\ due \subseteq Launched
    /\ stopping \in [Requests -> {"no", "stop", "cancel"}]
    /\ prompts \in [Requests -> Nat] /\ reports \in [Requests -> Nat]
    /\ crashes \in 0..MaxCrashes /\ faults \in 0..MaxFaults

\* A Bot's request is delivered only once the Bot has reported it, and its row then
\* holds the result that was reported; but a stop of the user is never recorded as a
\* success, even when it lands while the report is on its way (markUserStoppedResult,
\* the second read before "delivered").
DeliveredAsTold ==
    \A r \in Launched : rec[r].state = "delivered" =>
        /\ told[r] # "none"
        /\ rec[r].result = IF rec[r].stopped THEN "stopped" ELSE told[r]

\* A settled request stays settled: no late launch, capture or delivery brings
\* it back, but for a capture that was reading the messages while the user
\* took the task back, which takes no request lock (shouldConfirmCodeDelivery).
FinalStaysFinal ==
    [][\A r \in Requests : Final(r) /\ ~(rec[r].supervision /\ capture[r] # "no")
         => rec'[r].state = rec[r].state]_relayVars

\* Nothing is sent twice: a Bot's request prompts Code once, over all restarts;
\* a user's instruction is sent again only after a crash; a result that the Bot
\* has reported is not reported again (hasBotCodeReport, codeDispatchResultState).
NothingSentTwice ==
    /\ RelayTypeOK
    /\ \A r \in Launched : prompts[r] <= 1 /\ reports[r] <= 1
    /\ \A i \in Interventions : prompts[i] <= 1 + crashes

\* A Bot's request is settled in the end, unless a crash left it starting with no task.  A
\* user's instruction is settled if ticks go on finding it queued while this process runs a
\* turn of its task (processRequest, dispatchUserIntervention); one that a crash left
\* starting is not: the lease it waits for goes with the turn that keeps the task busy.
LostByCrash(r) == rec[r].state = "starting" /\ ~rec[r].task /\ launch[r] = "no"
DispatchOwned(i) == Dispatch(i) /\ Owned(i) /\ rec[i].state = "queued"
EveryRequestSettles ==
    /\ \A r \in Launched : Active(r) ~> Final(r) \/ LostByCrash(r)
    /\ \A i \in Interventions : []<><<DispatchOwned(i)>>_relayVars => <>Final(i)
=============================================================================
