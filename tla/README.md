# LeafCodePi: verification of the Backend core

LeafCodePi runs coding-agent sessions ("tasks") for a browser. Its Backend is one Node.js process
that owns the *runtime*: it opens SDK sessions, prompts them, asks the user for permissions, and
persists everything in a data directory that other processes (an old Backend that still drains, a
second one being started, attached clients of the runtime) read and write at the same time. What is
hard in it is not any single handler but who may run a task, when two processes or two promises
believe they do, and what happens to a task whose process dies.

This directory holds TLA+ modules translated from that code, the TLC configurations that check them
and TLAPS proofs. `PROJECT.json` maps every definition to the lines it models.

    tlc -workers 2 -config TaskLease.cfg MCTaskLease      # one run
    tlapm ReclaimLockProofs.tla                           # one proof module

## 1. Inventory

| component | source | state | operations | status |
|---|---|---|---|---|
| task runtime lease | `backend/core/task-runtime-lease.mjs` | a lease file per task, a reclaim lock beside it, per-process owned tasks, heartbeat failures, two backlogs | acquire, heartbeat, lose, release, guarded session write, reconcile orphans, listeners | modelled: `ReclaimLock`, `TaskLease` |
| directory lock | `backend/core/directory-lock.mjs` | a lock directory with an `owner` file | acquire, heartbeat thread, take over, release | modelled: `DirectoryLock` |
| runtime owner slot | `backend/core/runtime-owner-lock.mjs` | `runtime-owner.json` | claim, judge, replace, release | modelled: `RuntimeOwner` |
| pending user decisions | `backend/core/pending-prompts.mjs` | a queue per task, an index by id, timers | request, join, answer, time out, clear, dispose | modelled: `PendingPrompts` |
| restart resume, startup | `backend/core/restart-resume.mjs`, `backend/core/runtime-startup.mjs`, `backend/src/startup.mjs`, `backend/src/entry.mjs` | orphan listener, delayed resumes, `restart-resume.json` | register, reconcile, schedule, spend the budget, prompt, stop | partly: `RestartResume` |
| live session lifecycle | `backend/core/live-lifecycle.mjs`, `backend/runtime-src/lib/pi/harness.ts` | registry of live sessions, generations, in-flight attempts, retirements, promotions | ensure, create, attach, discard, retire, promote, archive, destroy | partly: `LiveSession` |
| abort coordinator | `backend/core/abort-coordinator.mjs` | none of its own: the task row, its lease, the hang watch | user abort, hang abort | modelled: `TurnControl` |
| prompt control, hang watchdog | `harness.ts`, `lib/pi/hang-watchdog.ts`, `task-operation-guard.ts` | preparation generation, prompt epoch, prompt chain, hang watches | prompt, queue, run, stop, resolve a hang, recover a transport | partly: `TurnControl` |
| application store | `backend/core/app-store.mjs`, `file-lock.mjs` | `store.json`, its cache, a transaction and two lock directories | read, mutate, lock, take over | partly: `FileLock`, `AppStore`, `AtomicStore` |
| Bot Code requests and relay | `backend/core/bot-code-request.mjs`, `lib/pi/bot-code-relay.ts` | a file per request, its lock, the Bot's lock, the prompt chain of a Code task | queue, launch, capture, report, confirm, stop, cancel, instruct | partly: `BotCodeRelay` |
| Goal Loop | `extensions/leafcode-goal-loop/index.ts` | the loop file, a Runtime per session, the transcript | start, pause, resume, stop, complete; schedule, prepare, send, settle, time out, recover | partly: `GoalLoop` |
| Rooms, routine scheduler, runtime host, account runtimes, keyed serializer | `backend/core`, `backend/src` | small | | planned (section 8) |
| event streams, peer authentication, native MCP, JSON handlers | `backend` | | | not modelled |
| web, gateway, host, shared types, other extensions, skills, scripts | | | | not modelled |

How they interact. A Backend claims the **runtime owner slot** (under a **directory lock**), then
registers the **restart-resume** listener and reconciles: a task that is `working` without an active
**lease** is marked as an orphan and, after a delay and within a persisted budget (under a directory
lock), prompted again. Prompting needs a **live session**, which takes the task's lease while it is
created. A running session asks through the **pending decisions**, and each of its writes goes
through the **reclaim lock** so that no other process takes the lease over in the middle of it. Its
turns come from a **prompt chain** that the user's Stop, the **hang watchdog** and the transport
recovery race for; a **Goal Loop** sends turns of its own into the same session, and a Bot hands work
to a Code task through the **relay**. Task rows, settings and the rest live in the **application
store**.

The properties each of them has to have are in section 3, beside the runs that check them.

### What is hard

* Processes interleave at every file system call, and a pid outlives the process it named.
* Takeover: a lock or lease may be taken from a dead or stalled owner by several contenders at once.
* Promises interleave at every `await`: a generation read before it is stale after it.
* Crashes between two persisted steps; a stop that gives the slot up while turns run on.
* Timers racing answers; clocks that stand still for a blocked process.
* One turn that several parties may end, retry or count: a Stop, the watchdog, a settlement that comes
  late, a restart that finds half of it on disk.

## 2. The modules

`ReclaimLock` — `#takeReclaimLock`, the two sections it guards and its release, one file system call
per step: create or rename the prepared directory, stat, read the owner, judge it, read it again, set
the lock aside under a tombstone named after the owner record, and the two steps of the release. A
process is an *incarnation*; `Pid` says under which pid it runs, so a pid may be reused; `key` is the
process start key, or `NoKey` where it could not be read. `ExclusiveSection` is the abstract
specification it implements: one process inside at a time, death frees the section.

`TaskLease` — the lease file of one task, with the reclaim lock as the set `section`. An operation is
a sequence of labelled steps at its file operations. The lease carries the age of its `heartbeatAt`
and of its modification time in ticks of HEARTBEAT_MS; `drift` is how old the clock reading is that
an operation will write. What callers do on the strength of a lease is `running` and `status`; every
worker acquires again at the `agent_start` of its turns, and for a session write when it has lost the
lease (`temporary`: that lease is given back after the write). A `setup`, chosen at the start among the
constant `Setups`, says under which pid each worker runs, which are `starting` at all, whose heartbeat
writes are `failing`, which may be `listening` to lost leases (the runtime installs no listener), which
are `reconciling`, and at which steps a process may be held up (`stallAt`). Two histories name what the
properties need: `lost`, the worker has given its lease up and published none since but for a write;
and `late`, somebody has set out without the reclaim lock to refresh or remove a record of its own that
is already stale, or to remove an orphan's (section 6).

`DirectoryLock` — `withDirectoryLock` and its asynchronous twin: mkdir, write the owner, read, stat,
read again, remove, wait; the action; read and remove. The age of the lock is one of the four the
code tells apart. `RuntimeOwner` EXTENDS it: `acquireRuntimeOwner` is the action of that lock, read,
judge, remove, create, fill, and the release at exit.

`PendingPrompts` — one service; the permission and the question service are two instances. A call of
`handleRequest` stands for its row and its promise. Every method is one step of the event loop.

`RestartResume` — several Backends over one data directory: start, registration of the listener (with
the orphans already on disk), reconciliation, the delayed resume (judge the row, take the budget
lock, read, set aside a corrupt file, spend, prompt), stop and crash; users start, prompt and stop
turns meanwhile, and an attached runtime reconciles through a lease service of its own. `missed` is a
history: the tasks whose orphaned lease looked active to the one reconciliation of a start, because the
pid in it was in use again.

`LiveSession` — one task in one process. A call of `ensureLive` is a pair, caller and number of the
retry; a retry is a call made *inside* the attempt of the call before it. A session bears the name of
the call that created it. `settings` is the version of the task record: route, agent, directory,
session file. Promise continuations run before the next event: `Event` waits until `Continuation` is
not ready. `races` is a history of two known races (section 6).

`TurnControl` — one task in the process that owns the runtime. A request is drafted
(`beginTaskPreparation`), accepted into the serial chain, prepared, handed to the SDK, and settled; what
happens between two awaits is one action. `stop` is the user's Stop in flight and `hang` the watchdog's
`resolveHang`, each with the awaits at which a newer prompt can overtake it; `watch` is the hang watch
row. The SDK is external: an aborted turn ends at some time, in any way a turn ends, or the abort is
rejected and the turn goes on. `cut` stands for the prompt epochs: the prompts accepted up to it carry
an older one. `born` is a history, the number of Stops there had been when the user asked for what a
prompt sends; it is raised when a turn outlives the Stop, by a rejected abort or by a transport that
breaks after the signal.

`FileLock` — the SQLite transaction and the two directories of `withFileLock`, one system call per step,
with a crash between any two and a release whose calls may throw. `AppStore` EXTENDS it: the update
(strict first read, second read, change in place, write, stat) and the cached reads of several
processes; a file's times, size and inode are one *stamp*, which may come back. `AtomicStore` is the
abstract register it implements.

`BotCodeRelay` — the request files, their locks, the tick that scans them, launch, capture, report
and confirmation, the Code task's chain of prompts, stop and cancel of the user, crashes and
restarts. Whoever asked may lose its say in two ways: the Bot is disabled (`enabled`), or its turn in
a Room is superseded (`current`); delivery asks for the second only. A Bot's transcript (`told`)
survives a crash, everything else but the files does not.

`GoalLoop` — one session. `file` is the loop on disk, `loop` what `hydrateLoop` makes of it; `rt` the
Runtime; `run` the SDK run; `preps` the `sendTurn` calls that wait for the host, `stale` those of a
loop that was replaced since; `log` what the transcript shows after the newest prompt of each turn
number. Every handler, command, timer and the watchdog is an action; every write of the loop file may
fail. A runtime may end by a crash, a `session_shutdown` or a reload in place.

Definitions marked `(mutant)` are deliberately wrong versions of the definition that follows; no
specification uses them. They are there to show that the properties notice.

## 3. The runs

Every bound is a constant of the module, named in its cfg.

| run | bounds | what it shows |
|---|---|---|
| `reclaim_lock` | three incarnations, two of them in turn under one pid | `QuarantineExact` (a tombstone holds the dead owner's own record), `HolderKeepsLock`, `ImplementsSection` (refinement), `CrashedOwnerRetired` (liveness) |
| `task_lease` | three workers, stale after 4 ticks, 3 failures, 2 attempts; three setups: nobody listens, one worker's heartbeats fail and another has its pid; two workers under one pid, of which one listens and the other reconciles; two workers whose session writes take any time, one of which reconciles | `OwnerFenced`, `SingleRunner` (paced), `FreshLeaseKept`, `WriteFenced` (orderly), `OrphanReported` (liveness) |
| `directory_lock` | three processes, a shared pid, a slow one with and one without heartbeat, failing owner writes, one retry | `MutualExclusion`, `LiveOwnerKept` while nobody died, `CrashedOwnerReplaced` (liveness) |
| `runtime_owner` | three processes, a shared pid, one that may die inside a claim | `SingleOwner` until that happens, `OwnerReplaced` (liveness) whatever happens |
| `pending_prompts` | five calls, three sessions, two tasks, two ids, a timeout of two ticks | `RowsAccounted`, `HeadAttended`, `AnswerNamesRequest`, `EveryRequestDecided` (liveness) |
| `restart_resume` | three Backends, two that crash or are stopped, one whose pid is reused, two tasks, a budget of one | `ResendsBudgeted`, `OrphanOffered` (liveness) |
| `live_session` | two callers and a promotion, two retries each, two generations | `LiveCurrent`, `SettingsKept`, `NothingLeftBehind`, `EnsureSettles` (liveness) |
| `turn_control` | two requests, four prompts, two Stops, one broken transport, one rejected abort, one hang retry | `RetriesBounded`, `StopIsFinal`, `HangAbortSparesNewer`, `LeaseOutlivesAbortedTurn`, `ChainDrains` (liveness) |
| `bot_code` | a Bot's request and an instruction of the user, one crash, one fault, two prompts of the user per chain | `DeliveredAsTold`, `NothingSentTwice`, `FinalStaysFinal`, `EveryRequestSettles` (liveness) |
| `app_store` | two processes, one of which also reads, two records, two stamps, two faults | `CacheCurrent`, `ImplementsAtomicStore` (refinement), `LeftoverRemoved` (liveness) |
| `goal_loop` | budgets of one and two turns, full runs and verified ones, one transport retry, three events (commands, turns of the user, failed runs, aborts, restarts, failed writes) | `ResultsCounted`, `UserHeeded`, `CompletionVerified`, `LoopEnds` (liveness) |
| `goal_loop_closed` | a full run of two turns, two events | **violation** of `ClosedStaysClosed` |

Why the bounds are enough. Takeovers need an owner and two contenders: three processes; pid reuse needs
two incarnations on one pid beside a third process. Stale = 4 and MaxFailures = 3 are the code's own
numbers (60 s and 3 heartbeats of 15 s); MaxAttempts, 4 in the code, is 2: a try that fails and the last
one. Five calls under two ids hold a queue of two, a join, a collision within a task and one across
tasks, and a reused id. A budget of one already has its boundary, a spent and an unspent attempt, two
contenders for the last and a window that passes. Two generations make an attempt stale while its retry
is stale again; two retries let that happen before the bound cuts in. Two requests, two Stops and a hang
retry put an old, a stopped and a newer turn side by side, a second Stop meets the turn that survived a
rejected first one, and four prompts hold both requests, a retry by the watchdog and a recovery of the
transport: where the bound is near, it leaves a recovery its place (`Room`). A request and an
instruction for its Code task are the smallest pair that share a chain; of disabling the Bot and
superseding its turn a run holds one, each being enough to cancel. Two processes over one store suffice
for a stale cache and for a lock left behind by each. A Goal Loop of two turns has a first, a last and a
repeated turn; three events hold a start, a disturbance and the user's answer to it. A bound of retries
or attempts is a guard, never a hidden success: where it is reached the call stays where it is, or, for
`MaxAttempts` of the locks, gives up as the code does.

`CHECK_DEADLOCK FALSE` appears everywhere because every system here may come to rest: incarnations,
calls, requests and generations are used up.

### Fairness

* A synchronous operation under way runs to its end; a timer that is due fires (`WF` of steps and
  ticks). The Node.js event loop gives both. In `TaskLease` time passes however busy the processes
  are (`SF` of `Tick`, which runs between operations).
* Somebody asks again: the relay and the hang watchdog sweep periodically (`Steady` in `ReclaimLock`),
  immortal processes claim again (`DirectoryLock`), every session attach, prompt and relay status
  begins with a reconciliation (`SF` of `ReconcileReads`: it runs between operations), the Host starts
  a Backend whenever the slot is free.
* Ages grow while contenders sleep between attempts (`SF` of `LockAges`: the age advances only in
  states in which no process is between two file operations, and those recur).
* In `RuntimeOwner`, a process that has just made its directory does not for ever find it removed
  (`SF` of `WriteOwner`): attempts are milliseconds apart and writes are not. Without it TLC finds two
  claimers that undo each other's directory in turn, for ever.
* In `LiveSession`, one weak fairness on "a continuation, or the completion of something under way".
  No user request is fair.
* In `TurnControl`, continuations run, a turn that is not hung ends, an abort that was signalled is
  answered, and the watchdog's tick comes round (one weak fairness for the process, one for the
  watchdog). No request, Stop or fault is fair, and a hung turn ends only if somebody aborts it.
* In `BotCodeRelay`, the relay's tick recurs and scans on; turns of a Code task end; what a launch, an
  abort, a capture or a report waits for is answered (one weak fairness each). That a tick finds an
  instruction queued in a task this process runs is a premise of the property, not fairness.
* In `AppStore`, an update or read under way runs on; some process begins another update for ever
  (`SF`), since only an update looks at the lock; directories age between updates (`SF`).
* In `GoalLoop`, timers and the 15-second watchdog fire; a run nobody disturbs ends and is settled; the
  host in the end prepares a turn instead of answering "retry" for ever (`SF`, `prepareGoalLoopTurn`
  is asked again every 250 ms). Commands, failures and restarts are not fair. The clock of a turn is
  fair only while the session is idle: as long as the SDK streams, it is the run that ends.


## 4. What is proved

For every value of the constants allowed by the modules' assumptions:

* `ReclaimLockProofs`: `TypeCorrect`, `Mutex`, `Exact`, `HolderKeeps`, `Implements`. The inductive
  invariant `IInv` adds to the properties: a process that is down is idle; one running incarnation per
  pid; the record a process is writing is its own and was written by a process that has started; whoever
  is between its rename and the end of its release finds its own record in the lock (or, in the last
  step, none); whoever is about to quarantine has judged an owner that is *dead*, and a record seen is
  accounted for, in the lock or as one that can never come back. The last two are the point: the recheck
  and the rename are two calls, and what makes the second safe is that a dead owner's record, once
  retired, leaves a non-empty tombstone under its own name onto which no later rename of that record
  succeeds. No assumption about the number of processes or pids is made. `Implements` is the refinement
  of `ExclusiveSection`: from the same invariant, a rename that succeeds finds nobody inside, and every
  other step leaves the set of processes inside alone, removes the one that releases, or removes one
  that dies. (`Mutex` is what the refinement amounts to, so no run lists it of its own.)
* `PendingPromptsProofs`: `TypeCorrect`, `QueuesExact` (`RowsAccounted`), `HeadServed`
  (`HeadAttended`), `DecisionOwned` (the part of `RowsAccounted` about callers), `AnswersNamed`. Here
  the conjunction of the checked invariants is inductive; the work is in two lemmas on queues without
  repetition (append a new row, drop the head) and one lemma per method.
* `GoalLoopProofs`, in two parts. The first: `TypeCorrect`, `TurnsBudgeted` (the budget part of
  `ResultsCounted`), `Heeded` (`UserHeeded`), for every budget, bound and imitated result. The
  invariant is type correctness and the budget; the argument is a pair of step relations. A step that
  is not a command `Proceeds`: it leaves the file alone, or it moves a loop that is not over, to one
  within its budget which, where the user had paused it, is at rest again unless a write failed. A
  command is `Commanded`: it keeps the budget and touches a loop that is over only to put another in
  its place. One lemma per operator that makes a loop of a loop, one per runtime operator and one per
  handler.

  The second: `ResultsAreCounted` (`ResultsCounted`) and `CompletionsVerified` (`CompletionVerified`),
  which depend on the transcript and on which run an outcome came from. While a turn is wanted
  (running, to recover, or paused with its result pending), three things may be taken for its result:
  the transcript's entry for its number and kind, the runtime's pending outcome, and the run itself.
  The invariant `HInv` says that each of them is fresh, that is, from a run of the same loop and kind
  that has not been counted; that there are at most as many goal results as turns counted, and
  strictly fewer while a counted turn has no result yet; and that a turn of the user's own shuts off
  the turns before it in the transcript. Every step then carries the turn on or gives its number back,
  settles it with its own result, or begins a new one, and each of the three keeps the history. Two
  conditions are needed, and both are in the statements: no counted prompt was lost (`~spent.lost`,
  which the properties carry too), and no text of the user's own turns imitates a result
  (`Imitated = {}`; the code takes a result from the transcript by its marks alone).
* `TaskSessionProofs`, in two parts. About `TurnControl`: `TypeCorrect`, `StopFinal` (`StopIsFinal`),
  `RetriesAreBounded` (`RetriesBounded`), `NewerTurnSpared` (`HangAbortSparesNewer`),
  `AbortedTurnKeepsLease` (`LeaseOutlivesAbortedTurn`). A Stop is final because everything that may
  still send something is dated by it: the invariant says that a draft of the current generation, a
  prompt after the last cut, a running turn, a watch, and the row a resolution holds while it is the
  current one were all asked for after the last Stop; what is not, is aborted and waited for, or can no
  longer come back. The date of a turn in `aborting` needs the exception of the Stop that waits for it,
  which is where a turn that outlives the Stop enters: by a rejected abort, or by a broken transport.
  Retries are bounded because the watch is always that of the newest prompt and counts back to the last
  one that was no retry; a newer turn is spared because a row that is still the current one is the row
  of the newest prompt.

  About `LiveSession`: `LiveIsCurrent` (`LiveCurrent`), `NothingIsLeftBehind` (`NothingLeftBehind`),
  `SettingsAreKept` (`SettingsKept`), for every set of callers, retries and generations. An attempt
  whose generation is the present one works for a task that is there and has read its present settings:
  every operation that changes either begins a new generation, except the end of a move, which changes
  the settings of the generation the move began. So the invariant also says that during a move every
  attempt is of an older generation and none can get the new one, which is what the `"promotion"` race
  breaks. A session is in somebody's hands from its creation on: without an `"overlap"` the attempts
  exclude each other through `inflight`, none finds a session registered before it attaches its own,
  and a retry is a call nobody had made, so it takes no other's place.

* `AppStoreProofs`: `TypeCorrect`, `OneUpdates`, `DirectoryNamesHolder`, `ServedCacheCurrent`
  (`CacheCurrent`), `Implements` (`ImplementsAtomicStore`). The transaction is the whole of the
  exclusion: whoever is not idle holds it, and the argument uses no directory. What the lock directory
  says follows from it: while a process is in its update the directory names it and is too young to be
  taken over, a record of a living process is of one in its update or was left by a release that
  failed, and a directory that nobody made or holds is there only after a crash or a failed call.
  `Implements` excepts the step `Lapse`, as the property does: every other step is one of the register
  or a stutter. What an update has read is tracked through its stages: at "look"
  the cached text is the file's, at "write" the buffer is one change to the file as it still is (or to
  nothing, when the second look failed), at "stat" it is the file. For readers, text and store of a
  cache agree while no update changes it in place, and its text is the file's where the stamps agree
  and none has come back.

* `ResendProofs`, in two parts. About `RestartResume`: `EveryResendBudgeted` (`ResendsBudgeted`), for
  every number of backends and tasks and every budget. The count in the file is compared with the
  prompts sent and those about to be sent; what makes it inductive is that a resume past the budget lock
  holds it alone, so that the file it will write back is the file it read but for the records past the
  window, and that a task about to be prompted is not past its window: its attempts are still counted
  when the next one is judged.

  About `BotCodeRelay`: `DeliveriesTold` (`DeliveredAsTold`), `NothingIsSentTwice`
  (`NothingSentTwice`), `FinalStays` (`FinalStaysFinal`), for every set of requests, targets and bounds.
  The invariant speaks of one request at a time. A launch, a capture, an instruction on its way and an
  abort hold the request's lock, and the state of the file tells which of them: so an operation that
  writes the file late finds it as it left it, except where the user takes a task back without the lock,
  the exception `FinalStaysFinal` names. A request that has not been written has not been sent, one that
  was launched is never queued again, and an instruction that is not settled, nor between its prompt and
  its record, has been sent at most once per crash. What the relay is
  reporting, and what the Bot has been told, is the result in the row unless the user has stopped or
  cancelled the request since, and nothing captures a request again once it is being reported.

* `RuntimeOwnerProofs`, in two parts. About `LockSpec` of `DirectoryLock`: `LockTypeCorrect`,
  `OneInAction` (`MutualExclusion`), `LiveOwnersKeep` (`LiveOwnerKept`). About `RuntimeOwner`:
  `OwnerTypeCorrect`, `OneOwner` (`SingleOwner`). While no process has died the lock directory exists
  exactly while one process holds it, and names that process once it is written; a lock past the stale
  time has its owner file, and whoever is at its `stat` has read it, so nobody gets as far as removing
  it. The claims of the slot run inside that section, whence no claim reads a half-written record, and
  the record on disk is that of every owner. Once a process dies the removal by path is unsafe (section
  6): the theorems carry the same conditions `NoneDied` and `NoneCareless` as the properties.
  `CarelessAssumption`: a process that may die in the middle of a claim is one that may die at all.
* `TaskLeaseProofs`: `TypeCorrect`, `WritesFenced` (`WriteFenced`), `OwnersFenced` (`OwnerFenced`),
  `OneRunner` (`SingleRunner`), `FreshLeasesKept` (`FreshLeaseKept`), for every set of setups, every
  number of workers and every `MaxFailures < Stale`: whoever listens, fails, reconciles or acquires
  again. The invariant has three layers. At any pace the reclaim lock is held by one worker. Where
  histories are orderly (`Fenced`), what a worker is about to rename over or unlink as its own is its
  own and active, a lease about to be unlinked as stale is one nobody running keeps fresh, and so the
  lease under a session write stays the writer's, however long the write takes. Where no write is held
  up either (`Sound`), what is owned and not lost is held, and its heartbeat is no older than the
  failures counted and the beat under way, hence below the stale limit; whoever runs the task owns it
  or has lost it; and a worker gives up a lease of its own only by losing or by unlinking it.
  `Orderly` and `Paced` condition the theorems exactly as they do the properties.

Every safety property a passing run checks is stated by a theorem. Only model-checked: everything about
liveness and fairness, which is outside the reach of the proof system, and the finding of section 5.

## 5. Findings

One run shows the code disagreeing with what it says of itself; `PROJECT.json` quotes the lines.

`goal_loop_closed`. `hydrateLoop` reads a full-run loop that is completed with turns left as queued,
for the sake of records an older build wrote. `completeLoop` closes a *blocked* loop whatever its
budget ("A blocked loop can be explicitly closed", `index.ts:1875`): when that loop is a full run, the
next read finds it queued, the watchdog schedules it, and another turn is sent. `UserHeeded` of the
passing run does not speak of this case: it takes "closed" as `hydrateLoop` reads it.

## 6. Known limits the passing runs leave out

Where a passing property has an exception, the exception is one of these. They are reached by the
models: drop the condition, or set the constant named, and TLC shows the behaviour.

*Locks and leases*

* The comment at `task-runtime-lease.mjs:113-115` says that the loss of a lease is reported before
  another worker takes the task, "so the caller stops the prompt". Half of it is met: the loss is
  *judged* before the takeover (`OwnerFenced`), but no production caller installs the lease-lost
  listener, so the runner goes on beside the new one until it meets the loss itself, at its next
  `agent_start` or tool (`harness.ts:3053-3061`) or at a refused session write. `SingleRunner` says as
  much: of two runners one has `lost` the lease.
* `stallAt` with `touchWrite` or `unlinkOwn`: a process held up between reading its lease and renaming
  or unlinking it writes over, or removes, the lease of the process that took over meanwhile
  (`task-runtime-lease.mjs:109`, `:346`). Neither step is under the reclaim lock. The same happens
  without a stall where the record is already stale when it is read, as after heartbeats that failed
  (`:320` acquires such a lease again): `late`. `Orderly` and `Paced` leave both out.
* Reconciliation beside anything: it reads, patches and unlinks without a lock (`:395-408`), so it may
  unlink a lease acquired in between, and it opens a takeover in the middle of a guarded write whose
  lease has turned stale, which the reclaim lock is there to prevent (`:278-279`). `late` from the
  moment one has judged a task an orphan; `WriteFenced` and `FreshLeaseKept` leave it out.
* `ReclaimRefused` stands for every way `#takeReclaimLock` does not hand out the lock but a throw, which
  is `AcquireThrows`: the retry that follows is the same.
* `NoneDied` in `DirectoryLock`: two reclaimers that judged the same dead owner; the second removes the
  first one's fresh lock by path (`directory-lock.mjs:146`). A slow action over the hard cap loses its
  lock by design. `Careless` in `RuntimeOwner` is the same weakness one level up
  (`runtime-owner-lock.mjs:96`).

*Sessions and turns*

* `NoneStopped` in `RestartResume`: a Backend that was told to stop gives the slot up while turns run;
  its reconciliations, and those of the attached runtime, whose lease service has no orphan listener,
  then take orphans its successor should have offered.
* `missed` in `RestartResume`: a pid that is in use again keeps an orphan's lease active for 60 s
  (`task-runtime-lease.mjs:87-88`), while a start reconciles once (`startup.mjs:202`). The task is then
  reconciled by the attached runtime, whose lease service has no orphan listener, and is offered only
  by the next Backend. `OrphanOffered` says nothing of such a task.
* In `LiveSession`, the retry of a stale attempt calls `ensureLive` from inside the promise recorded as
  in flight, finds it and waits for it: neither settles and the initialization lease is never released.
  `EnsureSettles` names the two waits of this kind (`JoinsItself`, `JoinsPromotion`) and shows there is
  no third. `races`: `"overlap"`, callers woken by the same promise each start an attempt before the
  first has recorded its own; `"promotion"`, a call that looked for a promotion before there was one
  opens the old directory during the move (`live-lifecycle.mjs:138-144`). `AccountFails`: a session
  whose account runtime cannot be acquired is never disposed (`harness.ts:2821`).
* In `TurnControl`, a Stop sets the task idle and releases its lease after its awaits without asking
  whether a newer prompt has started (`abort-coordinator.mjs:73`); the hang abort, its twin, guards
  against exactly that, so `HangAbortSparesNewer` has no counterpart for a Stop. After a Stop whose
  cleanup overlaps a queued prompt the task may also be working again at once
  (`harness.ts:9999`, `abort-coordinator.mjs:33`). `ChainDrains` excepts a hung turn without a watch:
  one is left when the fallback that judges a watch by its messages disarms it while the prompt is
  still being prepared (`shared/ui/aborted-resume.ts:264`).
* A turn outlives a Stop in two ways: its abort is rejected, or its transport breaks after the signal,
  for `noteWebSocketTransportFailure` (`harness.ts:2243-2266`) looks neither at the sentinel of the
  Stop, as `noteProviderOverload` does, nor at the epoch. When it settles, its recovery is queued under
  the new epoch (`:2629-2636`) and sent after the Stop, with the task perhaps idle already, which then
  works again. `StopIsFinal` counts what follows from such a turn as asked after the Stop (`born` in
  `AbortRejected` and `TurnEnds`); a task whose turn could not be stopped stays working.

*Stores and the relay*

* `Lapse` in `AppStore`: `app-store.mjs:39-41` says that a failed read never replaces real data on
  write, but only the first read of an update is strict; when the `stat` of the second fails (`:49-50`),
  the update is applied to an empty store and written, and every record is lost. The claim is not met;
  `ImplementsAtomicStore` excepts this step by name, and `lapses` counts it. `collided`: a file
  rewritten within one timestamp, size and inode is served from the cache (`app-store.mjs:52`).
* `FinalStaysFinal` excepts the release to the user: it takes no request lock, so a capture under way
  may write "ready" over "cancelled". `EveryRequestSettles` excepts a request a crash left `starting`
  before its task was linked, and promises of an instruction only that it is settled if ticks go on
  finding it queued in a task this process runs. One a crash left `starting` is put back in the queue
  only by a process that owns the task's lease while the task is not busy
  (`bot-code-relay.ts:1208-1215`), and that lease goes with the turn that keeps it busy. A delivery that
  awaits a whole turn of the Bot keeps the tick `ticking`, so that other requests wait for it.

*Goal Loop*

* `spent.lost`: a prompt that is counted and written but never reaches the transcript (`sendMessage`
  throws, or the process dies in between). `lateTurnResult` then matches an older prompt of the same
  number, since `goalId` is the session's id: its result is applied a second time, or an old loop's
  verified result completes a new one. The comment at `index.ts:1045-1052` means to exclude this.
* `Imitated`: the model may write a result block into a turn of the user's own; while a loop turn is
  paused and pending, it is applied to the loop.
* A stop or a new start during a pending pause expects one more settlement; where none comes (an
  unknown delivery, a recovery after a restart) the settlement of the next turn is discarded instead,
  and that turn waits for its 15-minute clock.
* `Stranded`: `sendMessage` throws and the pause cannot be written either: the turn is awaited without
  a clock, until a command. `LoopEnds` names this state.

## 7. Not modelled, and why

Within the modelled components:

* Recursive directory removals are one step; a crash inside one leaves a reclaim lock without an
  owner, which `#takeReclaimLock` never retires. So does an owner record without a start key while
  its pid stays in use.
* `RestartResume` lets a start register its listener and reconcile with no read in between: the two are
  one microtask apart (`runtime-startup.mjs:39-45`). It takes the budget lock as one that a crash frees,
  the prompt as one step, and the resume of a Goal Loop as a prompt. A row is judged before the wait for
  that lock, so a user's stop made through a stopping Backend in between is not seen
  (`restart-resume.mjs:176`).
* `LiveSession` has one task, one removal at a time, no turn inside the session, no settings changed on
  a session in place and no disposal after a lost lease; a lease held elsewhere is one of the ways an
  attempt fails. The shutdown of a session whose live was replaced meanwhile is waited for as in the
  code, and its disposal is that shutdown's. Its branches for a deleted task with a current generation,
  and for a live session found by destroy after draining, are translated but not reachable in this
  model.
* `PendingPrompts` keeps the session-to-task mapping constant; disposal sends no snapshot, as in the
  code.
* `TurnControl`: steering and follow-up prompts and their demotion, provider fallback, overload
  recovery, Code results, the resend without reasoning, compaction, the grace for a missing live
  session, the watch store on disk and its recovery after a crash, the window of the SDK before its
  stream opens, and an abort that never answers.
* `BotCodeRelay`: Goal Loop holds, Rooms (but for a superseded turn), images, pruning, rows of the old
  queue, back-off times (a tick may come at any time), the takeover of a request's lock file by
  another process, follow-up requests that prompt the Code task of an earlier request (`:612`,
  `:1180-1187`), a Bot's lock held by another request (a `Fault` stands for it), the owner check of a
  launch made for a user, saves of two processes under the Bot's lock, and the restart resume of the Code
  task itself.
* `AppStore`: backups and migrations. Directories age only between transactions; a file is restored
  by hand only between updates; a recycled pid keeps a lock until its ten minutes are over. Of the
  removals only those of the release may fail, and a process does not die after a release that failed.
* `GoalLoop`: the unlimited budget, cooldowns, operator notes, end notices, images, orphaned temporary
  files, retries of a locked rename, `manual_send` pauses of older records, the comparison of turn
  indices, a reload whose write fails, and the repair of a full run found verifying.

Components left out: Rooms, the routine scheduler, the runtime host, account runtimes and the keyed
serializer are planned. Event streams carry snapshots and
keep nothing a task depends on. Peer authentication and native MCP are protocols with processes
outside the repository. The JSON handlers validate and project single requests. Web, gateway, host,
shared types, the other extensions, skills, translation and scripts have no part in who runs a task;
of the host only that it starts another Backend is used.

## 8. Plan

In this order, the most consequential first:

1. Modules: the Room relay and Rooms (deliveries that supersede one another, with the relay's retries),
   the routine scheduler (due times, missed runs, overlapping runs; `lastRunAt` is written when a run
   ends, so whether a routine at the five-minute limit is due at its next minute is the first question
   to ask of it), the runtime host and account runtimes (acquire, idle disposal), the keyed serializer
   they share.
2. Compositions: a `GoalLoop` whose turns go through the prompt chain of `TurnControl`, so that a Stop
   of the task and a pause of the loop race; `LiveSession` over `TaskLease` instead of a flag.
