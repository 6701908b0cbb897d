---------------------------- MODULE TurnControl ----------------------------
(***************************************************************************)
(* The turn of one task inside the process that owns its runtime: prompts  *)
(* accepted by promptTask and queuePrompt, the serial prompt chain, the    *)
(* SDK turn, the user's Stop (runUserAbort), the hang watchdog             *)
(* (resolveHang and runHangWatchdogAbort) and the transport recovery.      *)
(*                                                                         *)
(* What runs between two awaits of the code is one action.  The SDK is     *)
(* external: a turn that was signalled by abort() ends at some time, in    *)
(* any way a turn may end, or the abort is rejected and the turn goes on.  *)
(* Steer and follow-up prompts, provider fallback and overload recovery,   *)
(* Code results and compaction are left out.                               *)
(***************************************************************************)
EXTENDS Naturals, FiniteSets

CONSTANTS
    Requests,    \* numbers of the prompts the user submits, in this order
    MaxPrompts,  \* bound: prompts accepted, internal ones included
    MaxStops,    \* bound: Stops the user presses
    MaxFaults,   \* bound: broken transports, and rejected aborts
    MaxRetries   \* MAX_HANG_RETRIES

ASSUME TurnAssumption ==
    /\ Requests \subseteq Nat
    /\ MaxPrompts \in Nat /\ MaxStops \in Nat
    /\ MaxFaults \in Nat /\ MaxRetries \in Nat

VARIABLES
    draft,       \* submitted requests between beginTaskPreparation and queuePrompt
    generation,  \* the task's preparation generation
    accepted,    \* number of prompts handed to queuePrompt so far
    kind,        \* per accepted prompt: who queued it
    stage,       \* per accepted prompt: how far runPrompt got
    born,        \* history: Stops begun when the request was first submitted, or
                 \* when its turn outlived the Stop pressed on it
    cut,         \* the newest prompt accepted before live.promptEpoch was last
                 \* raised: up to there startedEpoch is an old epoch
    turn,        \* the prompt whose SDK turn exists, or NoTurn
    phase,       \* what that turn does
    outcome,     \* how the turn ended, while it settles
    status,      \* status of the task row
    lease,       \* the process holds the task's lease
    sentinel,    \* live.manualAbortedAssistantId is set
    watch,       \* the task's hang watch row, or NoWatch
    clock,       \* startedAt of the newest watch row
    pendingTransport,   \* live.pendingTransportRecovery
    transportTried,     \* live.transportRecoveryAttempted
    stop,        \* the user's Stop in flight
    hang,        \* the watchdog's resolveHang in flight
    stops,       \* history: Stops begun
    faults

taskVars  == <<status, lease, sentinel>>
turnVars  == <<turn, phase, outcome>>
chainVars == <<accepted, kind, stage, born>>
draftVars == <<draft, generation>>
watchVars == <<watch, clock>>
recoVars  == <<pendingTransport, transportTried>>
vars == <<draftVars, chainVars, cut, turnVars, taskVars, watchVars, recoVars,
          stop, hang, stops, faults>>

NoTurn  == 0
NoStop  == [at |-> "no", turn |-> NoTurn, rejected |-> FALSE]
NoHang  == [at |-> "no", turn |-> NoTurn, rejected |-> FALSE, last |-> 0, row |-> 0, born |-> 0]
NoWatch == [started |-> 0, retry |-> 0, state |-> "none", prompt |-> 0, born |-> 0]
Prompts == 1..MaxPrompts
Kinds   == {"user", "hang", "transport"}
Stages  == {"none", "chained", "preparing", "ready", "sent", "ended", "over"}
Phases  == {"none", "streaming", "hung", "aborting", "settling"}

Over(p)  == stage[p] \in {"ended", "over"}
Stale(p) == p <= cut

\* The serial chain runs one prompt at a time, in the order of acceptance.
Running(p) == /\ p \in 1..accepted /\ ~Over(p)
              /\ \A q \in 1..(p - 1) : Over(q)

Init ==
    /\ draft = [r \in Requests |-> [at |-> "new", gen |-> 0, born |-> 0]]
    /\ generation = 0
    /\ accepted = 0
    /\ kind = [p \in Prompts |-> "user"]
    /\ stage = [p \in Prompts |-> "none"]
    /\ born = [p \in Prompts |-> 0]
    /\ cut = 0
    /\ turn = NoTurn /\ phase = "none" /\ outcome = "none"
    /\ status = "idle" /\ lease = FALSE /\ sentinel = FALSE
    /\ watch = NoWatch /\ clock = 0
    /\ pendingTransport = FALSE /\ transportTried = FALSE
    /\ stop = NoStop
    /\ hang = NoHang
    /\ stops = 0 /\ faults = [broken |-> 0, rejected |-> 0]

-----------------------------------------------------------------------------
(* queuePrompt                                                             *)

\* armTaskHangWatch: only a hang retry keeps the count of retries used.
RetryLost(k) == 0                                                 \* (mutant)
RetryOf(k) == IF k = "hang" THEN watch.retry + 1 ELSE 0

\* The bound on prompts leaves a recovery its place.
Room(k) == accepted + (IF k # "transport" /\ pendingTransport THEN 1 ELSE 0) < MaxPrompts

\* The prompt joins the chain; its watch row replaces the one before it.
Enqueue(k, b, stages) ==
    /\ Room(k)
    /\ accepted' = accepted + 1
    /\ kind'  = [kind EXCEPT ![accepted + 1] = k]
    /\ stage' = [stages EXCEPT ![accepted + 1] = "chained"]
    /\ born'  = [born EXCEPT ![accepted + 1] = b]
    /\ watch' = [started |-> clock + 1, retry |-> RetryOf(k), state |-> "armed",
                 prompt |-> accepted + 1, born |-> b]
    /\ clock' = clock + 1

\* markTaskWorkingIfIdle
MarkWorking ==
    /\ status' = "working"
    /\ lease' = (lease \/ status # "working")

-----------------------------------------------------------------------------
(* promptTask                                                              *)

\* beginTaskPreparation, before the selections and ensureLive are awaited.
Submit(r) ==
    /\ draft[r].at = "new" /\ \A q \in Requests : q < r => draft[q].at # "new"
    /\ draft' = [draft EXCEPT ![r] = [at |-> "preparing", gen |-> generation, born |-> stops]]
    /\ UNCHANGED <<generation, chainVars, cut, turnVars, taskVars, watchVars,
                   recoVars, stop, hang, stops, faults>>

\* preparation.assertCurrent()
CurrentDraft(r) == draft[r].gen = generation

\* The preparation is over: the prompt is queued, or refused after a Stop.
Accept(r) ==
    /\ draft[r].at = "preparing"
    /\ draft' = [draft EXCEPT ![r] = [at |-> "gone", gen |-> 0, born |-> 0]]
    /\ \/ /\ ~CurrentDraft(r)
          /\ UNCHANGED <<chainVars, watchVars, status, lease, transportTried>>
       \/ /\ CurrentDraft(r)
          /\ Enqueue("user", draft[r].born, stage)
          /\ MarkWorking
          /\ transportTried' = FALSE
    /\ UNCHANGED <<generation, cut, turnVars, sentinel, pendingTransport,
                   stop, hang, stops, faults>>

-----------------------------------------------------------------------------
(* runPrompt: stillQueued() is asked again after every await               *)

\* The head of the chain starts, or finds that it was cancelled.
Start(p) ==
    /\ Running(p) /\ stage[p] = "chained"
    /\ stage' = [stage EXCEPT ![p] = IF Stale(p) THEN "over" ELSE "preparing"]
    /\ UNCHANGED <<draftVars, accepted, kind, born, cut, turnVars, taskVars,
                   watchVars, recoVars, stop, hang, stops, faults>>

\* prepareLiveForPrompt claims the lease and the status at its end, whether or
\* not the prompt was cancelled while it waited.
Prepare(p) ==
    /\ Running(p) /\ stage[p] = "preparing"
    /\ status' = "working" /\ lease' = TRUE
    /\ stage' = [stage EXCEPT ![p] = IF Stale(p) THEN "over" ELSE "ready"]
    /\ UNCHANGED <<draftVars, accepted, kind, born, cut, turnVars, sentinel,
                   watchVars, recoVars, stop, hang, stops, faults>>

\* handlePromptError: the prompt fails before its turn exists.
PromptFails(p) ==
    /\ Running(p) /\ stage[p] \in {"preparing", "ready"}
    /\ stage' = [stage EXCEPT ![p] = "over"]
    /\ IF Stale(p) THEN UNCHANGED <<status, lease>>
                   ELSE status' = "error" /\ lease' = FALSE
    /\ UNCHANGED <<draftVars, accepted, kind, born, cut, turnVars, sentinel,
                   watchVars, recoVars, stop, hang, stops, faults>>

\* session.prompt and agent_start, whose handler takes lease and status again.
Send(p) ==
    /\ Running(p) /\ stage[p] = "ready"
    /\ \/ /\ Stale(p)
          /\ stage' = [stage EXCEPT ![p] = "over"]
          /\ UNCHANGED <<turnVars, taskVars>>
       \/ /\ ~Stale(p) /\ lease
          /\ stage' = [stage EXCEPT ![p] = "sent"]
          /\ turn' = p /\ phase' = "streaming" /\ outcome' = "none"
          /\ status' = "working" /\ sentinel' = FALSE
          /\ UNCHANGED lease
    /\ UNCHANGED <<draftVars, accepted, kind, born, cut, watchVars, recoVars,
                   stop, hang, stops, faults>>

-----------------------------------------------------------------------------
(* Session events                                                          *)

\* abortTaskSessionsAfterLeaseLoss: agent_start or tool_execution_start finds
\* the lease gone.  The live session is cut off with all its prompts; the
\* task row is not touched.
LeaseLost ==
    /\ ~lease
    /\ \/ phase = "streaming"
       \/ \E p \in Prompts : Running(p) /\ stage[p] = "ready" /\ ~Stale(p)
    /\ generation' = generation + 1
    /\ watch' = NoWatch
    /\ cut' = accepted
    /\ pendingTransport' = FALSE
    /\ turn' = NoTurn /\ phase' = "none" /\ outcome' = "none"
    /\ stage' = [p \in Prompts |-> IF p \in 1..accepted /\ ~Over(p) THEN "over" ELSE stage[p]]
    /\ UNCHANGED <<draft, accepted, kind, born, taskVars, clock, transportTried,
                   stop, hang, stops, faults>>

\* The turn stops making progress; it may still end by itself.
Hangs ==
    /\ phase = "streaming" /\ phase' = "hung"
    /\ UNCHANGED <<draftVars, chainVars, cut, turn, outcome, taskVars, watchVars,
                   recoVars, stop, hang, stops, faults>>

\* A Stop is in flight that was pressed on the turn.
Stopping == stop.at # "no" /\ stop.turn = turn

\* noteWebSocketTransportFailure, which asks neither for the sentinel nor for
\* the epoch: a broken transport is recovered once, signalled or not.
Recovers(o) == o = "transport" /\ ~transportTried

\* agent_end.  A transport may break before the signal reaches it.
TurnEnds(o) ==
    /\ phase \in {"streaming", "hung", "aborting"}
    /\ o = "aborted" => phase = "aborting"
    /\ o = "transport" => faults.broken < MaxFaults /\ Room("user")
    /\ faults' = IF o = "transport" THEN [faults EXCEPT !.broken = @ + 1] ELSE faults
    /\ phase' = "settling" /\ outcome' = o
    /\ pendingTransport' = (pendingTransport \/ Recovers(o))
    /\ born' = IF Recovers(o) /\ Stopping THEN [born EXCEPT ![turn] = stops] ELSE born
    /\ UNCHANGED <<draftVars, accepted, kind, stage, cut, turn, taskVars, watchVars,
                   transportTried, stop, hang, stops>>

\* applySettledTaskStatus
SettledStatus ==
    CASE outcome = "ok" -> "idle"
      [] outcome = "aborted" /\ sentinel -> "idle"
      [] OTHER -> "error"

\* finishSettledTurn: a settled recovery needs no watch any more.
WatchAfterSettle ==
    IF outcome = "ok" /\ watch # NoWatch /\ kind[watch.prompt] = "transport"
    THEN NoWatch ELSE watch

\* agent_settled: the status of the turn, or the transport recovery instead.
Settled ==
    LET done == [stage EXCEPT ![turn] = IF outcome = "ok" THEN "ended" ELSE "over"] IN
    /\ phase = "settling"
    /\ turn' = NoTurn /\ phase' = "none" /\ outcome' = "none"
    /\ \/ /\ pendingTransport
          /\ pendingTransport' = FALSE /\ transportTried' = TRUE
          /\ status' = "working"
          /\ Enqueue("transport", born[turn], done)
          /\ UNCHANGED lease
       \/ /\ ~pendingTransport
          /\ stage' = done
          /\ status' = SettledStatus /\ lease' = FALSE
          /\ watch' = WatchAfterSettle
          /\ UNCHANGED <<accepted, kind, born, clock, recoVars>>
    /\ UNCHANGED <<draftVars, cut, sentinel, stop, hang, stops, faults>>

-----------------------------------------------------------------------------
(* The two aborts share the signal to the SDK                              *)

\* cancelHarnessPrompt, the sentinel, session.abort()
SignalAbort ==
    /\ cut' = accepted
    /\ pendingTransport' = FALSE
    /\ sentinel' = TRUE
    /\ phase' = IF phase \in {"streaming", "hung"} THEN "aborting" ELSE phase

\* abort() resolves when the turn it was called for is over.
AbortUnconfirmed(t) == TRUE                                       \* (mutant)
AbortDone(t) == t = NoTurn \/ turn # t

\* abort() is rejected, for everyone who waits for it: the turn goes on.
AbortRejected ==
    /\ phase = "aborting" /\ faults.rejected < MaxFaults
    /\ faults' = [faults EXCEPT !.rejected = @ + 1]
    /\ phase' = "streaming"
    /\ stop' = [stop EXCEPT !.rejected = @ \/ (stop.at # "no" /\ stop.turn = turn)]
    /\ hang' = [hang EXCEPT !.rejected = @ \/ (hang.at = "cleanup" /\ hang.turn = turn)]
    /\ born' = IF Stopping THEN [born EXCEPT ![turn] = stops] ELSE born
    /\ UNCHANGED <<draftVars, accepted, kind, stage, cut, turn, outcome, taskVars,
                   watchVars, recoVars, stops>>

-----------------------------------------------------------------------------
(* abortTask, runUserAbort                                                 *)

\* Up to the first await, the watch is disarmed before anything else.
StopBegins ==
    /\ stop.at = "no" /\ stops < MaxStops
    /\ generation' = generation + 1
    /\ watch' = NoWatch
    /\ SignalAbort
    /\ stop' = [at |-> "resume", turn |-> turn, rejected |-> FALSE]
    /\ stops' = stops + 1
    /\ UNCHANGED <<draft, chainVars, turn, outcome, status, lease, clock,
                   transportTried, hang, faults>>

\* After the scheduled resume is cancelled: the final assistant id is recorded.
StopProjects ==
    /\ stop.at = "resume"
    /\ stop' = [stop EXCEPT !.at = "cleanup"]
    /\ sentinel' = TRUE
    /\ UNCHANGED <<draftVars, chainVars, cut, turnVars, status, lease, watchVars,
                   recoVars, hang, stops, faults>>

\* Goal Loop and subagents are stopped and the abort is confirmed.
StopEnds ==
    /\ stop.at = "cleanup" /\ ~stop.rejected /\ AbortDone(stop.turn)
    /\ stop' = NoStop
    /\ status' = "idle" /\ lease' = FALSE
    /\ UNCHANGED <<draftVars, chainVars, cut, turnVars, sentinel, watchVars, recoVars,
                   hang, stops, faults>>

\* "The SDK may still be running: retain working state and the lease."
StopFails ==
    /\ stop.at = "cleanup" /\ stop.rejected
    /\ stop' = NoStop
    /\ UNCHANGED <<draftVars, chainVars, cut, turnVars, taskVars, watchVars, recoVars,
                   hang, stops, faults>>

-----------------------------------------------------------------------------
(* runHangWatchdogTick, resolveHang, runHangWatchdogAbort                  *)

Current == watch # NoWatch /\ watch.started = hang.row

\* evaluateWatch: the transcript shows a completed turn.  While the watched
\* prompt has no message yet that is the turn before it.
WatchCompletes ==
    /\ hang.at = "no" /\ watch # NoWatch /\ watch.state = "armed"
    /\ phase = "none"
    /\ watch' = NoWatch
    /\ UNCHANGED <<draftVars, chainVars, cut, turnVars, taskVars, clock, recoVars,
                   stop, hang, stops, faults>>

\* No progress for the whole timeout: markResolving, then the abort begins.
HangBegins ==
    /\ hang.at = "no" /\ watch # NoWatch /\ watch.state = "armed"
    /\ phase # "streaming"
    /\ phase = "none" => stage[watch.prompt] # "ended"
    /\ watch' = [watch EXCEPT !.state = "resolving"]
    /\ SignalAbort
    /\ hang' = [at |-> "cleanup", turn |-> turn, rejected |-> FALSE, last |-> accepted,
                row |-> watch.started, born |-> watch.born]
    /\ UNCHANGED <<draftVars, chainVars, turn, outcome, status, lease, clock,
                   transportTried, stop, stops, faults>>

\* isHangWatchReplaced
NeverReplaced == FALSE                                            \* (mutant)
Replaced == watch # NoWatch /\ watch.started # hang.row

\* The subagents are stopped and the abort is confirmed.
HangAborted ==
    /\ hang.at = "cleanup" /\ ~hang.rejected /\ AbortDone(hang.turn)
    /\ hang' = [hang EXCEPT !.at = "waiting"]
    /\ IF Replaced THEN UNCHANGED <<status, lease>>
                   ELSE status' = "idle" /\ lease' = FALSE
    /\ UNCHANGED <<draftVars, chainVars, cut, turnVars, sentinel, watchVars, recoVars,
                   stop, stops, faults>>

\* The rejected abort is only logged; the wait for idle follows all the same.
HangAbortFails ==
    /\ hang.at = "cleanup" /\ hang.rejected
    /\ hang' = [hang EXCEPT !.at = "waiting"]
    /\ UNCHANGED <<draftVars, chainVars, cut, turnVars, taskVars, watchVars, recoVars,
                   stop, stops, faults>>

\* waitForIdle gives up: markArmed, for a later tick.
StaysResolving == "resolving"                                     \* (mutant)
StateAfterBusy == "armed"

HangBusy ==
    /\ hang.at = "waiting" /\ phase # "none"
    /\ hang' = NoHang
    /\ watch' = IF Current THEN [watch EXCEPT !.state = StateAfterBusy] ELSE watch
    /\ UNCHANGED <<draftVars, chainVars, cut, turnVars, taskVars, clock, recoVars,
                   stop, stops, faults>>

\* isCurrentWatch(row) when the session is idle.
ReviveAlways == TRUE                                              \* (mutant)
MayRevive == Current

\* The watch was cancelled or replaced while the abort settled.
HangSuperseded ==
    /\ hang.at = "waiting" /\ phase = "none" /\ ~MayRevive
    /\ hang' = NoHang
    /\ UNCHANGED <<draftVars, chainVars, cut, turnVars, taskVars, watchVars, recoVars,
                   stop, stops, faults>>

\* The retries are used up, or the request was too large to be stored.
HangGivesUp ==
    /\ hang.at = "waiting" /\ phase = "none" /\ MayRevive
    /\ hang' = NoHang
    /\ watch' = NoWatch
    /\ UNCHANGED <<draftVars, chainVars, cut, turnVars, taskVars, clock, recoVars,
                   stop, stops, faults>>

\* The request is queued again as a hang retry.
HangResumes ==
    /\ hang.at = "waiting" /\ phase = "none" /\ MayRevive
    /\ watch.retry < MaxRetries
    /\ hang' = NoHang
    /\ Enqueue("hang", hang.born, stage)
    /\ MarkWorking
    /\ transportTried' = FALSE
    /\ UNCHANGED <<draftVars, cut, turnVars, sentinel, pendingTransport, stop, stops, faults>>

-----------------------------------------------------------------------------
\* The process runs its promises and ticks its watchdog.
Continues ==
    \/ \E r \in Requests : Accept(r)
    \/ \E p \in Prompts : Start(p) \/ Prepare(p) \/ PromptFails(p) \/ Send(p)
    \/ LeaseLost \/ Settled \/ StopProjects \/ StopEnds \/ StopFails
Watches ==
    \/ WatchCompletes \/ HangBegins \/ HangAborted \/ HangAbortFails
    \/ HangBusy \/ HangSuperseded \/ HangGivesUp \/ HangResumes

Next ==
    \/ Continues \/ Watches \/ Hangs \/ AbortRejected \/ StopBegins
    \/ \E r \in Requests : Submit(r)
    \/ \E o \in {"ok", "error", "transport", "aborted"} : TurnEnds(o)

\* A turn that was signalled or is making progress ends; a hung one need not.
Fairness ==
    /\ WF_vars(Continues \/ (phase # "hung" /\ \E o \in {"ok", "aborted"} : TurnEnds(o)))
    /\ WF_vars(Watches)

Spec == Init /\ [][Next]_vars
LiveSpec == Spec /\ Fairness

-----------------------------------------------------------------------------
TypeOK ==
    /\ draft \in [Requests -> [at : {"new", "preparing", "gone"}, gen : Nat, born : Nat]]
    /\ generation \in Nat /\ accepted \in 0..MaxPrompts
    /\ kind \in [Prompts -> Kinds] /\ stage \in [Prompts -> Stages]
    /\ born \in [Prompts -> Nat] /\ cut \in 0..accepted
    /\ turn \in 0..accepted /\ phase \in Phases
    /\ outcome \in {"none", "ok", "error", "transport", "aborted"}
    /\ status \in {"idle", "working", "error"} /\ lease \in BOOLEAN /\ sentinel \in BOOLEAN
    /\ watch \in [started : Nat, retry : 0..MaxRetries, state : {"none", "armed", "resolving"},
                  prompt : 0..accepted, born : Nat]
    /\ clock \in Nat
    /\ pendingTransport \in BOOLEAN /\ transportTried \in BOOLEAN
    /\ stop \in [at : {"no", "resume", "cleanup"}, turn : 0..accepted, rejected : BOOLEAN]
    /\ hang \in [at : {"no", "cleanup", "waiting"}, turn : 0..accepted, rejected : BOOLEAN,
                 last : 0..accepted, row : Nat, born : Nat]
    /\ stops \in Nat /\ faults \in [broken : 0..MaxFaults, rejected : 0..MaxFaults]

\* A Stop is final for what was asked before it: no request submitted before
\* the Stop is handed to the SDK after it, not even as a hang retry or as the
\* recovery of a transport that broke before (cancelHarnessPrompt,
\* disarmTaskHangWatch, invalidateTaskPreparations, isCurrentWatch).  Two turns
\* outlive the Stop pressed on them, and what is sent again for them counts as
\* asked after it: one whose abort is rejected, and one whose transport breaks
\* after the signal, which is recovered all the same.
StopIsFinal ==
    [][\A p \in Prompts : stage[p] # "sent" /\ stage'[p] = "sent" => born[p] = stops]_vars

\* The watchdog sends one request at most MAX_HANG_RETRIES times again: no
\* longer row of hang retries follows a prompt (retryUsed, isHangRetry).
RetriesBounded ==
    TypeOK /\ \A i \in Prompts : i + MaxRetries <= accepted =>
        \E j \in i..(i + MaxRetries) : kind[j] # "hang"

\* The watchdog's abort spares a newer turn: when a prompt accepted after the
\* abort began is already running under a watch, its working state and its
\* lease stay (startedAtBeforeAbort, isHangWatchReplaced).
HangAbortSparesNewer ==
    [][(hang.at = "cleanup" /\ hang'.at = "waiting" /\ phase = "streaming"
          /\ turn > hang.last /\ watch # NoWatch)
       => UNCHANGED <<status, lease>>]_vars

\* Neither abort takes the lease from the turn it was called for while the SDK
\* may still be running it: the abort is confirmed first, and a rejected one
\* leaves working state and lease (runUserAbort, runHangWatchdogAbort).
LeaseOutlivesAbortedTurn ==
    [][lease /\ ~lease' =>
        /\ stop.at = "cleanup" /\ stop'.at = "no" => stop.turn = NoTurn \/ turn # stop.turn
        /\ hang.at = "cleanup" /\ hang'.at = "waiting" => hang.turn = NoTurn \/ turn # hang.turn]_vars

\* The prompt chain drains again and again: every accepted prompt is run or
\* given up, however turns hang and aborts race, unless a turn hangs when no
\* watch is left to end it (resolveHang, runUserAbort, the prompt chain).
ChainDrains ==
    []<>(\/ \A p \in 1..accepted : Over(p)
         \/ phase = "hung" /\ watch = NoWatch)
=============================================================================
