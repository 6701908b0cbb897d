----------------------------- MODULE GoalLoop -----------------------------
(***************************************************************************)
(* The Goal Loop extension for one session: the loop kept in a file, the   *)
(* runtime that sends its turns, the commands of the user, and the SDK run *)
(* whose events settle a turn.                                             *)
(*                                                                         *)
(* What runs between two awaits of the code is one action; the awaits kept *)
(* are the host's preparation of a turn and its answer about a provider    *)
(* limit.  External: the SDK stays busy until every agent_settled handler  *)
(* is done, and a killed process leaves the transcript.  An unlimited      *)
(* budget, cooldowns, operator notes, end notices, images and the retries  *)
(* of a locked rename are left out.                                        *)
(***************************************************************************)
EXTENDS Naturals, Sequences, FiniteSets

CONSTANTS
    Budgets,      \* values of maxTurns a user gives
    Modes,        \* values of forceFullRun
    Imitated,     \* results the model writes, unasked, in the user's own turns
    MaxTransport, \* retries providerTransportRetryDelayMs allows
    MaxEvents     \* bound: commands and turns of the user, failed runs, aborts,
                  \* restarts, prompts lost, and writes of the loop file that fail

ASSUME GoalAssumption ==
    /\ Budgets \subseteq Nat \ {0} /\ Modes \subseteq BOOLEAN
    /\ Imitated \subseteq {"progress", "completed", "verified", "blocked"}
    /\ {MaxTransport, MaxEvents} \subseteq Nat

VARIABLES
    file,     \* the loop as written to disk, or NoLoop
    rt,       \* the Runtime of the session
    run,      \* the SDK run, a loop turn or a turn of the user, or NoRun
    preps,    \* sendTurn calls awaiting prepareGoalLoopTurn
    stale,    \* such calls of a loop that was replaced since
    log,      \* per kind and number of a turn: what the transcript holds after its newest prompt
    sends,    \* history: runs begun
    results,  \* history: the results applied to the current loop
    spent     \* history: what the bound counts, and whether a counted prompt was lost

vars == <<file, rt, run, preps, stale, log, sends, results, spent>>

MAX_REJECTED_CLAIMS   == 2
MAX_UNREADABLE_STREAK == 2

Results == {"progress", "completed", "verified", "blocked"}
Errors  == {"transport", "overload", "limit"}
Kinds   == {"goal", "verification"}
Turns   == 1 .. (CHOOSE m \in Budgets : \A b \in Budgets : b <= m)

NoOutcome == [res |-> "none"]
NoRun     == [phase |-> "none", of |-> 0, kind |-> "none", send |-> 0, res |-> "none",
              aborted |-> "no", stale |-> FALSE]
NoLoop    == [status |-> "none", why |-> "none", max |-> 0, full |-> FALSE, count |-> 0,
              kind |-> "goal", retry |-> FALSE, recovery |-> FALSE, streak |-> 0,
              rejected |-> 0, n |-> 0]
Unsent    == [open |-> FALSE, got |-> NoOutcome]

\* hydrateLoop: a full run found completed with turns left is read as queued.
Hydrated(f) ==
  IF f.status = "completed" /\ f.full /\ f.count < f.max THEN [f EXCEPT !.status = "queued"] ELSE f
loop == Hydrated(file)

Busy == run.phase # "none"
IsResult(o) == o.res \in Results

Terminal(l)    == l.status \in {"completed", "stopped"}
Sendable(l)    == l.status \in {"queued", "verifying"}
Schedulable(l) == Sendable(l) \/ l.status = "running"
Pausable(l)    == Schedulable(l) \/ l.status = "paused"
BudgetSpent(l) == l.count >= l.max
FreeRetry(l)   == l.streak = 1 \/ l.retry
AbortPaused(l) == l.status = "paused" /\ l.why = "abort"

\* (mutant) A pause of the user's is taken for an abort.
AutoPausedUser(l) == l.status = "paused" /\ l.why \in {"user", "abort", "hang", "turn_timeout"}

AutoPaused(l)  == l.status = "paused" /\ l.why \in {"abort", "hang", "turn_timeout"}
InterruptedRecovery(l) == Sendable(l) /\ l.retry /\ l.recovery

\* The status that sends the turn of l again.
Again(l) == IF l.kind = "verification" THEN "verifying" ELSE "queued"

Schedule(r)     == [r EXCEPT !.timer = TRUE]
ClearPending(r) == [r EXCEPT !.pending = NoOutcome, !.aborted = "no"]
ClearTimer(r)   == [r EXCEPT !.timer = FALSE, !.timeout = FALSE]
ScheduleIf(l, r) == IF Sendable(l) THEN Schedule(r) ELSE r

NewRuntime ==
  [awaiting |-> FALSE, timer |-> FALSE, timeout |-> FALSE, inFlight |-> FALSE,
   pausedPending |-> FALSE, pending |-> NoOutcome, aborted |-> "no", discard |-> FALSE,
   transport |-> 0]

\* ctx.abort(): only a run that has not ended hears it.
AbortRun(why) ==
  IF run.phase \in {"streaming", "turned"} THEN [run EXCEPT !.aborted = why] ELSE run

\* What happens within the bounds; a write of the loop file may fail (~ok).
Count(events, ok, lost) ==
  /\ spent' = [events |-> spent.events + events, lost |-> spent.lost \/ lost,
               fails |-> IF ok THEN spent.fails ELSE spent.fails + 1]
  /\ spent'.events + spent'.fails <= MaxEvents
Write(ok)   == Count(0, ok, FALSE)
Happens(ok) == Count(1, ok, FALSE)
-----------------------------------------------------------------------------
(***************************************************************************)
(* What a result makes of the loop.                                        *)
(***************************************************************************)
\* (mutant) Any turn may verify.
VerifyingAny(l) == ~l.full

Verifying(l) == l.kind = "verification" /\ ~l.full

Judged(l, res) ==
  IF ~Verifying(l)
  THEN [l EXCEPT !.status = IF res = "completed" THEN "verifying"
                            ELSE IF res = "blocked" THEN "blocked" ELSE "queued"]
  ELSE IF res = "verified" THEN [l EXCEPT !.status = "completed", !.rejected = 0]
  ELSE IF res = "blocked" THEN [l EXCEPT !.status = "blocked"]
  ELSE IF l.rejected + 1 >= MAX_REJECTED_CLAIMS
       THEN [l EXCEPT !.status = "paused", !.why = "rejected", !.rejected = @ + 1]
       ELSE [l EXCEPT !.status = "queued", !.rejected = @ + 1]

Effective(l, res) ==
  IF l.full /\ res \in {"completed", "verified"} THEN "progress" ELSE res

ApplyResult(l, o) ==
  LET j == Judged([l EXCEPT !.streak = 0, !.retry = FALSE, !.why = "none"], Effective(l, o.res))
      limited == j.status = "queued" /\ BudgetSpent(j)
  IN [j EXCEPT !.status = IF limited THEN "paused" ELSE @,
               !.why    = IF limited THEN "turn_limit" ELSE @,
               !.kind   = IF j.status = "verifying" \/ (Verifying(l) /\ j.status = "blocked")
                          THEN "verification" ELSE "goal"]

ApplyMissing(l) ==
  IF l.streak + 1 >= MAX_UNREADABLE_STREAK
  THEN [l EXCEPT !.streak = @ + 1, !.retry = FALSE, !.status = "paused", !.why = "unreadable"]
  ELSE [l EXCEPT !.streak = @ + 1, !.retry = FALSE, !.status = Again(l), !.why = "none"]

\* pauseLoop: the written loop, and the runtime once it is written.
Paused(l, r, why) ==
  [l EXCEPT !.status = "paused", !.why = why,
            !.recovery = @ \/ r.awaiting, !.retry = @ \/ r.awaiting]
AfterPause(r) ==
  LET q == IF r.awaiting THEN r ELSE ClearPending(r)
  IN [ClearTimer(q) EXCEPT !.pausedPending = r.awaiting, !.awaiting = FALSE]

\* requeueInterruptedTurn.
Requeued(l) == [l EXCEPT !.status = Again(l), !.why = "none"]
AfterRequeue(r) == Schedule([ClearTimer(ClearPending(r)) EXCEPT !.awaiting = FALSE])

\* What the transcript says of the turn l stands at (lateTurnResult).
LateResult(l, r) ==
  IF (r.pausedPending \/ l.recovery) /\ l.count \in Turns
  THEN log[<<l.kind, l.count>>].got ELSE NoOutcome

\* applyLatePausedResult.  An explicit pause is written again after the result;
\* bad names the write that fails, if any.
MayApplyLate(l, r) ==
  /\ l.status = "paused" \/ InterruptedRecovery(l)
  /\ r.pausedPending \/ l.recovery
  /\ l.why \in {"none", "user", "abort", "unknown_delivery", "turn_timeout", "hang"}

\* (mutant) The paused turn still waits for its result.
TakenStill(r) == r

Taken(r) == [r EXCEPT !.pausedPending = FALSE]

ApplyLate(l, r, o, bad) ==
  LET taken   == Taken(r)
      applied == ApplyResult([l EXCEPT !.recovery = FALSE], o)
      held    == l.why = "user" /\ Schedulable(applied)
  IN IF ~MayApplyLate(l, r) THEN [done |-> FALSE, got |-> FALSE, file |-> l, rt |-> r]
     ELSE IF bad = 1 THEN [done |-> FALSE, got |-> FALSE, file |-> l,
                           rt |-> [r EXCEPT !.pausedPending = TRUE]]
     ELSE IF held /\ bad = 2 THEN [done |-> FALSE, got |-> TRUE, file |-> applied, rt |-> taken]
     ELSE IF held THEN [done |-> TRUE, got |-> TRUE, file |-> Paused(applied, taken, "user"),
                        rt |-> AfterPause(taken)]
     ELSE [done |-> TRUE, got |-> TRUE, file |-> applied, rt |-> ScheduleIf(applied, taken)]

Score(got, o) == results' = IF got THEN Append(results, o) ELSE results
-----------------------------------------------------------------------------
Init ==
  /\ file = NoLoop /\ rt = NewRuntime /\ run = NoRun
  /\ preps = 0 /\ stale = 0
  /\ log = [k \in Kinds \X Turns |-> Unsent]
  /\ sends = 0 /\ results = <<>>
  /\ spent = [events |-> 0, fails |-> 0, lost |-> FALSE]

(***************************************************************************)
(* Commands of the user.                                                   *)
(***************************************************************************)
\* A stop or a replacement waits for the settlement of the run it ended.
Expected == rt.pausedPending \/ Busy

NewLoop(max, full) ==
  [NoLoop EXCEPT !.status = "queued", !.max = max, !.full = full, !.n = file.n + 1]

\* /goal-start: the new loop is durable before the old turn is invalidated.
Start(max, full, ok) ==
  LET replacing == loop.status # "none" /\ ~Terminal(loop)
  IN /\ Happens(ok)
     /\ IF ~ok THEN UNCHANGED <<file, rt, run, preps, stale, results>>
        ELSE /\ file' = NewLoop(max, full)
             /\ rt' = [ClearPending(ClearTimer(rt)) EXCEPT
                         !.awaiting = FALSE, !.pausedPending = FALSE, !.inFlight = FALSE,
                         !.transport = 0, !.timer = TRUE,
                         !.discard = @ \/ (replacing /\ Expected)]
             /\ run' = IF ~Busy THEN run
                       ELSE IF replacing THEN [AbortRun("abort") EXCEPT !.stale = TRUE]
                       ELSE [run EXCEPT !.stale = TRUE]
             /\ preps' = 0 /\ stale' = stale + preps
             /\ results' = <<>>
     /\ UNCHANGED <<log, sends>>

\* /goal-pause
Pause(ok) ==
  /\ Pausable(loop)
  /\ Happens(ok)
  /\ IF ~ok THEN UNCHANGED <<file, rt, run>>
     ELSE /\ file' = Paused(loop, rt, "user")
          /\ rt' = AfterPause(rt)
          /\ run' = AbortRun("abort")
  /\ UNCHANGED <<preps, stale, log, sends, results>>

\* /goal-stop
Stop(ok) ==
  /\ loop.status # "none" /\ ~Terminal(loop)
  /\ Happens(ok)
  /\ IF ~ok THEN UNCHANGED <<file, rt, run>>
     ELSE /\ file' = [loop EXCEPT !.status = "stopped", !.why = "none", !.recovery = FALSE]
          /\ rt' = [ClearPending(ClearTimer(rt)) EXCEPT
                      !.awaiting = FALSE, !.pausedPending = FALSE, !.discard = @ \/ Expected]
          /\ run' = AbortRun("abort")
  /\ UNCHANGED <<preps, stale, log, sends, results>>

\* /goal-complete closes a blocked loop or one whose budget is spent.
Complete(ok) ==
  /\ \/ loop.status = "blocked"
     \/ loop.status = "paused" /\ loop.why = "turn_limit" /\ BudgetSpent(loop)
  /\ Happens(ok)
  /\ IF ~ok THEN UNCHANGED <<file, rt>>
     ELSE /\ file' = [loop EXCEPT !.status = "completed", !.why = "none", !.recovery = FALSE]
          /\ rt' = [ClearPending(ClearTimer(rt)) EXCEPT
                      !.awaiting = FALSE, !.pausedPending = FALSE]
  /\ UNCHANGED <<run, preps, stale, log, sends, results>>

\* /goal-resume, with a budget that only grows.  A result the transcript holds
\* comes first; an unconfirmed delivery is not sent again.
ResumeRecovers(l, ok) ==
  LET o == LateResult(l, rt)
      applied == ApplyResult([l EXCEPT !.recovery = FALSE], o)
  IN /\ IsResult(o)
     /\ IF ok THEN /\ file' = applied
                   /\ rt' = ScheduleIf(applied, [rt EXCEPT !.pausedPending = FALSE])
                   /\ Score(TRUE, o)
        ELSE rt' = [rt EXCEPT !.pausedPending = TRUE] /\ UNCHANGED <<file, results>>

ResumeRefused(l) ==
  \/ (rt.pausedPending \/ l.recovery) /\ l.why = "unknown_delivery"
  \/ BudgetSpent(l) /\ ~l.retry /\ ~Verifying(l) /\ l.why # "unreadable"

ResumeSends(l, ok) ==
  LET unread == BudgetSpent(l) /\ ~l.retry /\ ~Verifying(l)
  IN IF ~ok THEN rt' = [rt EXCEPT !.pausedPending = FALSE] /\ UNCHANGED file
     ELSE /\ file' = [l EXCEPT !.status = IF Verifying(l) THEN "verifying" ELSE "queued",
                               !.kind = IF l.full THEN "goal" ELSE @, !.why = "none",
                               !.streak = IF unread THEN 1 ELSE 0, !.recovery = FALSE]
          /\ rt' = Schedule([rt EXCEPT !.pausedPending = FALSE])

Resume(max, ok) ==
  LET l == [loop EXCEPT !.max = max]
  IN /\ loop.status \in {"paused", "blocked"} /\ max >= loop.max
     /\ Happens(ok)
     /\ \/ ResumeRecovers(l, ok)
        \/ /\ ~IsResult(LateResult(l, rt))
           /\ IF ResumeRefused(l)
              THEN file' = (IF ok THEN l ELSE file) /\ UNCHANGED rt
              ELSE ResumeSends(l, ok)
           /\ UNCHANGED results
     /\ UNCHANGED <<run, preps, stale, log, sends>>
-----------------------------------------------------------------------------
(***************************************************************************)
(* The scheduler: its timer, sendTurn, and the watchdog.                   *)
(***************************************************************************)
\* A prompt above the budget is never prepared or sent: the loop pauses, or
\* tries again when it cannot write that.
AtLimit(l) == l.status = "queued" /\ BudgetSpent(l) /\ ~FreeRetry(l)
PauseAtLimit(ok, r) ==
  /\ Write(ok)
  /\ IF ok THEN file' = [loop EXCEPT !.status = "paused", !.why = "turn_limit"] /\ rt' = r
     ELSE rt' = Schedule(r) /\ UNCHANGED file

\* The timer fires.  While the session is busy or another sendTurn is under way
\* it is only set again.
Tick ==
  /\ rt.timer /\ (Schedulable(loop) => ~Busy /\ ~rt.inFlight)
  /\ LET r == [rt EXCEPT !.timer = FALSE]
     IN \/ /\ ~Schedulable(loop) \/ rt.awaiting
           /\ rt' = r
           /\ UNCHANGED <<file, preps, spent>>
        \/ /\ Schedulable(loop) /\ ~rt.awaiting /\ AtLimit(loop)
           /\ \E ok \in BOOLEAN : PauseAtLimit(ok, r)
           /\ UNCHANGED preps
        \/ /\ Schedulable(loop) /\ ~rt.awaiting /\ ~AtLimit(loop)
           /\ rt' = [r EXCEPT !.inFlight = TRUE] /\ preps' = preps + 1
           /\ UNCHANGED <<file, spent>>
  /\ UNCHANGED <<run, stale, log, sends, results>>

\* The host cannot prepare the turn now, replaced the session, or throws; the
\* last also stands for announced hooks that never come.
PrepareDeclined ==
  /\ preps > 0 /\ preps' = preps - 1
  /\ \/ rt' = Schedule([rt EXCEPT !.inFlight = FALSE])
     \/ rt' = ScheduleIf(loop, [rt EXCEPT !.inFlight = FALSE])
  /\ UNCHANGED <<file, run, stale, log, sends, results, spent>>

PrepareThrows(ok) ==
  /\ preps > 0 /\ preps' = preps - 1
  /\ Happens(ok)
  /\ LET r == [rt EXCEPT !.inFlight = FALSE]
     IN IF Pausable(loop) /\ ok
        THEN file' = Paused(loop, r, "scheduler_error") /\ rt' = AfterPause(r)
        ELSE rt' = r /\ UNCHANGED file
  /\ UNCHANGED <<run, stale, log, sends, results>>

\* A preparation of a loop that was replaced ends without a word, but its
\* finally clears the flag of the runtime.
StalePrepareEnds ==
  /\ stale > 0 /\ stale' = stale - 1
  /\ rt' = [rt EXCEPT !.inFlight = FALSE]
  /\ UNCHANGED <<file, run, preps, log, sends, results, spent>>

\* The loop as it is written before its prompt is sent.
Sent(l) ==
  [l EXCEPT !.status = "running", !.recovery = FALSE, !.retry = FALSE,
            !.kind = IF l.status = "verifying" THEN "verification" ELSE "goal",
            !.count = IF l.status = "queued" /\ ~FreeRetry(l) THEN @ + 1 ELSE @]
AfterSend(r) ==
  [ClearPending(r) EXCEPT !.awaiting = TRUE, !.pausedPending = FALSE, !.timeout = TRUE]

NewRun(n, kind) ==
  [NoRun EXCEPT !.phase = "streaming", !.of = n, !.kind = kind, !.send = sends + 1]
Prompted(l) == [log EXCEPT ![<<l.kind, l.count>>] = [open |-> TRUE, got |-> NoOutcome]]

\* The turn is prepared: sendTurn reads the loop again and sends, or gives the
\* preparation back.  All that goes on is written before the prompt is sent.
Ready == preps > 0 /\ Sendable(loop) /\ ~Busy /\ ~AtLimit(loop)
Finally(r) == [r EXCEPT !.inFlight = FALSE]

Deliver ==
  /\ Ready /\ preps' = preps - 1
  /\ LET l == Sent(loop)
     IN /\ file' = l /\ rt' = AfterSend(Finally(rt))
        /\ run' = NewRun(l.n, l.kind) /\ log' = Prompted(l) /\ sends' = sends + 1
  /\ UNCHANGED <<stale, results, spent>>

DeliverUnwritten ==
  /\ Ready /\ preps' = preps - 1
  /\ Write(FALSE)
  /\ rt' = Schedule(Finally(rt))
  /\ UNCHANGED <<file, run, stale, log, sends, results>>

\* sendMessage throws, whether or not the SDK took the prompt.
DeliverThrows(taken, ok) ==
  /\ Ready /\ preps' = preps - 1
  /\ Count(1, ok, ~taken)
  /\ LET l == Sent(loop)
         r == ClearTimer(AfterSend(Finally(rt)))
     IN /\ file' = IF ok THEN Paused(l, r, "unknown_delivery") ELSE l
        /\ rt' = IF ok THEN AfterPause(r) ELSE r
        /\ IF taken THEN run' = NewRun(l.n, l.kind) /\ log' = Prompted(l) /\ sends' = sends + 1
           ELSE UNCHANGED <<run, log, sends>>
  /\ UNCHANGED <<stale, results>>

Abandon ==
  /\ preps > 0 /\ ~Ready /\ preps' = preps - 1
  /\ \/ /\ ~Schedulable(loop) \/ (~Busy /\ loop.status = "running")
        /\ rt' = Finally(rt) /\ UNCHANGED <<file, spent>>
     \/ /\ Schedulable(loop) /\ Busy
        /\ rt' = Schedule(Finally(rt)) /\ UNCHANGED <<file, spent>>
     \/ /\ ~Busy /\ AtLimit(loop)
        /\ \E ok \in BOOLEAN : PauseAtLimit(ok, Finally(rt))
  /\ UNCHANGED <<run, stale, log, sends, results>>

\* (mutant) A paused turn is left to its settlement.
IdleSettled == ~rt.timer /\ ~rt.awaiting /\ ~rt.inFlight /\ ~rt.pausedPending /\ ~Busy

\* ensureScheduled: the watchdog takes up a live loop that nothing drives.
Idle == ~rt.timer /\ ~rt.awaiting /\ ~rt.inFlight /\ ~Busy

Watchdog(ok) ==
  /\ Idle
  /\ \/ /\ AutoPaused(loop) /\ Write(ok)
        /\ LET o == IF IsResult(rt.pending) THEN rt.pending ELSE LateResult(loop, rt)
               late == ApplyLate(loop, rt, o, IF ok THEN 0 ELSE 1)
           IN IF IsResult(o)
              THEN /\ file' = late.file
                   /\ rt' = IF late.done THEN ClearPending(late.rt) ELSE late.rt
                   /\ Score(late.got, o)
              ELSE /\ IF ok THEN file' = Requeued(loop) /\ rt' = AfterRequeue(rt)
                      ELSE UNCHANGED <<file, rt>>
                   /\ UNCHANGED results
     \/ /\ loop.status = "running" /\ Write(ok)
        /\ IF ok THEN file' = [loop EXCEPT !.status = Again(loop)] /\ rt' = Schedule(rt)
           ELSE UNCHANGED <<file, rt>>
        /\ UNCHANGED results
     \/ /\ Sendable(loop) /\ ok
        /\ rt' = Schedule(rt)
        /\ UNCHANGED <<file, results, spent>>
  /\ UNCHANGED <<run, preps, stale, log, sends>>

\* No progress for fifteen minutes: the turn is paused and its run aborted.
TurnTimeout(ok) ==
  /\ rt.timeout /\ rt.awaiting /\ loop.status = "running"
  /\ IF Busy THEN Happens(ok) ELSE Write(ok)
  /\ IF ok THEN /\ file' = Paused(loop, rt, "turn_timeout")
                /\ rt' = AfterPause(rt)
                /\ run' = AbortRun("abort")
     ELSE UNCHANGED <<file, rt, run>>
  /\ UNCHANGED <<preps, stale, log, sends, results>>
-----------------------------------------------------------------------------
(***************************************************************************)
(* The SDK run and its events.                                             *)
(***************************************************************************)
Outcome == [res |-> run.res, of |-> run.of, kind |-> run.kind, send |-> run.send]

\* turn_end: the last message of the run.  After a pause in the middle of the
\* turn its result is applied at once.
TurnEnd(res, bad) ==
  LET o == [Outcome EXCEPT !.res = res]
      late == ApplyLate(loop, rt, o, bad)
  IN /\ run.phase = "streaming"
     /\ run' = [run EXCEPT !.phase = "turned", !.res = res]
     /\ log' = [k \in DOMAIN log |->
                  IF log[k].open /\ IsResult(o) THEN [log[k] EXCEPT !.got = o] ELSE log[k]]
     /\ IF /\ ~rt.awaiting /\ rt.pausedPending /\ IsResult(o)
           /\ loop.status = "paused" \/ InterruptedRecovery(loop)
        THEN file' = late.file /\ rt' = late.rt /\ Score(late.got, o)
        ELSE bad = 0 /\ UNCHANGED <<file, rt, results>>
     /\ UNCHANGED <<preps, stale, sends>>

\* Unreadable and failed runs are bounded; a run that was aborted may just stop.
Ends(res, bad) ==
  /\ \/ run.of = 0 /\ res \in Imitated \cup {"missing"}
     \/ run.of # 0 /\ res \in Results
     \/ run.of # 0 /\ run.aborted # "no" /\ res = "missing"
  /\ Write(bad = 0)
  /\ TurnEnd(res, bad)
EndsBadly(res) ==
  /\ run.of # 0 /\ run.aborted = "no" /\ res \in Errors \cup {"missing"}
  /\ Happens(TRUE)
  /\ TurnEnd(res, 0)

AgentEnd ==
  /\ run.phase = "turned"
  /\ run' = [run EXCEPT !.phase = "ended"]
  /\ rt' = IF ~rt.discard /\ (rt.awaiting \/ rt.pausedPending)
           THEN [rt EXCEPT !.pending = Outcome, !.aborted = run.aborted] ELSE rt
  /\ UNCHANGED <<file, preps, stale, log, sends, results, spent>>

\* agent_settled, by what it finds.
SettleUnused ==
  /\ ~Pausable(loop)
  /\ rt' = IF loop.status = "none" THEN ClearPending(rt)
           ELSE [ClearPending(rt) EXCEPT !.discard = FALSE, !.awaiting = FALSE,
                                         !.pausedPending = FALSE]
  /\ UNCHANGED <<file, results, spent>>

SettleDiscarded ==
  /\ Pausable(loop) /\ rt.discard
  /\ LET r == [ClearPending(rt) EXCEPT !.discard = FALSE]
     IN rt' = IF rt.awaiting /\ loop.status = "running" THEN r ELSE ScheduleIf(loop, r)
  /\ UNCHANGED <<file, results, spent>>

Awaits(r) == [r EXCEPT !.awaiting = FALSE, !.timeout = FALSE]

\* A run that no turn of the loop waits for.
SettleIdle ==
  /\ Pausable(loop) /\ ~rt.discard
  /\ IF rt.awaiting THEN loop.status # "running" ELSE ~(rt.pausedPending /\ loop.status = "paused")
  /\ rt' = IF rt.awaiting THEN ClearPending(Awaits(rt)) ELSE ScheduleIf(loop, ClearPending(rt))
  /\ UNCHANGED <<file, results, spent>>

\* The run of a paused turn: its result, or one more try after an abort that
\* nobody asked for.
SettlePaused(bad) ==
  LET late == ApplyLate(loop, rt, rt.pending, bad)
  IN /\ loop.status = "paused" /\ ~rt.discard /\ ~rt.awaiting /\ rt.pausedPending
     /\ Write(bad = 0)
     /\ IF IsResult(rt.pending)
        THEN /\ file' = late.file
             /\ rt' = IF late.done THEN ClearPending(late.rt) ELSE late.rt
             /\ Score(late.got, rt.pending)
        ELSE /\ IF AutoPaused(loop) /\ bad = 0
                THEN file' = Requeued(loop) /\ rt' = AfterRequeue(rt)
                ELSE rt' = ClearPending(rt) /\ UNCHANGED file
             /\ UNCHANGED results

Awaited == loop.status = "running" /\ ~rt.discard /\ rt.awaiting

\* An abort the user did not ask for: pause, then apply its result or try again.
SettleAborted(bad) ==
  LET p == Paused(loop, rt, rt.aborted)
      r == AfterPause(rt)
      late == ApplyLate(p, r, rt.pending, IF bad = 2 THEN 1 ELSE 0)
  IN /\ Awaited /\ rt.aborted # "no"
     /\ Write(bad = 0)
     /\ IF bad = 1 THEN UNCHANGED <<file, rt, results>>
        ELSE IF IsResult(rt.pending)
        THEN /\ file' = late.file
             /\ rt' = IF late.done THEN ClearPending(late.rt) ELSE late.rt
             /\ Score(late.got, rt.pending)
        ELSE /\ file' = IF bad = 2 THEN p ELSE Requeued(p)
             /\ rt' = IF bad = 2 THEN ClearPending(r) ELSE AfterRequeue(r)
             /\ UNCHANGED results

Settling(res) ==
  Awaited /\ rt.aborted = "no" /\ rt.pending.res \in res

AfterRetry(r) == Schedule(ClearTimer(ClearPending([r EXCEPT !.awaiting = FALSE])))

\* A broken transport: the same turn again, a few times.
SettleTransport(ok) ==
  /\ Settling({"transport"}) /\ Write(ok)
  /\ IF rt.transport < MaxTransport
     THEN IF ok THEN /\ file' = [loop EXCEPT !.status = Again(loop), !.retry = TRUE, !.why = "none"]
                     /\ rt' = AfterRetry([rt EXCEPT !.transport = @ + 1])
          ELSE UNCHANGED <<file, rt>>
     ELSE IF ok THEN /\ file' = Paused(loop, rt, "scheduler_error")
                     /\ rt' = ClearPending(AfterPause(rt))
          ELSE rt' = ClearPending(rt) /\ UNCHANGED file
  /\ UNCHANGED results

\* A provider that refused the turn: its number is given back, except for the
\* free retry of an unreadable result.
Rewound(l) ==
  [l EXCEPT !.status = Again(l), !.why = "none",
            !.count = IF l.kind = "goal" /\ l.streak # 1 /\ @ > 0 THEN @ - 1 ELSE @]
SettleOverload(ok) ==
  /\ Settling({"overload"}) /\ Write(ok)
  /\ IF ok THEN file' = Rewound(loop) /\ rt' = AfterRetry(rt) ELSE UNCHANGED <<file, rt>>
  /\ UNCHANGED results

\* A result, or a reply without one.
SettleResult(ok) ==
  LET o == rt.pending
      l == IF IsResult(o) THEN ApplyResult(loop, o) ELSE ApplyMissing(loop)
  IN /\ Settling(Results \cup {"missing", "none"}) /\ Write(ok)
     /\ IF ok THEN /\ file' = l
                   /\ rt' = ScheduleIf(l, ClearPending([Awaits(rt) EXCEPT !.transport = 0]))
                   /\ Score(IsResult(o), o)
        ELSE rt' = [rt EXCEPT !.transport = 0] /\ UNCHANGED <<file, results>>

AgentSettled ==
  /\ run.phase = "ended"
  /\ \/ SettleUnused \/ SettleDiscarded \/ SettleIdle
     \/ \E bad \in 0 .. 2 : SettlePaused(bad) \/ SettleAborted(bad)
     \/ \E ok \in BOOLEAN : SettleTransport(ok) \/ SettleOverload(ok) \/ SettleResult(ok)
  /\ run' = [run EXCEPT !.phase = "closing"]
  /\ UNCHANGED <<preps, stale, log, sends>>

\* A provider limit: the handler awaits whether the host has another route.
LimitAsked ==
  /\ run.phase = "ended" /\ Settling({"limit"})
  /\ run' = [run EXCEPT !.phase = "settling"]
  /\ UNCHANGED <<file, rt, preps, stale, log, sends, results, spent>>

Kept(r) == IF r.pausedPending THEN r ELSE ClearPending(r)

LimitAnswered(route, ok) ==
  /\ run.phase = "settling" /\ run' = [run EXCEPT !.phase = "closing"]
  /\ Write(ok)
  /\ IF run.stale \/ (route /\ loop.status # "running")
     THEN rt' = Kept(rt) /\ UNCHANGED file
     ELSE IF route
     THEN IF ok THEN file' = Rewound(loop) /\ rt' = AfterRetry(rt) ELSE UNCHANGED <<file, rt>>
     ELSE IF ok /\ Pausable(loop)
     THEN file' = Paused(loop, rt, "scheduler_error") /\ rt' = ClearPending(AfterPause(rt))
     ELSE rt' = ClearPending(rt) /\ UNCHANGED file
  /\ UNCHANGED <<preps, stale, log, sends, results>>

\* The other agent_settled handlers are done: the session is idle.
RunCloses ==
  /\ run.phase = "closing" /\ run' = NoRun
  /\ UNCHANGED <<file, rt, preps, stale, log, sends, results, spent>>

\* The provider or the hang watchdog of the host aborts a turn.
HostAborts(why) ==
  /\ run.phase = "streaming" /\ run.of # 0 /\ run.aborted = "no"
  /\ Happens(TRUE)
  /\ run' = AbortRun(why)
  /\ UNCHANGED <<file, rt, preps, stale, log, sends, results>>

\* A turn of the user's own; a loop goes on after it.
UserTurn ==
  /\ ~Busy /\ Happens(TRUE)
  /\ run' = NewRun(0, "user") /\ sends' = sends + 1
  /\ log' = [k \in DOMAIN log |-> [log[k] EXCEPT !.open = FALSE]]
  /\ UNCHANGED <<file, rt, preps, stale, results>>

\* A manual compaction is over: a turn it interrupted is queued again.
Compacted(ok) ==
  /\ AutoPaused(loop) /\ ~Busy /\ Write(ok)
  /\ IF ok THEN file' = Requeued(loop) /\ rt' = AfterRequeue(rt) ELSE UNCHANGED <<file, rt>>
  /\ UNCHANGED <<run, preps, stale, log, sends, results>>
-----------------------------------------------------------------------------
(***************************************************************************)
(* A runtime ends and session_start makes the next one: after a crash or a *)
(* replaced session ("crash"), a session_shutdown ("close"), or a reload   *)
(* of the extension in place, which hands part of the old runtime on.      *)
(***************************************************************************)
Interrupted(l, how) ==
  \/ l.status = "running"
  \/ how # "reload" /\ AbortPaused(l)
  \/ how = "close" /\ Sendable(l)

SessionEnd(l) ==
  [l EXCEPT !.status = "paused", !.why = "session_end",
            !.recovery = @ \/ l.status = "running", !.retry = @ \/ l.status = "running"]

Restarted(l, how) == IF Interrupted(l, how) THEN SessionEnd(l) ELSE l

NextRuntime(l, how) ==
  LET r == [NewRuntime EXCEPT
              !.pausedPending = how = "crash" /\ Interrupted(l, how) /\ Restarted(l, how).recovery]
  IN ScheduleIf(Restarted(l, how),
       IF how # "reload" THEN r
       ELSE [r EXCEPT !.pausedPending = rt.pausedPending, !.pending = rt.pending,
                      !.aborted = rt.aborted, !.discard = rt.discard,
                      !.transport = rt.transport])

Restart(how, ok) ==
  /\ loop.status # "none" /\ (how = "reload" => ~Busy)
  /\ ok \/ (how = "crash" /\ Interrupted(loop, how))
  /\ Happens(ok)
  /\ file' = IF ok THEN Restarted(loop, how) ELSE file
  /\ rt' = IF ok THEN NextRuntime(loop, how) ELSE NewRuntime
  /\ run' = NoRun /\ preps' = 0 /\ stale' = 0
  /\ UNCHANGED <<log, sends, results>>

\* The process dies after the turn was written and before its prompt was sent.
DiesBeforeSend ==
  /\ Ready /\ Count(1, TRUE, TRUE)
  /\ file' = Restarted(Sent(loop), "crash") /\ rt' = NextRuntime(Sent(loop), "crash")
  /\ run' = NoRun /\ preps' = 0 /\ stale' = 0
  /\ UNCHANGED <<log, sends, results>>
-----------------------------------------------------------------------------
Command ==
  \E ok \in BOOLEAN :
    \/ \E max \in Budgets : (\E full \in Modes : Start(max, full, ok)) \/ Resume(max, ok)
    \/ Pause(ok) \/ Stop(ok) \/ Complete(ok)

Prepared ==
  \/ PrepareDeclined \/ StalePrepareEnds \/ Deliver \/ DeliverUnwritten \/ Abandon
  \/ \E ok \in BOOLEAN : PrepareThrows(ok) \/ (\E taken \in BOOLEAN : DeliverThrows(taken, ok))

RunEnds == \E res \in Results \cup {"missing"}, bad \in 0 .. 2 : Ends(res, bad)
RunSteps ==
  \/ AgentEnd \/ AgentSettled \/ LimitAsked \/ RunCloses
  \/ \E route, ok \in BOOLEAN : LimitAnswered(route, ok)

Recovers == \E ok \in BOOLEAN : Watchdog(ok) \/ TurnTimeout(ok) \/ Compacted(ok)

Faults ==
  \/ \E res \in Errors \cup {"missing"} : EndsBadly(res)
  \/ \E why \in {"abort", "hang"} : HostAborts(why)
  \/ \E how \in {"crash", "close", "reload"}, ok \in BOOLEAN : Restart(how, ok)
  \/ DiesBeforeSend

Next == Command \/ Tick \/ Prepared \/ RunEnds \/ RunSteps \/ Recovers \/ UserTurn \/ Faults

Spec == Init /\ [][Next]_vars

(***************************************************************************)
(* Fairness: timers and the watchdog fire, a turn nobody disturbs ends and *)
(* is settled, the host answers, and in the end it prepares a turn.        *)
(***************************************************************************)
Timers == Tick \/ (\E ok \in BOOLEAN : Watchdog(ok) \/ (~Busy /\ TurnTimeout(ok)))
Fairness ==
  /\ WF_vars(Timers) /\ WF_vars(RunEnds \/ RunSteps)
  /\ WF_vars(StalePrepareEnds) /\ SF_vars(Deliver \/ Abandon)
LiveSpec == Spec /\ Fairness
-----------------------------------------------------------------------------
Ongoing(l) == Schedulable(l) \/ AutoPaused(l)

TypeOK ==
  /\ loop.status \in {"none", "queued", "running", "verifying", "paused", "blocked",
                      "completed", "stopped"}
  /\ run.phase \in {"none", "streaming", "turned", "ended", "settling", "closing"}
  /\ preps \in Nat /\ stale \in Nat

\* The results of a loop come from runs it began, one from each run, and a turn
\* counts for one.
OwnResults ==
  /\ \A i \in DOMAIN results : results[i].of = file.n
  /\ \A i, j \in DOMAIN results : results[i].send = results[j].send => i = j
  /\ Cardinality({i \in DOMAIN results : results[i].kind = "goal"}) <= file.count

\* However a turn is paused, aborted, retried, given back or recovered from the
\* transcript, the budget is kept and a result is applied once, to the loop it is of.
\* (Where a counted prompt never reached the transcript, an older one of the same
\* number may be taken for it.)
ResultsCounted ==
  /\ TypeOK
  /\ file.count <= file.max
  /\ ~spent.lost => OwnResults

\* A loop that is stopped or closed is not touched until the user starts another,
\* and one the user paused goes on only at a command, or where the pause itself
\* could not be written.
UserHeeded ==
  [][/\ Terminal(loop) => file' = file \/ file'.n # file.n
     /\ loop.status = "paused" /\ loop.why = "user" /\ Ongoing(loop')
          => Command \/ spent'.fails > spent.fails]_vars

\* "completed" is never the word of the turn that did the work: a loop that the user
\* does not close is completed by the result of a verification turn.
CompletionVerified ==
  [][file'.status = "completed" /\ file.status # "completed"
     /\ ~spent.lost /\ ~Complete(TRUE)
       => /\ Len(results') > Len(results)
          /\ results'[Len(results')].kind = "verification"
          /\ results'[Len(results')].res = "verified"]_vars

\* A prompt that may not have been sent, and whose pause could not be written
\* either, is awaited without a clock.
Stranded == rt.awaiting /\ ~rt.timeout /\ ~Busy

\* A loop does not hang: its turns are sent, settled, retried or timed out until it is
\* finished or waits for the user.
LoopEnds == Ongoing(loop) ~> ~Ongoing(loop) \/ Stranded

\* "A blocked loop can be explicitly closed" (completeLoop): a loop the user closed
\* stays as it is until another is started.
ClosedStaysClosed ==
  [][Terminal(file) => file' = file \/ file'.n # file.n]_vars
=============================================================================
