---------------------------- MODULE LiveSession ----------------------------
(***************************************************************************)
(* The live session of one task in one Backend process: how ensureLive     *)
(* opens it, and what disposes, replaces, moves, archives or deletes under *)
(* its feet (backend/core/live-lifecycle.mjs and the calls of it in        *)
(* backend/runtime-src/lib/pi/harness.ts).                                 *)
(*                                                                         *)
(* An ensureLive call is a pair: the caller that made it and how many      *)
(* times it was retried; a retry is a call of its own, made inside the     *)
(* attempt of the call before it, which awaits it.  A session bears the    *)
(* name of the call that created it.  JavaScript runs every promise        *)
(* continuation that is ready before it takes the next event: an action    *)
(* of Event waits until no Continuation is ready.                          *)
(*                                                                         *)
(* "settings" is the version of what the task record says of its session:  *)
(* route, agent, directory and session file.                               *)
(***************************************************************************)
EXTENDS Naturals, FiniteSets

CONSTANTS
  Caller,       \* callers of ensureLive, once each
  Promoter,     \* the caller that is promoteTaskOnce, allowed during the promotion
  MaxNested,    \* bound on the retries of a call
  MaxEpoch,     \* bound on the generations that operations of the user begin
  AccountFails, \* callers whose account runtime may fail to start
  None          \* no call, no session

ASSUME CallerAssumption == {Promoter} \cup AccountFails \subseteq Caller
ASSUME RetriesAssumption == MaxNested \in Nat
ASSUME EpochAssumption == MaxEpoch \in Nat

Call == Caller \X (0 .. MaxNested)
ASSUME NoneAssumption == None \notin Call

VARIABLES
  task,      \* "present", "archived" or "deleted"
  settings,  \* the version of its record
  epoch,     \* ensureLiveEpoch
  live,      \* state().live: the session registered, or None
  inflight,  \* ensureLiveInflight: the call whose attempt is tracked, or None
  shutdown,  \* liveShutdownInflight: the session that shuts down, or None
  held,      \* the call that took the lease this process holds, or None
  session,   \* of each session: "none", "open", "retiring" or "disposed"
  pc,        \* of each call
  ep,        \* the epoch it captured
  used,      \* the settings its attempt read
  awaits,    \* the retirement or the attempt it waits for
  prior,     \* the live it captured before it waited for the account runtime
  promotion, \* promoteInflight: "none", "moving", "finishing", "opening" or "over"
  removal,   \* "none", "archiving", "destroying" or "draining"
  drained,   \* the attempt that destroyTask waits for
  races      \* (history) the known races that have happened

callVars == <<ep, used, awaits, prior>>
otherVars == <<promotion, removal, drained>>
sessionVars == <<task, settings, epoch, live, inflight, shutdown, held, session, pc,
          callVars, otherVars, races>>

Pcs == {"unused", "promotion", "retirement", "joined", "proceed", "settings", "creating",
        "discarding", "rejecting", "attaching", "attached", "nested", "returning",
        "throwing", "done", "failed"}

CallSettled(e) == pc[e] \in {"done", "failed"}
Attachable == task = "present"
Promoting == promotion \in {"moving", "finishing", "opening"}
Retry(e) == <<e[1], e[2] + 1>>
Goto(e, label) == pc' = [pc EXCEPT ![e] = label]
Set(f, e, v) == [f EXCEPT ![e] = v]

\* (mutant) Every generation is current.
StaleEpochNever(e) == FALSE
\* isStaleEnsureEpoch.
StaleEpoch(e) == epoch # ep[e]

SessionInit ==
  /\ task = "present"
  /\ settings = 0
  /\ epoch = 0
  /\ live = None /\ inflight = None /\ shutdown = None /\ held = None
  /\ session = [e \in Call |-> "none"]
  /\ pc = [e \in Call |-> "unused"]
  /\ ep = [e \in Call |-> 0]
  /\ used = [e \in Call |-> 0]
  /\ awaits = [e \in Call |-> None]
  /\ prior = [e \in Call |-> None]
  /\ promotion = "none" /\ removal = "none" /\ drained = None
  /\ races = {}

(***************************************************************************)
(* disposeLive: a new generation, whatever is registered.  A registered    *)
(* session is disposed at once, or after the shutdown of its extensions.   *)
(***************************************************************************)
DisposeLive(n) ==
  /\ epoch' = epoch + n
  /\ live' = None
  /\ IF live = None THEN UNCHANGED <<session, shutdown>>
     ELSE \/ session' = Set(session, live, "disposed") /\ UNCHANGED shutdown
          \/ session' = Set(session, live, "retiring") /\ shutdown' = live

ShutdownDone(e) ==
  /\ session[e] = "retiring"
  /\ session' = Set(session, e, "disposed")
  /\ shutdown' = IF shutdown = e THEN None ELSE shutdown
  /\ UNCHANGED <<task, settings, epoch, live, inflight, held, pc, callVars, otherVars, races>>

(***************************************************************************)
(* The gates of ensureLive.  The promotion and the retirement to wait for  *)
(* are those under way when the call is made.                              *)
(***************************************************************************)
\* (mutant) The promotion's own call waits for the promotion.
AllowDuringPromotionNever(e) == FALSE
AllowDuringPromotion(e) == e[1] = Promoter

Enter(e, labels, retirement) ==
  /\ pc' = IF ~Attachable THEN Set(labels, e, "failed")
           ELSE IF Promoting /\ ~AllowDuringPromotion(e) THEN Set(labels, e, "promotion")
           ELSE Set(labels, e, "retirement")
  /\ awaits' = IF Attachable THEN Set(awaits, e, retirement) ELSE awaits

EnsureLive(e) ==
  /\ e[1] # Promoter /\ e[2] = 0
  /\ pc[e] = "unused"
  /\ Enter(e, pc, shutdown)
  /\ UNCHANGED <<task, settings, epoch, live, inflight, shutdown, held, session, ep, used,
                 prior, otherVars, races>>

PromotionSettled(e) == pc[e] = "promotion" /\ ~Promoting
PassPromotion(e) ==
  /\ PromotionSettled(e)
  /\ IF Attachable THEN Goto(e, "retirement") /\ UNCHANGED awaits
     ELSE Goto(e, "failed") /\ awaits' = Set(awaits, e, None)
  /\ UNCHANGED <<task, settings, epoch, live, inflight, shutdown, held, session, ep, used,
                 prior, otherVars, races>>

\* The gates are passed: reuse what is registered, join an attempt, or make one.
Retired(e) == pc[e] = "retirement" /\ (awaits[e] # None => session[awaits[e]] # "retiring")
Decide(e) ==
  /\ Retired(e)
  /\ ep' = Set(ep, e, epoch)
  /\ awaits' = Set(awaits, e, IF live = None THEN inflight ELSE None)
  /\ Goto(e, IF live # None THEN "done" ELSE IF inflight # None THEN "joined" ELSE "proceed")
  /\ UNCHANGED <<task, settings, epoch, live, inflight, shutdown, held, session, used, prior,
                 otherVars, races>>

\* The joined attempt's failure is the joiner's.  Of another generation, or with
\* nothing registered, the joiner makes an attempt of its own.
JoinSettled(e) == pc[e] = "joined" /\ CallSettled(awaits[e])
Join(e) ==
  /\ JoinSettled(e)
  /\ awaits' = Set(awaits, e, None)
  /\ Goto(e, IF pc[awaits[e]] = "failed" \/ ~Attachable THEN "failed"
             ELSE IF ~StaleEpoch(e) /\ live # None THEN "done"
             ELSE "proceed")
  /\ UNCHANGED <<task, settings, epoch, live, inflight, shutdown, held, session, ep, used,
                 prior, otherVars, races>>

(***************************************************************************)
(* The tracked attempt.                                                    *)
(***************************************************************************)
StartAttempt(e) ==
  /\ pc[e] = "proceed"
  /\ inflight' = e
  /\ races' = IF inflight = None THEN races ELSE races \cup {"overlap"}
  /\ used' = Set(used, e, settings)
  /\ Goto(e, IF ~Attachable THEN "throwing" ELSE IF live # None THEN "returning" ELSE "settings")
  /\ UNCHANGED <<task, settings, epoch, live, shutdown, held, session, ep, awaits, prior,
                 otherVars>>

\* The initialization lease, unless this process owns the task's lease already.
AcquireLease(e) ==
  /\ pc[e] = "settings"
  /\ Goto(e, "creating")
  /\ held' = IF held = None THEN e ELSE held
  /\ UNCHANGED <<task, settings, epoch, live, inflight, shutdown, session, callVars, otherVars,
                 races>>

\* The settings cannot be resolved, the lease is held elsewhere, createSession rejects.
AttemptFails(e) ==
  /\ pc[e] \in {"settings", "creating"}
  /\ Goto(e, "throwing")
  /\ UNCHANGED <<task, settings, epoch, live, inflight, shutdown, held, session, callVars,
                 otherVars, races>>

\* createSession resolves: a stale generation wins over a vanished task; otherwise
\* the record is patched with the session's route and file.
Created(e) ==
  /\ pc[e] = "creating"
  /\ session' = Set(session, e, "open")
  /\ IF StaleEpoch(e) \/ task = "deleted"
     THEN /\ Goto(e, IF StaleEpoch(e) THEN "discarding" ELSE "rejecting")
          /\ UNCHANGED <<settings, prior>>
     ELSE Goto(e, "attaching") /\ settings' = used[e] /\ prior' = Set(prior, e, live)
  /\ UNCHANGED <<task, epoch, live, inflight, shutdown, held, ep, used, awaits, otherVars, races>>

Nested(e, retirement) ==
  e[2] < MaxNested /\ Enter(Retry(e), Set(pc, e, "nested"), retirement)

\* disposeSessionBestEffort, and then the retry, or a task that is not found.
Discard(e) ==
  /\ pc[e] \in {"discarding", "rejecting"}
  /\ session' = Set(session, e, "disposed")
  /\ IF pc[e] = "discarding" THEN Nested(e, shutdown) ELSE Goto(e, "throwing") /\ UNCHANGED awaits
  /\ UNCHANGED <<task, settings, epoch, live, inflight, shutdown, held, ep, used, prior,
                 otherVars, races>>

\* attachSession, once the account runtime is acquired: the live captured before is
\* detached, unless its shutdown is still under way, and the new one registered whatever
\* is registered now.
Detached(e) == prior[e] # None /\ session[prior[e]] # "retiring"
Attach(e) ==
  /\ pc[e] = "attaching"
  /\ session' = IF Detached(e) THEN Set(session, prior[e], "disposed") ELSE session
  /\ live' = e
  /\ prior' = Set(prior, e, None)
  /\ Goto(e, "attached")
  /\ UNCHANGED <<task, settings, epoch, inflight, shutdown, held, ep, used, awaits, otherVars,
                 races>>

\* The account runtime does not start: the session that was created stays open.
AccountFailure(e) ==
  /\ pc[e] = "attaching"
  /\ e[1] \in AccountFails
  /\ prior' = Set(prior, e, None)
  /\ Goto(e, "throwing")
  /\ UNCHANGED <<task, settings, epoch, live, inflight, shutdown, held, session, ep, used,
                 awaits, otherVars, races>>

\* (mutant) A session is kept whatever its generation.
KeepAlways(e) == TRUE
Keep(e) == ~StaleEpoch(e)

CheckAttached(e) ==
  /\ pc[e] = "attached"
  /\ IF Keep(e)
     THEN Goto(e, "returning") /\ UNCHANGED <<epoch, live, session, shutdown, awaits>>
     ELSE /\ IF live = e THEN DisposeLive(1) ELSE UNCHANGED <<epoch, live, session, shutdown>>
          /\ Nested(e, shutdown')
  /\ UNCHANGED <<task, settings, inflight, held, ep, used, prior, otherVars, races>>

NestedSettled(e) == pc[e] = "nested" /\ CallSettled(Retry(e))
NestedDone(e) ==
  /\ NestedSettled(e)
  /\ Goto(e, IF pc[Retry(e)] = "done" THEN "returning" ELSE "throwing")
  /\ UNCHANGED <<task, settings, epoch, live, inflight, shutdown, held, session, callVars,
                 otherVars, races>>

\* (mutant) Only an attempt that succeeds gives its lease back.
ReleasesIfReturning(e) == held = e /\ pc[e] = "returning"
Releases(e) == held = e

\* The two finally blocks: the initialization lease, and the entry if it is still ours.
Settle(e) ==
  /\ pc[e] \in {"returning", "throwing"}
  /\ held' = IF Releases(e) THEN None ELSE held
  /\ inflight' = IF inflight = e THEN None ELSE inflight
  /\ ep' = Set(ep, e, 0)
  /\ Goto(e, IF pc[e] = "returning" THEN "done" ELSE "failed")
  /\ UNCHANGED <<task, settings, epoch, live, shutdown, session, used, awaits, prior, otherVars,
                 races>>

(***************************************************************************)
(* What the user does to the task meanwhile.                               *)
(***************************************************************************)
\* The model of a cold task, its account or its agent: disposeLive, then the patch.
ChangeSettings ==
  /\ Attachable
  /\ epoch < MaxEpoch
  /\ DisposeLive(1)
  /\ settings' = settings + 1
  /\ UNCHANGED <<task, inflight, held, pc, callVars, otherVars, races>>

\* A call that asked for a promotion to wait for when there was none.
PastPromotion == \E e \in Call : pc[e] = "retirement"

\* promoteTaskOnce is refused while the task's lease is held.
Promote ==
  /\ Attachable
  /\ promotion = "none"
  /\ held = None
  /\ epoch < MaxEpoch
  /\ DisposeLive(1)
  /\ promotion' = "moving"
  /\ races' = IF PastPromotion THEN races \cup {"promotion"} ELSE races
  /\ UNCHANGED <<task, settings, inflight, held, pc, callVars, removal, drained>>

MoveFails ==
  /\ promotion = "moving"
  /\ promotion' = "none"
  /\ UNCHANGED <<task, settings, epoch, live, inflight, shutdown, held, session, pc, callVars,
                 removal, drained, races>>

\* The record names the new directory.
MoveDone ==
  /\ promotion = "moving"
  /\ task # "deleted"
  /\ settings' = settings + 1
  /\ promotion' = "finishing"
  /\ UNCHANGED <<task, epoch, live, inflight, shutdown, held, session, pc, callVars, removal,
                 drained, races>>

\* The old directory is removed, or not; a task that is watched is opened in the new one.
MoveFinalized ==
  /\ promotion = "finishing"
  /\ \/ promotion' = "over" /\ UNCHANGED <<pc, awaits>>
     \/ promotion' = "opening" /\ Enter(<<Promoter, 0>>, pc, shutdown)
  /\ UNCHANGED <<task, settings, epoch, live, inflight, shutdown, held, session, ep, used, prior,
                 removal, drained, races>>

Opened == promotion = "opening" /\ CallSettled(<<Promoter, 0>>)
PromotionDone ==
  /\ Opened
  /\ promotion' = "over"
  /\ UNCHANGED <<task, settings, epoch, live, inflight, shutdown, held, session, pc, callVars,
                 removal, drained, races>>

\* archiveTask and destroyTask abort the turn first.
BeginRemoval ==
  /\ removal = "none"
  /\ epoch < MaxEpoch
  /\ \/ task = "present" /\ removal' = "archiving"
     \/ task # "deleted" /\ removal' = "destroying"
  /\ UNCHANGED <<task, settings, epoch, live, inflight, shutdown, held, session, pc, callVars,
                 promotion, drained, races>>

Archive ==
  /\ removal = "archiving"
  /\ DisposeLive(1)
  /\ task' = "archived"
  /\ removal' = "none"
  /\ UNCHANGED <<settings, inflight, held, pc, callVars, promotion, drained, races>>

RestoreTask ==
  /\ task = "archived"
  /\ removal = "none"
  /\ task' = "present"
  /\ UNCHANGED <<settings, epoch, live, inflight, shutdown, held, session, pc, callVars,
                 otherVars, races>>

\* disposeLive, a new generation, and what is in flight is drained before deleteTask.
DestroyDispose ==
  /\ removal = "destroying"
  /\ drained' = inflight
  /\ IF inflight # None
     THEN DisposeLive(2) /\ removal' = "draining" /\ UNCHANGED task
     ELSE DisposeLive(3) /\ removal' = "none" /\ task' = "deleted"
  /\ UNCHANGED <<settings, inflight, held, pc, callVars, promotion, races>>

Drained == removal = "draining" /\ CallSettled(drained)
Destroy ==
  /\ Drained
  /\ DisposeLive(IF live = None THEN 1 ELSE 2)
  /\ task' = "deleted"
  /\ removal' = "none"
  /\ drained' = None
  /\ UNCHANGED <<settings, inflight, held, pc, callVars, promotion, races>>

(***************************************************************************)
(* Continuations before events.                                            *)
(***************************************************************************)
Continuation ==
  \/ \E e \in Call :
       \/ PassPromotion(e) \/ Decide(e) \/ Join(e) \/ StartAttempt(e)
       \/ CheckAttached(e) \/ NestedDone(e) \/ Settle(e)
  \/ PromotionDone
  \/ Destroy

Ready ==
  \/ \E e \in Call :
       \/ PromotionSettled(e) \/ Retired(e) \/ JoinSettled(e) \/ NestedSettled(e)
       \/ pc[e] \in {"proceed", "attached", "returning", "throwing"}
  \/ Opened
  \/ Drained

\* What the process itself completes.
Completion ==
  \/ \E e \in Call :
       \/ AcquireLease(e) \/ AttemptFails(e) \/ Created(e) \/ Discard(e)
       \/ Attach(e) \/ AccountFailure(e) \/ ShutdownDone(e)
  \/ MoveFails \/ MoveDone \/ MoveFinalized \/ Archive \/ DestroyDispose

Request ==
  \/ \E e \in Call : EnsureLive(e)
  \/ ChangeSettings \/ Promote \/ BeginRemoval \/ RestoreTask

Event == ~Ready /\ (Completion \/ Request)

SessionNext == Continuation \/ Event

SessionSpec == SessionInit /\ [][SessionNext]_sessionVars

\* The event loop runs on, and some operation under way completes: session creation
\* and shutdown have timeouts of their own, and there are finitely many to complete.
SessionFairness == WF_sessionVars(Continuation \/ (~Ready /\ Completion))

FairSessionSpec == SessionSpec /\ SessionFairness
-----------------------------------------------------------------------------
\* Types of the registry, of the attempts and of what the user does meanwhile.
SessionTypeOK ==
  /\ task \in {"present", "archived", "deleted"}
  /\ settings \in Nat
  /\ epoch \in Nat
  /\ live \in Call \cup {None}
  /\ inflight \in Call \cup {None}
  /\ shutdown \in Call \cup {None}
  /\ held \in Call \cup {None}
  /\ session \in [Call -> {"none", "open", "retiring", "disposed"}]
  /\ pc \in [Call -> Pcs]
  /\ ep \in [Call -> Nat]
  /\ used \in [Call -> Nat]
  /\ awaits \in [Call -> Call \cup {None}]
  /\ prior \in [Call -> Call \cup {None}]
  /\ promotion \in {"none", "moving", "finishing", "opening", "over"}
  /\ removal \in {"none", "archiving", "destroying", "draining"}
  /\ drained \in Call \cup {None}
  /\ races \subseteq {"overlap", "promotion"}

\* "so it cannot restore the old model": an attempt that began before the settings
\* changed, or the task was moved, never writes them back.
SettingsKept == [][races \cap {"promotion"} = {} => settings' >= settings]_sessionVars

\* An archived or deleted task has no live session, however late an attempt ends.
GoneStaysGone == task # "present" => live = None \/ pc[live] = "attached"

\* The session that callers are handed was opened with the task's present settings;
\* one that was not is registered only until its attempt looks at its generation.
\* A task that is gone has none.
LiveCurrent ==
  /\ SessionTypeOK
  /\ GoneStaysGone
  /\ live # None /\ pc[live] # "attached" /\ "promotion" \notin races => used[live] = settings

Quiescent == \A e \in Call : pc[e] \in {"unused", "done", "failed"}

\* The initialization lease is given back on every way out of an attempt.
LeaseReturned == Quiescent => held = None

\* No session is left open that nobody can reach, unless two attempts overlapped or
\* the account runtime failed.
SessionsAccounted ==
  Quiescent /\ "overlap" \notin races =>
    \A e \in Call : e[1] \notin AccountFails => (session[e] = "open" => e = live)

\* Whichever way the attempts end, they leave neither the lease nor a session behind.
NothingLeftBehind == LeaseReturned /\ SessionsAccounted

\* Every call settles, unless a retry, or the promotion's own call, waits for an attempt
\* that waits for it.
JoinsItself == \E e \in Call : pc[e] = "joined" /\ awaits[e][1] = e[1]
JoinsPromotion ==
  \E e \in Call : e[1] = Promoter /\ pc[e] = "joined" /\ \E d \in Call : pc[d] = "promotion"
EnsureSettles == ~Quiescent ~> Quiescent \/ JoinsItself \/ JoinsPromotion
=============================================================================
