--------------------------- MODULE TaskLeaseProofs ---------------------------
(***************************************************************************)
(* Proofs about TaskLease, for any number of workers and pids: a session   *)
(* write is fenced, and among workers that keep the pace of their timers   *)
(* whoever counts the task as its own has an active lease.                 *)
(***************************************************************************)
EXTENDS TaskLease, TLAPS

\* The types, in groups.
ProcTyped   == setup \in Setups /\ life \in [Worker -> {"new", "up", "dead"}]
LeaseTyped  == lease \in Lease \cup {NoLease} /\ section \subseteq Worker
OwnTyped    == /\ owned \in [Worker -> BOOLEAN] /\ failures \in [Worker -> 0 .. MaxFailures - 1]
               /\ due \in [Worker -> BOOLEAN] /\ running \in [Worker -> BOOLEAN]
NoticeTyped == listening \in [Worker -> BOOLEAN] /\ unreported \in [Worker -> BOOLEAN]
StepTyped   == /\ at \in [Worker -> Labels] /\ tries \in [Worker -> 0 .. MaxAttempts - 1]
               /\ drift \in [Worker -> Ages] /\ temporary \in [Worker -> BOOLEAN]
PastTyped   == /\ status \in {"idle", "working", "error"}
               /\ lost \in [Worker -> BOOLEAN] /\ late \in BOOLEAN
Typed == ProcTyped /\ LeaseTyped /\ OwnTyped /\ NoticeTyped /\ StepTyped /\ PastTyped

\* The steps under the reclaim lock; those that rename over or unlink a lease of the
\* worker's own; and those of a touch.
Critical   == {"revalidate", "unlinkStale", "writeCheck", "write"}
OwnSteps   == {"beatWrite", "touchWrite", "unlinkOwn"}
TouchSteps == {"touch", "touchWrite", "beatWrite"}

\* The lock is an exclusive one, whatever the pace.
Exclusive ==
  /\ \A w \in Worker : at[w] \in Critical => w \in section
  /\ \A v, w \in section : v = w

\* A worker that does not run owns and does nothing.
Rests(w) == ~Up(w) => at[w] = "idle" /\ ~owned[w] /\ ~due[w] /\ ~running[w]

\* What a worker is about to replace or to remove as its own is its own, and active; and
\* the lease is the writer's.
Holds(w) ==
  /\ at[w] \in OwnSteps => LeaseOf(w) /\ lease.heartbeat <= Stale
  /\ at[w] = "write" => LeaseOf(w)

\* No operation but a session write is held up, and nobody reconciles.
Prompt(w) == drift[w] = 0 /\ at[w] \notin {"orphanPatch", "orphanUnlink"}

Steady(w) == Rests(w) /\ Holds(w) /\ Prompt(w)

\* A lease about to be unlinked as stale is one nobody running keeps fresh.
Judged ==
  \A v \in Worker : at[v] = "unlinkStale" =>
    lease # NoLease /\ (Up(lease.by) => lease.heartbeat > Stale)

Begun == lease # NoLease => life[lease.by] # "new"

Fenced == (\A w \in Worker : Steady(w)) /\ Judged /\ Begun

\* What is owned and not lost is held, and is no older than the failed heartbeats and the one
\* under way.
Beat(w)  == IF due[w] \/ at[w] = "beatWrite" THEN 1 ELSE 0
Keeps(w) == owned[w] /\ ~lost[w] => LeaseOf(w) /\ lease.heartbeat <= failures[w] + Beat(w)

\* Only an owner beats and touches, and who executes the task owns it or has lost it.
OwnsFirst(w) ==
  /\ due[w] \/ at[w] \in TouchSteps => owned[w]
  /\ running[w] => owned[w] \/ lost[w]
  /\ temporary[w] => lost[w]

\* A worker gives a lease of its own up by losing it or by unlinking it.
Leaves(w) ==
  /\ LeaseOf(w) /\ Up(w) => owned[w] \/ lost[w] \/ at[w] = "unlinkOwn"
  /\ at[w] = "unlinkOwn" => ~owned[w]

Sound(w) == Keeps(w) /\ OwnsFirst(w) /\ Leaves(w)

IInv ==
  /\ Typed /\ Exclusive
  /\ Orderly => Fenced
  /\ Paced => \A w \in Worker : Sound(w)
-----------------------------------------------------------------------------
LEMMA TypedMeans == Typed <=> TypeOK
BY DEF Typed, TypeOK, ProcTyped, LeaseTyped, OwnTyped, NoticeTyped, StepTyped, PastTyped

LEMMA InitInv == Init => IInv
<1> SUFFICES ASSUME Init PROVE IInv
  OBVIOUS
<1> USE DEF Init
<1>1. Typed
  <2>1. ProcTyped /\ LeaseTyped /\ NoticeTyped /\ PastTyped
    BY DEF ProcTyped, LeaseTyped, NoticeTyped, PastTyped
  <2>2. OwnTyped
    BY LimitAssumption DEF OwnTyped
  <2>3. StepTyped
    BY LimitAssumption DEF StepTyped, Labels, Ages
  <2> QED BY <2>1, <2>2, <2>3 DEF Typed
<1>2. Exclusive
  BY DEF Exclusive, Critical
<1>3. \A w \in Worker : Steady(w)
  BY DEF Steady, Rests, Holds, Prompt, OwnSteps
<1>4. \A w \in Worker : Sound(w)
  BY DEF Sound, Keeps, OwnsFirst, Leaves, LeaseOf, TouchSteps
<1>5. Judged /\ Begun
  BY DEF Judged, Begun
<1> QED BY <1>1, <1>2, <1>3, <1>4, <1>5 DEF IInv, Fenced
-----------------------------------------------------------------------------
\* Types, by what the steps have in common.
LEMMA LoseTyped ==
  ASSUME Typed, NEW w \in Worker, LoseTaskLease(w)
  PROVE  /\ owned' \in [Worker -> BOOLEAN] /\ due' \in [Worker -> BOOLEAN]
         /\ failures' \in [Worker -> 0 .. MaxFailures - 1]
         /\ NoticeTyped' /\ lost' \in [Worker -> BOOLEAN]
<1>1. failures' \in [Worker -> 0 .. MaxFailures - 1]
  BY LimitAssumption DEF Typed, OwnTyped, LoseTaskLease
<1>2. NoticeTyped'
  BY DEF Typed, NoticeTyped, LoseTaskLease
<1>3. lost' \in [Worker -> BOOLEAN]
  BY DEF Typed, OwnTyped, PastTyped, LoseTaskLease
<1> QED BY <1>1, <1>2, <1>3 DEF Typed, OwnTyped, LoseTaskLease

LEMMA AcquiredTyped ==
  ASSUME Typed, NEW w \in Worker, Acquired(w)
  PROVE  StepTyped' /\ running' \in [Worker -> BOOLEAN]
<1>1. StepTyped'
  BY LimitAssumption DEF Typed, StepTyped, Acquired, Goto, Forget, ReadClock, Labels, Ages
<1>2. running' \in [Worker -> BOOLEAN]
  BY DEF Typed, OwnTyped, StepTyped, Acquired
<1> QED BY <1>1, <1>2

LEMMA ReleaseTyped ==
  ASSUME Typed, NEW w \in Worker, ReleaseReads(w),
         running' \in [Worker -> BOOLEAN], status' \in {"idle", "working", "error"}
  PROVE  OwnTyped' /\ StepTyped' /\ PastTyped'
<1>1. OwnTyped'
  <2>1. failures' \in [Worker -> 0 .. MaxFailures - 1]
    BY LimitAssumption DEF Typed, OwnTyped, ReleaseReads
  <2>2. owned' \in [Worker -> BOOLEAN] /\ due' \in [Worker -> BOOLEAN]
    BY DEF Typed, OwnTyped, ReleaseReads
  <2> QED BY <2>1, <2>2 DEF OwnTyped
<1>2. StepTyped'
  BY LimitAssumption DEF Typed, StepTyped, ReleaseReads, Goto, Forget, ReadClock, Labels, Ages
<1>3. PastTyped'
  BY DEF Typed, PastTyped, ReleaseReads, ReadLate
<1> QED BY <1>1, <1>2, <1>3

LEMMA AbortTyped ==
  ASSUME Typed, NEW w \in Worker, AbortAfterLeaseLoss(w), UNCHANGED status
  PROVE  OwnTyped' /\ StepTyped' /\ PastTyped'
<1>1. running' \in [Worker -> BOOLEAN]
  BY DEF AbortAfterLeaseLoss, Typed, OwnTyped
<1> QED BY <1>1, ReleaseTyped DEF AbortAfterLeaseLoss, Typed, PastTyped

LEMMA RefuseTyped ==
  ASSUME Typed, NEW w \in Worker, Refuse(w)
  PROVE  OwnTyped' /\ StepTyped' /\ PastTyped'
<1>1. CASE temporary[w]
  BY <1>1, AbortTyped DEF Refuse
<1>2. CASE ~temporary[w]
  <2>1. StepTyped'
    BY <1>2, LimitAssumption DEF Typed, StepTyped, Refuse, Goto, Forget, ReadClock, Labels, Ages
  <2>2. OwnTyped' /\ PastTyped'
    BY <1>2 DEF Typed, OwnTyped, PastTyped, Refuse, claims, past
  <2> QED BY <2>1, <2>2
<1> QED BY <1>1, <1>2

LEMMA RetryTyped ==
  ASSUME Typed, NEW w \in Worker, Retry(w)
  PROVE  OwnTyped' /\ StepTyped' /\ PastTyped'
<1>1. CASE Refuse(w)
  BY <1>1, RefuseTyped
<1>2. CASE ~Refuse(w)
  <2>1. StepTyped'
    BY <1>2, LimitAssumption DEF Typed, StepTyped, Retry, Goto, ReadClock, Labels, Ages
  <2>2. OwnTyped' /\ PastTyped'
    BY <1>2 DEF Typed, OwnTyped, PastTyped, Retry, claims, past
  <2> QED BY <2>1, <2>2
<1> QED BY <1>1, <1>2

LEMMA JudgeTyped ==
  ASSUME Typed, NEW w \in Worker, Judge(w)
  PROVE  OwnTyped' /\ StepTyped' /\ PastTyped'
<1>1. CASE Refuse(w)
  BY <1>1, RefuseTyped
<1>2. CASE ~Refuse(w)
  <2>1. StepTyped'
    BY <1>2, LimitAssumption DEF Typed, StepTyped, Judge, Goto, ReadClock, Labels, Ages
  <2>2. owned' \in [Worker -> BOOLEAN]
    BY <1>2 DEF Typed, OwnTyped, Judge
  <2>3. OwnTyped' /\ PastTyped'
    BY <1>2, <2>2 DEF Typed, OwnTyped, PastTyped, Judge, past
  <2> QED BY <2>1, <2>3
<1> QED BY <1>1, <1>2

\* A step of a worker that neither starts nor dies.
Works(w) == Call(w) \/ Step(w)

Acquires(w) == AcquireTaskLease(w) \/ AcquireReads(w)

LEMMA CallTyped ==
  ASSUME Typed, NEW w \in Worker, Call(w) \/ AcquireReads(w)
  PROVE  Typed'
<1> USE DEF Typed
<1>1. ProcTyped' /\ LeaseTyped'
  BY DEF Call, ProcTyped, LeaseTyped, SetLeaseLostListener, AcquireTaskLease, AcquireReads, Judge,
     AgentStart, Begin, ReleaseTaskLease, MarkWorking, NoticeLoss, GuardedWrite, ReconcileReads, processes
<1>2. CASE SetLeaseLostListener(w)
  <2>1. running' \in [Worker -> BOOLEAN] /\ UNCHANGED <<owned, failures, due>>
    BY <1>2, Zenon DEF OwnTyped, SetLeaseLostListener
  <2>2. NoticeTyped'
    BY <1>2 DEF NoticeTyped, SetLeaseLostListener
  <2>3. StepTyped' /\ PastTyped'
    BY <1>2 DEF StepTyped, PastTyped, SetLeaseLostListener, calls, past
  <2> QED BY <1>1, <2>1, <2>2, <2>3 DEF OwnTyped
<1>3. CASE ~SetLeaseLostListener(w)
  <2>1. NoticeTyped'
    BY <1>3 DEF Call, NoticeTyped, AcquireTaskLease, AcquireReads, Judge, AgentStart, Begin,
       ReleaseTaskLease, MarkWorking, NoticeLoss, GuardedWrite, ReconcileReads, notices
  <2>2. CASE Acquires(w)
    BY <1>1, <2>1, <2>2, JudgeTyped DEF Acquires, AcquireTaskLease, AcquireReads
  <2>3. CASE ReleaseTaskLease(w)
    <3>1. running' \in [Worker -> BOOLEAN] /\ status' = "idle"
      BY <2>3 DEF ReleaseTaskLease, OwnTyped
    <3> QED BY <1>1, <2>1, <2>3, <3>1, ReleaseTyped DEF ReleaseTaskLease
  <2>4. CASE NoticeLoss(w)
    BY <1>1, <2>1, <2>4, AbortTyped DEF NoticeLoss
  <2>5. CASE AgentStart(w) \/ GuardedWrite(w) \/ ReconcileReads(w) \/ MarkWorking(w)
    <3>1. OwnTyped'
      BY <2>5 DEF OwnTyped, AgentStart, GuardedWrite, ReconcileReads, MarkWorking, Begin, claims
    <3>2. StepTyped'
      BY <2>5 DEF StepTyped, AgentStart, GuardedWrite, ReconcileReads, MarkWorking, Begin, Goto, Labels,
         OwnsTaskLease, calls
    <3>3. PastTyped'
      BY <2>5 DEF PastTyped, AgentStart, GuardedWrite, ReconcileReads, MarkWorking, Begin, past
    <3> QED BY <1>1, <2>1, <3>1, <3>2, <3>3
  <2> QED BY <1>3, <2>2, <2>3, <2>4, <2>5 DEF Call, Acquires
<1> QED BY <1>2, <1>3

LEMMA TouchTyped ==
  ASSUME Typed, NEW w \in Worker,
         HeartbeatReads(w) \/ TouchReads(w) \/ TouchWrites(w) \/ TouchFails(w)
  PROVE  Typed'
<1> USE DEF Typed
<1>1. ProcTyped' /\ status' = status
  BY DEF ProcTyped, HeartbeatReads, TouchReads, TouchWrites, TouchFails, processes
<1>2. LeaseTyped'
  <2>1. Touched(w) \in Lease
    BY DEF StepTyped, Touched, Lease
  <2> QED BY <2>1 DEF LeaseTyped, HeartbeatReads, TouchReads, TouchWrites, TouchFails
<1>3. StepTyped'
  <2>1. CASE Acquired(w)
    BY <2>1, AcquiredTyped
  <2>2. CASE UNCHANGED calls
    BY <2>2 DEF StepTyped, calls
  <2>3. CASE /\ Goto(w, "idle") \/ Goto(w, "beatWrite") \/ Goto(w, "touchWrite")
             /\ drift' = [drift EXCEPT ![w] = 0] /\ temporary' = temporary
             /\ tries' \in {tries, [tries EXCEPT ![w] = 0]}
    BY <2>3, LimitAssumption DEF StepTyped, Goto, Labels, Ages
  <2> QED BY <2>1, <2>2, <2>3
          DEF HeartbeatReads, TouchReads, TouchWrites, TouchFails, TouchReturns, Forget, ReadClock
<1>4. late' \in BOOLEAN
  BY DEF PastTyped, HeartbeatReads, TouchReads, TouchWrites, TouchFails, ReadLate
<1>5. lost' \in [Worker -> BOOLEAN] /\ NoticeTyped'
  <2>1. CASE LoseTaskLease(w)
    BY <2>1, LoseTyped
  <2>2. CASE Publish(w) /\ UNCHANGED notices
    BY <2>2 DEF Publish, PastTyped, StepTyped, NoticeTyped, notices
  <2>3. CASE UNCHANGED <<lost, notices>>
    BY <2>3 DEF PastTyped, NoticeTyped, notices
  <2> QED BY <2>1, <2>2, <2>3 DEF HeartbeatReads, TouchReads, TouchWrites, TouchFails
<1>6. running' \in [Worker -> BOOLEAN]
  <2>1. CASE Acquired(w)
    BY <2>1, AcquiredTyped
  <2>2. CASE running' \in {running, [running EXCEPT ![w] = @ /\ ~Heard(w)]}
    BY <2>2 DEF OwnTyped
  <2> QED BY <2>1, <2>2
          DEF HeartbeatReads, TouchReads, TouchWrites, TouchFails, TouchReturns, claims
<1>7. /\ owned' \in [Worker -> BOOLEAN] /\ due' \in [Worker -> BOOLEAN]
      /\ failures' \in [Worker -> 0 .. MaxFailures - 1]
  <2>1. CASE LoseTaskLease(w)
    BY <2>1, LoseTyped
  <2>2. CASE HeartbeatReads(w) \/ TouchReads(w)
    <3>1. CASE ~LoseTaskLease(w)
      <4>1. UNCHANGED <<owned, failures>> /\ due' \in {due, [due EXCEPT ![w] = FALSE]}
        BY <2>2, <3>1 DEF HeartbeatReads, TouchReads, claims
      <4> QED BY <4>1 DEF OwnTyped
    <3> QED BY <2>1, <3>1
  <2>3. CASE TouchWrites(w)
    BY <2>3, LimitAssumption DEF TouchWrites, OwnTyped
  <2>4. CASE TouchFails(w) /\ ~LoseTaskLease(w)
    BY <2>4, LimitAssumption DEF TouchFails, GivesUp, OwnTyped
  <2> QED BY <2>1, <2>2, <2>3, <2>4
<1> QED BY <1>1, <1>2, <1>3, <1>4, <1>5, <1>6, <1>7 DEF OwnTyped, PastTyped

LEMMA ReclaimTyped ==
  ASSUME Typed, NEW w \in Worker,
         \/ ReclaimEnters(w) \/ ReclaimRefused(w) \/ Revalidate(w) \/ UnlinkStale(w)
         \/ CreateLeaseFile(w) \/ CreateOccupied(w) \/ AcquireThrows(w) \/ UnlinkOwn(w)
  PROVE  Typed'
<1> USE DEF Typed
<1>1. ProcTyped' /\ NoticeTyped'
  BY DEF ProcTyped, NoticeTyped, ReclaimEnters, ReclaimRefused, Revalidate, UnlinkStale, CreateLeaseFile,
     CreateOccupied, AcquireThrows, UnlinkOwn, processes, notices
<1>2. LeaseTyped'
  BY LimitAssumption
     DEF LeaseTyped, StepTyped, ReclaimEnters, ReclaimRefused, Revalidate, UnlinkStale, CreateLeaseFile,
     CreateOccupied, AcquireThrows, UnlinkOwn, Lease, Ages
<1>3. CASE Retry(w)
  BY <1>1, <1>2, <1>3, RetryTyped
<1>4. CASE CreateLeaseFile(w)
  <2>1. OwnTyped' /\ StepTyped'
    BY <1>4, AcquiredTyped DEF CreateLeaseFile, OwnTyped
  <2>2. PastTyped'
    BY <1>4 DEF CreateLeaseFile, Publish, PastTyped, StepTyped
  <2> QED BY <1>1, <1>2, <2>1, <2>2
<1>5. CASE ~Retry(w) /\ ~CreateLeaseFile(w)
  <2>1. OwnTyped' /\ PastTyped'
    <3>1. UNCHANGED <<claims, status, past>>
      BY <1>5 DEF ReclaimEnters, ReclaimRefused, Revalidate, UnlinkStale, CreateOccupied, AcquireThrows,
         UnlinkOwn
    <3> QED BY <3>1 DEF OwnTyped, PastTyped, claims, past
  <2>2. StepTyped'
    <3>1. CASE AcquireThrows(w)
      BY <3>1, LimitAssumption DEF StepTyped, AcquireThrows, Goto, Forget, ReadClock, Labels, Ages
    <3>2. CASE ~AcquireThrows(w)
      BY <1>5, <3>2
         DEF StepTyped, ReclaimEnters, ReclaimRefused, Revalidate, UnlinkStale, CreateOccupied, UnlinkOwn,
         Goto, Labels
    <3> QED BY <3>1, <3>2
  <2> QED BY <1>1, <1>2, <2>1, <2>2
<1> QED BY <1>3, <1>4, <1>5

LEMMA WriteTyped ==
  ASSUME Typed, NEW w \in Worker,
         \/ WriteEnters(w) \/ WriteRefused(w) \/ WriteChecks(w) \/ WriteEnds(w) \/ WriteThrows(w)
         \/ OrphanPatch(w) \/ OrphanUnlink(w)
  PROVE  Typed'
<1> USE DEF Typed
<1>1. ProcTyped' /\ NoticeTyped' /\ LeaseTyped'
  BY DEF ProcTyped, NoticeTyped, LeaseTyped, WriteEnters, WriteRefused, WriteChecks, WriteEnds, WriteThrows,
     GiveBack, OrphanPatch, OrphanUnlink, processes, notices
<1>2. CASE AbortAfterLeaseLoss(w) /\ UNCHANGED status
  BY <1>1, <1>2, AbortTyped
<1>3. CASE ReleaseReads(w) /\ UNCHANGED <<running, status>>
  <2>1. running' \in [Worker -> BOOLEAN] /\ status' \in {"idle", "working", "error"}
    BY <1>3 DEF OwnTyped, PastTyped
  <2> QED BY <1>1, <1>3, <2>1, ReleaseTyped
<1>4. CASE ~(AbortAfterLeaseLoss(w) /\ UNCHANGED status) /\ ~(ReleaseReads(w) /\ UNCHANGED <<running, status>>)
  <2>1. OwnTyped' /\ PastTyped'
    BY <1>4 DEF OwnTyped, PastTyped, WriteEnters, WriteRefused, WriteChecks, WriteEnds, WriteThrows,
       GiveBack, OrphanPatch, OrphanUnlink, claims, past
  <2>2. StepTyped'
    BY <1>4 DEF StepTyped, WriteEnters, WriteRefused, WriteChecks, WriteEnds, WriteThrows, GiveBack,
       OrphanPatch, OrphanUnlink, Goto, Labels
  <2> QED BY <1>1, <2>1, <2>2
<1> QED BY <1>2, <1>3, <1>4

LEMMA LifeTyped ==
  ASSUME Typed, Tick \/ \E w \in Worker : Start(w) \/ Crash(w)
  PROVE  Typed'
<1> USE DEF Typed
<1>1. ProcTyped'
  BY DEF ProcTyped, Tick, Start, Crash, processes
<1>2. LeaseTyped'
  BY NoLeaseAssumption, LimitAssumption DEF LeaseTyped, Tick, Start, Crash, Older, Lease, Ages
<1>3. OwnTyped'
  <2>1. CASE Tick
    <3>1. due' = [w \in Worker |-> due[w] \/ owned[w]] /\ UNCHANGED <<owned, failures, running>>
      BY <2>1 DEF Tick
    <3>2. due' \in [Worker -> BOOLEAN]
      BY <3>1 DEF OwnTyped
    <3> QED BY <3>1, <3>2 DEF OwnTyped
  <2>2. ASSUME NEW w \in Worker, Start(w) PROVE OwnTyped'
    BY <2>2 DEF OwnTyped, Start, claims
  <2>3. ASSUME NEW w \in Worker, Crash(w) PROVE OwnTyped'
    <3>1. failures' \in [Worker -> 0 .. MaxFailures - 1]
      BY <2>3, LimitAssumption DEF OwnTyped, Crash
    <3> QED BY <2>3, <3>1 DEF OwnTyped, Crash
  <2> QED BY <2>1, <2>2, <2>3
<1>4. NoticeTyped' /\ PastTyped'
  <2>1. CASE Tick \/ \E w \in Worker : Start(w)
    BY <2>1 DEF NoticeTyped, PastTyped, Tick, Start, notices, past
  <2>2. ASSUME NEW w \in Worker, Crash(w) PROVE NoticeTyped' /\ PastTyped'
    BY <2>2 DEF NoticeTyped, PastTyped, Crash
  <2> QED BY <2>1, <2>2
<1>5. StepTyped'
  <2>1. CASE Tick
    <3>1. drift' \in [Worker -> Ages]
      BY <2>1, LimitAssumption DEF StepTyped, Tick, Older, Ages
    <3> QED BY <2>1, <3>1 DEF StepTyped, Tick
  <2>2. ASSUME NEW w \in Worker, Start(w) PROVE StepTyped'
    BY <2>2 DEF StepTyped, Start, calls
  <2>3. ASSUME NEW w \in Worker, Crash(w) PROVE StepTyped'
    BY <2>3, LimitAssumption DEF StepTyped, Crash, Labels, Ages
  <2> QED BY <2>1, <2>2, <2>3
<1> QED BY <1>1, <1>2, <1>3, <1>4, <1>5

LEMMA TypeStep == Typed /\ [Next]_vars => Typed'
<1>1. Typed /\ UNCHANGED vars => Typed'
  BY DEF vars, processes, notices, claims, calls, past, Typed, ProcTyped, LeaseTyped, OwnTyped,
     NoticeTyped, StepTyped, PastTyped
<1> QED BY <1>1, CallTyped, TouchTyped, ReclaimTyped, WriteTyped, LifeTyped DEF Next, Step
-----------------------------------------------------------------------------
\* A step of one worker is no step of another.
LEMMA Others ==
  ASSUME Typed, NEW w \in Worker, Works(w)
  PROVE  /\ setup' = setup /\ life' = life /\ Up(w)
         /\ \A u \in Worker \ {w} :
              /\ owned'[u] = owned[u] /\ failures'[u] = failures[u] /\ due'[u] = due[u]
              /\ running'[u] = running[u] /\ temporary'[u] = temporary[u]
              /\ at'[u] = at[u] /\ drift'[u] = drift[u] /\ lost'[u] = lost[u]
<1> USE DEF Typed, OwnTyped, NoticeTyped, StepTyped, PastTyped
<1>1. CASE SetLeaseLostListener(w) \/ AgentStart(w) \/ MarkWorking(w) \/ GuardedWrite(w) \/ ReconcileReads(w)
  BY <1>1 DEF SetLeaseLostListener, AgentStart, MarkWorking, GuardedWrite, ReconcileReads, Begin, Goto, At,
     processes, claims, calls, past
<1>2. CASE ReleaseTaskLease(w) \/ NoticeLoss(w) \/ WriteRefused(w) \/ WriteChecks(w)
  BY <1>2 DEF ReleaseTaskLease, NoticeLoss, WriteRefused, WriteChecks, AbortAfterLeaseLoss, ReleaseReads,
     Forget, ReadClock, Goto, At, processes, claims, past
<1>3. CASE WriteEnters(w) \/ WriteEnds(w) \/ WriteThrows(w) \/ OrphanPatch(w) \/ OrphanUnlink(w)
  BY <1>3 DEF WriteEnters, WriteEnds, WriteThrows, GiveBack, OrphanPatch, OrphanUnlink, ReleaseReads,
     Forget, ReadClock, Goto, At, processes, claims, past
<1>4. CASE HeartbeatReads(w) \/ TouchReads(w)
  BY <1>4 DEF HeartbeatReads, TouchReads, LoseTaskLease, Acquired, Forget, ReadClock, Goto, At, processes,
     claims, calls
<1>5. CASE TouchWrites(w) \/ CreateLeaseFile(w)
  BY <1>5 DEF TouchWrites, CreateLeaseFile, Publish, TouchReturns, Acquired, Forget, ReadClock, Goto, At,
     processes
<1>6. CASE TouchFails(w)
  BY <1>6 DEF TouchFails, LoseTaskLease, TouchReturns, Acquired, Forget, ReadClock, Goto, processes
<1>7. CASE ReclaimEnters(w) \/ UnlinkStale(w) \/ AcquireThrows(w) \/ UnlinkOwn(w)
  BY <1>7 DEF ReclaimEnters, UnlinkStale, AcquireThrows, UnlinkOwn, Forget, ReadClock, Goto, At,
     processes, claims, past
<1>8. CASE ReclaimRefused(w) \/ Revalidate(w) \/ CreateOccupied(w)
  BY <1>8 DEF ReclaimRefused, Revalidate, CreateOccupied, Retry, Refuse, AbortAfterLeaseLoss, ReleaseReads,
     Forget, ReadClock, Goto, At, processes, claims, past
<1>9. CASE Acquires(w)
  BY <1>9 DEF Acquires, AcquireTaskLease, AcquireReads, Judge, Refuse, AbortAfterLeaseLoss, ReleaseReads,
     Forget, ReadClock, Goto, At, processes, claims, past
<1> QED BY <1>1, <1>2, <1>3, <1>4, <1>5, <1>6, <1>7, <1>8, <1>9 DEF Works, Call, Step, Acquires

\* Where a step leads that is not written out in the action itself.
LEMMA ReleaseLeads ==
  ASSUME Typed, NEW w \in Worker, ReleaseReads(w)
  PROVE  at'[w] = (IF LeaseOf(w) THEN "unlinkOwn" ELSE "idle")
BY DEF Typed, StepTyped, ReleaseReads, Goto

LEMMA RetryLeads ==
  ASSUME Typed, NEW w \in Worker, Retry(w) \/ Refuse(w)
  PROVE  at'[w] \in {"acquire", "idle"} \/ (at'[w] = "unlinkOwn" /\ ReleaseReads(w))
<1>1. CASE Refuse(w)
  BY <1>1, ReleaseLeads DEF Typed, StepTyped, Refuse, AbortAfterLeaseLoss, Goto
<1>2. CASE ~Refuse(w)
  BY <1>2 DEF Typed, StepTyped, Retry, Goto
<1> QED BY <1>1, <1>2

LEMMA AcquiredLeads ==
  ASSUME Typed, NEW w \in Worker, Acquired(w)
  PROVE  at'[w] \in {"writeLock", "idle"} /\ running'[w] = (running[w] \/ ~temporary[w])
         /\ temporary' = temporary
BY DEF Typed, StepTyped, OwnTyped, Acquired, Goto

LEMMA JudgeLeads ==
  ASSUME Typed, NEW w \in Worker, Judge(w)
  PROVE  \/ at'[w] \in {"lock", "link", "idle"} \/ (at'[w] = "touch" /\ LeaseOf(w))
         \/ (at'[w] = "unlinkOwn" /\ ReleaseReads(w))
<1>1. CASE Refuse(w)
  <2>1. at'[w] # "acquire"
    BY <1>1, ReleaseLeads DEF Typed, StepTyped, Refuse, AbortAfterLeaseLoss, Goto
  <2> QED BY <1>1, <2>1, RetryLeads
<1>2. CASE ~Refuse(w)
  BY <1>2 DEF Typed, StepTyped, Judge, Goto
<1> QED BY <1>1, <1>2

\* The reclaim lock is entered when it is free, and left with the step it guards.
LEMMA SectionMoves ==
  ASSUME Typed, NEW w \in Worker, Works(w)
  PROVE  \/ section = {} /\ section' = {w}
         \/ section' = section \ {w} /\ at'[w] \notin Critical
         \/ section' = section /\ (at'[w] \in Critical => at[w] \in Critical)
<1> USE DEF Typed, LeaseTyped, StepTyped, Critical
<1>1. CASE SetLeaseLostListener(w) \/ AgentStart(w) \/ MarkWorking(w) \/ GuardedWrite(w) \/ ReconcileReads(w)
  BY <1>1 DEF SetLeaseLostListener, AgentStart, MarkWorking, GuardedWrite, ReconcileReads, Begin, Goto,
     calls, OwnsTaskLease
<1>2. CASE ReleaseTaskLease(w) \/ NoticeLoss(w) \/ WriteRefused(w)
  BY <1>2, ReleaseLeads DEF ReleaseTaskLease, NoticeLoss, WriteRefused, AbortAfterLeaseLoss
<1>3. CASE WriteEnters(w) \/ OrphanPatch(w) \/ OrphanUnlink(w)
  BY <1>3 DEF WriteEnters, OrphanPatch, OrphanUnlink, Goto, SectionFree
<1>4. CASE WriteEnds(w) \/ WriteThrows(w)
  BY <1>4, ReleaseLeads DEF WriteEnds, WriteThrows, GiveBack, Goto
<1>5. CASE WriteChecks(w)
  BY <1>5, ReleaseLeads DEF WriteChecks, AbortAfterLeaseLoss, Goto, At
<1>6. CASE HeartbeatReads(w) \/ TouchReads(w)
  BY <1>6, AcquiredLeads DEF HeartbeatReads, TouchReads, Goto, calls
<1>7. CASE TouchWrites(w) \/ TouchFails(w) \/ CreateLeaseFile(w)
  BY <1>7, AcquiredLeads DEF TouchWrites, TouchFails, CreateLeaseFile, TouchReturns, Goto
<1>8. CASE ReclaimEnters(w) \/ UnlinkStale(w) \/ AcquireThrows(w) \/ UnlinkOwn(w)
  BY <1>8 DEF ReclaimEnters, UnlinkStale, AcquireThrows, UnlinkOwn, Goto, SectionFree
<1>9. CASE ReclaimRefused(w) \/ CreateOccupied(w)
  BY <1>9, RetryLeads DEF ReclaimRefused, CreateOccupied
<1>10. CASE Revalidate(w)
  BY <1>10, RetryLeads DEF Revalidate, Goto, At
<1>11. CASE Acquires(w)
  BY <1>11, JudgeLeads DEF Acquires, AcquireTaskLease, AcquireReads, Judge
<1> QED BY <1>1, <1>2, <1>3, <1>4, <1>5, <1>6, <1>7, <1>8, <1>9, <1>10, <1>11 DEF Works, Call, Step, Acquires

LEMMA ExclusiveStep == Typed /\ Exclusive /\ [Next]_vars => Exclusive'
<1> SUFFICES ASSUME Typed, Exclusive, [Next]_vars PROVE Exclusive'
  OBVIOUS
<1>1. CASE Tick \/ (\E w \in Worker : Start(w)) \/ UNCHANGED vars
  BY <1>1 DEF Exclusive, Tick, Start, vars, calls
<1>2. ASSUME NEW w \in Worker, Crash(w) PROVE Exclusive'
  BY <1>2 DEF Exclusive, Crash, Typed, StepTyped, Critical
<1>3. ASSUME NEW w \in Worker, Works(w) PROVE Exclusive'
  <2>1. \A u \in Worker \ {w} : at'[u] = at[u]
    BY <1>3, Others
  <2>2. w \in section' \/ at'[w] \notin Critical
    BY <1>3, SectionMoves DEF Exclusive
  <2>3. \A u, v \in section' : u = v
    BY <1>3, SectionMoves DEF Exclusive
  <2>4. \A u \in section \ {w} : section' # {w}
    BY <1>3, SectionMoves
  <2> QED BY <1>3, <2>1, <2>2, <2>3, SectionMoves DEF Exclusive
<1> QED BY <1>1, <1>2, <1>3 DEF Next, Works
-----------------------------------------------------------------------------
(***************************************************************************)
(* Fenced: what a worker replaces or removes as its own is its own, and    *)
(* what it removes as stale is stale.                                      *)
(***************************************************************************)
\* A step that leaves the lease alone, and begins nothing it should not.
Quiet(w) ==
  /\ lease' = lease
  /\ drift'[w] \in {drift[w], 0}
  /\ at'[w] \in OwnSteps => LeaseOf(w) /\ lease.heartbeat <= Stale
  /\ at'[w] = "write" => LeaseOf(w)
  /\ at'[w] \notin {"orphanPatch", "orphanUnlink"}
  /\ at'[w] = "unlinkStale" => Removable

\* A record read in time is not stale.
LEMMA InTime ==
  ASSUME Typed, NEW w \in Worker, ReadLate(w), ~late', LeaseOf(w)
  PROVE  lease.heartbeat <= Stale
<1>1. lease.heartbeat \in Nat /\ Stale \in Nat
  BY LimitAssumption DEF LeaseOf, Typed, LeaseTyped, Lease, Ages
<1>2. ~(lease.heartbeat > Stale)
  BY DEF ReadLate, Typed, PastTyped
<1> QED BY <1>1, <1>2

LEMMA ReleaseQuiet ==
  ASSUME Typed, NEW w \in Worker, ReleaseReads(w), ~late', lease' = lease
  PROVE  Quiet(w)
<1>1. drift'[w] = 0
  BY DEF ReleaseReads, Forget, ReadClock, Typed, StepTyped
<1>2. LeaseOf(w) => lease.heartbeat <= Stale
  BY InTime DEF ReleaseReads
<1> QED BY <1>1, <1>2, ReleaseLeads DEF Quiet, OwnSteps

LEMMA RetryQuiet ==
  ASSUME Typed, NEW w \in Worker, Retry(w) \/ Refuse(w), ~late', lease' = lease
  PROVE  Quiet(w)
<1>1. CASE ReleaseReads(w)
  BY <1>1, ReleaseQuiet
<1>2. CASE ~ReleaseReads(w)
  <2>1. at'[w] \in {"acquire", "idle"}
    BY <1>2, RetryLeads
  <2>2. drift'[w] = 0
    BY <1>2 DEF Retry, Refuse, AbortAfterLeaseLoss, Forget, ReadClock, Typed, StepTyped
  <2> QED BY <2>1, <2>2 DEF Quiet, OwnSteps
<1> QED BY <1>1, <1>2

\* The steps that change the lease file.
Files(w) == TouchWrites(w) \/ UnlinkStale(w) \/ UnlinkOwn(w) \/ CreateLeaseFile(w)

LEMMA QuietStep ==
  ASSUME Typed, NEW w \in Worker, Works(w), ~Files(w), ~late', Prompt(w)
  PROVE  Quiet(w)
<1> USE DEF Typed, StepTyped
<1>1. CASE SetLeaseLostListener(w) \/ AgentStart(w) \/ MarkWorking(w) \/ GuardedWrite(w)
  BY <1>1 DEF Quiet, OwnSteps, SetLeaseLostListener, AgentStart, MarkWorking, GuardedWrite, Begin, Goto, At,
     OwnsTaskLease, calls
<1>2. CASE ReleaseTaskLease(w) \/ NoticeLoss(w) \/ WriteRefused(w)
  BY <1>2, ReleaseQuiet DEF ReleaseTaskLease, NoticeLoss, WriteRefused, AbortAfterLeaseLoss
<1>3. CASE WriteEnters(w)
  BY <1>3 DEF WriteEnters, Goto, Quiet, OwnSteps
<1>4. CASE WriteEnds(w) \/ WriteThrows(w)
  <2>1. lease' = lease
    BY <1>4 DEF WriteEnds, WriteThrows, GiveBack
  <2>2. CASE ReleaseReads(w)
    BY <2>1, <2>2, ReleaseQuiet
  <2>3. CASE ~ReleaseReads(w)
    BY <1>4, <2>1, <2>3 DEF WriteEnds, WriteThrows, GiveBack, Goto, Quiet, OwnSteps
  <2> QED BY <2>2, <2>3
<1>5. CASE WriteChecks(w)
  <2>1. CASE OwnsTaskLease(w)
    BY <1>5, <2>1 DEF WriteChecks, Goto, Quiet, OwnSteps, OwnsTaskLease
  <2>2. CASE ~OwnsTaskLease(w)
    BY <1>5, <2>2, ReleaseQuiet DEF WriteChecks, AbortAfterLeaseLoss
  <2> QED BY <2>1, <2>2
<1>6. CASE HeartbeatReads(w)
  <2>1. CASE LeaseOf(w)
    BY <1>6, <2>1, InTime DEF HeartbeatReads, Goto, ReadClock, Quiet, OwnSteps
  <2>2. CASE ~LeaseOf(w)
    BY <1>6, <2>2 DEF HeartbeatReads, Quiet, OwnSteps, At, calls
  <2> QED BY <2>1, <2>2
<1>7. CASE TouchReads(w)
  <2>1. CASE LeaseOf(w)
    BY <1>7, <2>1, InTime DEF TouchReads, Goto, ReadClock, Quiet, OwnSteps
  <2>2. CASE ~LeaseOf(w)
    BY <1>7, <2>2, AcquiredLeads DEF TouchReads, Acquired, Forget, ReadClock, Quiet, OwnSteps
  <2> QED BY <2>1, <2>2
<1>8. CASE TouchFails(w)
  <2>1. at'[w] \in {"idle", "writeLock"} /\ drift'[w] = 0 /\ lease' = lease
    BY <1>8, AcquiredLeads DEF TouchFails, TouchReturns, Acquired, Goto, Forget, ReadClock
  <2> QED BY <2>1 DEF Quiet, OwnSteps
<1>9. CASE ReclaimEnters(w) \/ AcquireThrows(w)
  BY <1>9 DEF ReclaimEnters, AcquireThrows, Goto, Forget, ReadClock, Quiet, OwnSteps
<1>10. CASE ReclaimRefused(w) \/ CreateOccupied(w)
  BY <1>10, RetryQuiet DEF ReclaimRefused, CreateOccupied
<1>11. CASE Revalidate(w)
  <2>1. CASE Retry(w)
    BY <1>11, <2>1, RetryQuiet DEF Revalidate
  <2>2. CASE ~Retry(w)
    BY <1>11, <2>2 DEF Revalidate, Goto, Quiet, OwnSteps
  <2> QED BY <2>1, <2>2
<1>12. CASE Acquires(w)
  <2>1. Judge(w) /\ lease' = lease
    BY <1>12 DEF Acquires, AcquireTaskLease, AcquireReads, Judge
  <2>2. CASE Refuse(w)
    BY <2>1, <2>2, RetryQuiet
  <2>3. CASE ~Refuse(w)
    BY <2>1, <2>3 DEF Judge, Goto, ReadClock, Quiet, OwnSteps
  <2> QED BY <2>2, <2>3
<1>13. ~ReconcileReads(w) /\ ~OrphanPatch(w) /\ ~OrphanUnlink(w)
  BY DEF ReconcileReads, OrphanPatch, OrphanUnlink, At, Prompt
<1> QED BY <1>1, <1>2, <1>3, <1>4, <1>5, <1>6, <1>7, <1>8, <1>9, <1>10, <1>11, <1>12, <1>13
        DEF Works, Call, Step, Acquires, Files

\* The lease of a worker that is up is not stale when a step is taken that could hit it.
LEMMA OwnAlone ==
  ASSUME Typed, Fenced, NEW w \in Worker, at[w] \in OwnSteps
  PROVE  /\ Up(w) /\ lease \in Lease /\ lease.by = w
         /\ \A v \in Worker : at[v] # "unlinkStale"
<1>1. Up(w) /\ LeaseOf(w) /\ lease.heartbeat <= Stale
  BY DEF Fenced, Steady, Rests, Holds, OwnSteps
<1>2. lease \in Lease /\ lease.by = w /\ lease.heartbeat \in Nat /\ Stale \in Nat
  BY <1>1, LimitAssumption DEF LeaseOf, Typed, LeaseTyped, Lease, Ages
<1> QED BY <1>1, <1>2 DEF Fenced, Judged

LEMMA FencedStep ==
  ASSUME Typed, Typed', Exclusive, Exclusive', Fenced, NEW w \in Worker, Works(w), ~late'
  PROVE  Fenced'
<1> USE DEF Typed, StepTyped
<1>1. Steady(w) /\ Up(w) /\ life' = life
  BY Others DEF Fenced
<1>2. CASE ~Files(w)
  <2>1. Quiet(w)
    BY <1>1, <1>2, QuietStep DEF Steady
  <2>2. ASSUME NEW u \in Worker PROVE Steady(u)'
    <3>1. CASE u = w
      BY <1>1, <2>1, <3>1 DEF Quiet, Steady, Rests, Holds, Prompt, Up, LeaseOf
    <3>2. CASE u # w
      <4>1. Steady(u)
        BY DEF Fenced
      <4> QED BY <1>1, <2>1, <3>2, <4>1, Others DEF Quiet, Steady, Rests, Holds, Prompt, Up, LeaseOf
    <3> QED BY <3>1, <3>2
  <2>3. ASSUME NEW v \in Worker, at'[v] = "unlinkStale"
        PROVE  lease # NoLease /\ (Up(lease.by) => lease.heartbeat > Stale)
    <3>1. CASE at[v] = "unlinkStale"
      BY <3>1 DEF Fenced, Judged
    <3>2. CASE at[v] # "unlinkStale"
      <4>1. Removable
        BY <2>1, <2>3, <3>2, Others DEF Quiet
      <4>2. lease \in Lease /\ ~LeaseActive
        BY <4>1 DEF Removable, IsStalePath, LeaseTyped
      <4>3. lease.by \in Worker /\ lease.heartbeat \in Nat /\ Stale \in Nat
        BY <4>2, LimitAssumption DEF Lease, Ages
      <4> QED BY <4>1, <4>2, <4>3 DEF Removable, IsStalePath, LeaseActive, LeaseAlive, ProcessAlive
    <3> QED BY <3>1, <3>2
  <2> QED BY <1>1, <2>1, <2>2, <2>3 DEF Quiet, Fenced, Judged, Begun, Up
<1>3. CASE TouchWrites(w)
  <2>1. at[w] \in OwnSteps /\ drift[w] = 0
    BY <1>1, <1>3 DEF TouchWrites, OwnSteps, Steady, Prompt
  <2>2. lease.by = w /\ lease \in Lease
    BY <2>1, OwnAlone
  <2>3. lease' # NoLease /\ lease'.by = w
    <3>1. lease' \in Lease
      BY <1>3, <2>1, LimitAssumption DEF TouchWrites, Touched, Lease, Ages
    <3> QED BY <1>3, <3>1, NoLeaseAssumption DEF TouchWrites, Touched
  <2>4. at'[w] \in {"idle", "writeLock"} /\ drift'[w] = 0
    BY <1>3, AcquiredLeads DEF TouchWrites, TouchReturns, Acquired, Goto, Forget, ReadClock
  <2>5. ASSUME NEW u \in Worker PROVE Steady(u)'
    <3>1. CASE u = w
      BY <1>1, <2>4, <3>1 DEF Steady, Rests, Holds, Prompt, Up, OwnSteps
    <3>2. CASE u # w
      <4>1. Steady(u) /\ ~LeaseOf(u)
        BY <2>2, <3>2 DEF Fenced, LeaseOf
      <4> QED BY <1>1, <3>2, <4>1, Others DEF Steady, Rests, Holds, Prompt, Up
    <3> QED BY <3>1, <3>2
  <2>6. \A v \in Worker : at'[v] # "unlinkStale"
    BY <2>1, <2>4, OwnAlone, Others
  <2> QED BY <1>1, <2>3, <2>5, <2>6 DEF Fenced, Judged, Begun, Up
<1>4. CASE UnlinkStale(w) \/ UnlinkOwn(w)
  <2>1. /\ at[w] \in {"unlinkStale", "unlinkOwn"} /\ lease' = NoLease
        /\ at'[w] \in {"link", "idle"} /\ drift' = drift
    BY <1>4 DEF UnlinkStale, UnlinkOwn, Goto, At
  <2>2. ASSUME NEW u \in Worker, u # w PROVE at[u] \notin OwnSteps /\ at[u] # "write"
    <3>1. CASE at[w] = "unlinkOwn"
      <4>1. ~LeaseOf(u)
        BY <2>2, <3>1, OwnAlone DEF LeaseOf, OwnSteps
      <4> QED BY <4>1 DEF Fenced, Steady, Holds
    <3>2. CASE at[w] = "unlinkStale"
      <4>1. at[u] # "write"
        BY <2>2, <3>2 DEF Exclusive, Critical
      <4> QED BY <3>2, <4>1, OwnAlone
    <3> QED BY <2>1, <3>1, <3>2
  <2>3. ASSUME NEW u \in Worker PROVE Steady(u)'
    <3>1. CASE u = w
      BY <1>1, <2>1, <3>1 DEF Steady, Rests, Holds, Prompt, Up, OwnSteps
    <3>2. CASE u # w
      BY <1>1, <2>1, <2>2, <3>2, Others DEF Fenced, Steady, Rests, Holds, Prompt, Up
    <3> QED BY <3>1, <3>2
  <2>4. ASSUME NEW v \in Worker PROVE at'[v] # "unlinkStale"
    <3>1. CASE at[w] = "unlinkOwn"
      BY <2>1, <3>1, OwnAlone, Others DEF OwnSteps
    <3>2. CASE at[w] = "unlinkStale"
      BY <2>1, <3>2, Others DEF Exclusive, Critical
    <3> QED BY <2>1, <3>1, <3>2
  <2> QED BY <2>1, <2>3, <2>4 DEF Fenced, Judged, Begun
<1>5. CASE CreateLeaseFile(w)
  <2>1. lease = NoLease /\ drift[w] = 0
    BY <1>1, <1>5 DEF CreateLeaseFile, Linkable, Steady, Prompt
  <2>2. lease' # NoLease /\ lease'.by = w
    <3>1. lease' \in Lease
      BY <1>5, <2>1, LimitAssumption DEF CreateLeaseFile, Lease, Ages
    <3> QED BY <1>5, <3>1, NoLeaseAssumption DEF CreateLeaseFile
  <2>3. at'[w] \in {"idle", "writeLock"} /\ drift'[w] = 0
    BY <1>5, AcquiredLeads DEF CreateLeaseFile, Acquired, Forget, ReadClock
  <2>4. ASSUME NEW u \in Worker PROVE Steady(u)'
    <3>1. CASE u = w
      BY <1>1, <2>3, <3>1 DEF Steady, Rests, Holds, Prompt, Up, OwnSteps
    <3>2. CASE u # w
      <4>1. Steady(u) /\ ~LeaseOf(u)
        BY <2>1 DEF Fenced, LeaseOf
      <4> QED BY <1>1, <3>2, <4>1, Others DEF Steady, Rests, Holds, Prompt, Up
    <3> QED BY <3>1, <3>2
  <2>5. \A v \in Worker : at'[v] # "unlinkStale"
    BY <2>1, <2>3, Others DEF Fenced, Judged
  <2> QED BY <1>1, <2>2, <2>4, <2>5 DEF Fenced, Judged, Begun, Up
<1> QED BY <1>2, <1>3, <1>4, <1>5 DEF Files
\* Time passes, a worker starts, one dies.
LEMMA FencedTick ==
  ASSUME Typed, Fenced, Tick, setup.stallAt \subseteq {"write"}
  PROVE  Fenced'
<1>1. \A w \in Worker : at[w] \in {"write", "idle"}
  BY DEF Tick
<1>2. (lease' # NoLease <=> lease # NoLease) /\ (lease # NoLease => lease'.by = lease.by)
  <2>1. CASE lease = NoLease
    BY <2>1 DEF Tick
  <2>2. CASE lease # NoLease
    <3>1. lease' \in Lease
      BY <2>2, LimitAssumption DEF Tick, Typed, LeaseTyped, Lease, Ages, Older
    <3> QED BY <2>2, <3>1, NoLeaseAssumption DEF Tick
  <2> QED BY <2>1, <2>2
<1>3. ASSUME NEW w \in Worker PROVE Steady(w)'
  <2>1. Steady(w) /\ at[w] \notin HoldsClock
    BY <1>1 DEF Fenced, HoldsClock
  <2>2. drift'[w] = 0 /\ (due'[w] => due[w] \/ owned[w])
    BY <2>1 DEF Tick, Steady, Prompt
  <2> QED BY <1>1, <1>2, <2>1, <2>2
          DEF Tick, Steady, Rests, Holds, Prompt, OwnSteps, LeaseOf, Up, processes
<1>4. Judged'
  BY <1>1 DEF Judged, Tick
<1>5. Begun'
  BY <1>2 DEF Fenced, Begun, Tick, processes
<1> QED BY <1>3, <1>4, <1>5 DEF Fenced

LEMMA FencedLife ==
  ASSUME Typed, Fenced, NEW w \in Worker, Start(w) \/ Crash(w)
  PROVE  Fenced'
<1> USE DEF Typed, ProcTyped, OwnTyped, StepTyped
<1>1. lease' = lease /\ \A u \in Worker : drift'[u] \in {drift[u], 0}
  BY DEF Start, Crash, calls
<1>2. \A u \in Worker \ {w} :
        /\ life'[u] = life[u] /\ at'[u] = at[u] /\ owned'[u] = owned[u]
        /\ due'[u] = due[u] /\ running'[u] = running[u]
  BY DEF Start, Crash, calls, claims
<1>3. at[w] \in Labels /\ at'[w] = "idle" /\ ~owned'[w] /\ ~due'[w] /\ ~running'[w]
  BY DEF Start, Crash, calls, claims, Fenced, Steady, Rests, Up
<1>4. ASSUME NEW u \in Worker PROVE Steady(u)'
  <2>1. Steady(u)
    BY DEF Fenced
  <2>2. CASE u = w
    BY <1>1, <1>3, <2>1, <2>2 DEF Steady, Rests, Holds, Prompt, OwnSteps
  <2>3. CASE u # w
    BY <1>1, <1>2, <2>1, <2>3 DEF Steady, Rests, Holds, Prompt, LeaseOf, Up
  <2> QED BY <2>2, <2>3
<1>5. \A u \in Worker : life[u] # "new" => life'[u] # "new" /\ (Up(u)' => Up(u))
  BY DEF Start, Crash, Up
<1>6. lease # NoLease => lease.by \in Worker
  BY DEF LeaseTyped, Lease
<1>7. Begun'
  BY <1>1, <1>5, <1>6 DEF Fenced, Begun
<1>8. ASSUME NEW v \in Worker, at'[v] = "unlinkStale"
      PROVE  lease # NoLease /\ (Up(lease.by)' => lease.heartbeat > Stale)
  <2>1. at[v] = "unlinkStale"
    BY <1>2, <1>3, <1>8
  <2>2. lease # NoLease /\ (Up(lease.by) => lease.heartbeat > Stale) /\ life[lease.by] # "new"
    BY <2>1 DEF Fenced, Judged, Begun
  <2>3. life'[lease.by] = "up" => Up(lease.by)
    BY <1>5, <1>6, <2>2 DEF Up
  <2> QED BY <1>1, <2>2, <2>3 DEF Up
<1>9. Judged'
  BY <1>1, <1>8 DEF Judged
<1> QED BY <1>4, <1>7, <1>9 DEF Fenced
-----------------------------------------------------------------------------
(***************************************************************************)
(* Sound: what is owned and not given up is held and fresh.                *)
(***************************************************************************)
LEMMA Fresh ==
  ASSUME Typed, Fenced, NEW u \in Worker, Keeps(u), owned[u], ~lost[u]
  PROVE  /\ LeaseOf(u) /\ Up(u) /\ lease.heartbeat <= Stale
         /\ \A v \in Worker : at[v] # "unlinkStale"
<1>1. LeaseOf(u) /\ lease.heartbeat <= failures[u] + Beat(u) /\ Up(u)
  BY DEF Keeps, Fenced, Steady, Rests
<1>2. lease.heartbeat \in Nat /\ failures[u] \in 0 .. MaxFailures - 1 /\ Beat(u) \in {0, 1}
  BY <1>1, LimitAssumption DEF LeaseOf, Typed, LeaseTyped, OwnTyped, Lease, Ages, Beat
<1>3. lease.heartbeat < Stale
  BY <1>1, <1>2, LimitAssumption
<1> QED BY <1>1, <1>2, <1>3, LimitAssumption DEF Fenced, Judged, LeaseOf

\* A step that does not concern what is owned.
LEMMA KeptSound ==
  ASSUME NEW w \in Worker, Sound(w), lease' = lease, life' = life,
         owned'[w] = owned[w], failures'[w] = failures[w], due'[w] = due[w], lost'[w] = lost[w],
         running'[w] => running[w], temporary'[w] => lost[w],
         at[w] \notin {"beatWrite", "unlinkOwn"}, at'[w] \notin TouchSteps \cup {"unlinkOwn"}
  PROVE  Sound(w)'
BY DEF Sound, Keeps, OwnsFirst, Leaves, LeaseOf, Up, Beat, TouchSteps

LEMMA ReleaseSound ==
  ASSUME Typed, NEW w \in Worker, Sound(w), ReleaseReads(w), lease' = lease,
         running'[w] => lost[w]
  PROVE  Sound(w)'
<1>1. /\ ~owned'[w] /\ ~due'[w] /\ ~temporary'[w] /\ lost' = lost
      /\ at'[w] = (IF LeaseOf(w) THEN "unlinkOwn" ELSE "idle")
  BY ReleaseLeads DEF ReleaseReads, Typed, OwnTyped, StepTyped
<1> QED BY <1>1 DEF Sound, Keeps, OwnsFirst, Leaves, LeaseOf, TouchSteps

LEMMA AbortSound ==
  ASSUME Typed, NEW w \in Worker, Sound(w), AbortAfterLeaseLoss(w), lease' = lease
  PROVE  Sound(w)'
<1>1. ~running'[w]
  BY DEF AbortAfterLeaseLoss, Typed, OwnTyped
<1> QED BY <1>1, ReleaseSound DEF AbortAfterLeaseLoss

LEMMA RetrySound ==
  ASSUME Typed, NEW w \in Worker, Sound(w), Retry(w) \/ Refuse(w), lease' = lease, life' = life,
         at[w] \notin {"beatWrite", "unlinkOwn"}
  PROVE  Sound(w)'
<1>1. CASE Refuse(w) /\ temporary[w]
  BY <1>1, AbortSound DEF Refuse
<1>2. CASE ~(Refuse(w) /\ temporary[w])
  <2>1. UNCHANGED <<claims, past, temporary>> /\ at'[w] \in {"acquire", "idle"}
    BY <1>2 DEF Retry, Refuse, Goto, Typed, StepTyped
  <2> QED BY <2>1, KeptSound DEF claims, past, TouchSteps, Sound, OwnsFirst
<1> QED BY <1>1, <1>2

\* The touch meets the loss, or is the failure that makes it one.
LEMMA LoseSound ==
  ASSUME Typed, NEW w \in Worker, Sound(w), LoseTaskLease(w), lease' = lease,
         owned[w] \/ ~LeaseOf(w), owned[w] \/ running'[w] = running[w],
         temporary'[w] => temporary[w], at'[w] \notin TouchSteps \cup {"unlinkOwn"}
  PROVE  Sound(w)'
<1>1. ~owned'[w] /\ ~due'[w] /\ lost'[w] = (lost[w] \/ owned[w])
  BY DEF LoseTaskLease, Typed, OwnTyped, PastTyped
<1> QED BY <1>1 DEF Sound, Keeps, OwnsFirst, Leaves, LeaseOf

\* A record is published.
LEMMA PublishSound ==
  ASSUME Typed, NEW w \in Worker, Sound(w), Publish(w), owned'[w], temporary'[w] = temporary[w],
         LeaseOf(w)', lease'.heartbeat = 0, failures'[w] \in Nat,
         at'[w] \notin TouchSteps \cup {"unlinkOwn"}
  PROVE  Sound(w)'
<1>1. lost'[w] = (lost[w] /\ temporary[w])
  BY DEF Publish, Typed, PastTyped
<1>2. Beat(w)' \in {0, 1}
  BY DEF Beat
<1>3. lease'.heartbeat <= failures'[w] + Beat(w)'
  BY <1>2
<1> QED BY <1>1, <1>3 DEF Sound, Keeps, OwnsFirst, Leaves

LEMMA OwnSound ==
  ASSUME Typed, Typed', Fenced, NEW w \in Worker, Sound(w), Works(w), ~late'
  PROVE  Sound(w)'
<1> USE DEF Typed, StepTyped
<1>1. Steady(w) /\ Up(w) /\ life' = life /\ (temporary[w] => lost[w])
  BY Others DEF Fenced, Sound, OwnsFirst
<1>2. ~Files(w) => lease' = lease
  BY <1>1, QuietStep DEF Steady, Quiet
<1>3. ~ReconcileReads(w) /\ ~OrphanPatch(w) /\ ~OrphanUnlink(w)
  BY <1>1 DEF ReconcileReads, OrphanPatch, OrphanUnlink, At, Steady, Prompt
<1>4. CASE SetLeaseLostListener(w)
  <2>1. running'[w] => running[w]
    BY <1>4 DEF SetLeaseLostListener, OwnTyped
  <2> QED BY <1>1, <1>4, <2>1, KeptSound DEF SetLeaseLostListener, At, calls, past, TouchSteps
<1>5. CASE AgentStart(w) \/ MarkWorking(w)
  BY <1>1, <1>5, KeptSound DEF AgentStart, MarkWorking, Begin, Goto, At, claims, calls, past, TouchSteps
<1>6. CASE GuardedWrite(w)
  <2>1. temporary'[w] => lost[w]
    BY <1>6 DEF GuardedWrite, Sound, OwnsFirst, Keeps, OwnsTaskLease
  <2> QED BY <1>1, <1>6, <2>1, KeptSound DEF GuardedWrite, Begin, Goto, At, claims, past, TouchSteps
<1>7. CASE ReleaseTaskLease(w)
  <2>1. ~running'[w] /\ lease' = lease
    BY <1>7 DEF ReleaseTaskLease, OwnTyped
  <2> QED BY <1>7, <2>1, ReleaseSound DEF ReleaseTaskLease
<1>8. CASE NoticeLoss(w) \/ WriteRefused(w)
  BY <1>8, AbortSound DEF NoticeLoss, WriteRefused
<1>9. CASE Acquires(w)
  <2>1. Judge(w) /\ lease' = lease /\ at[w] \in {"idle", "acquire"}
    BY <1>9 DEF Acquires, AcquireTaskLease, AcquireReads, Judge, At
  <2>2. CASE Refuse(w)
    BY <1>1, <2>1, <2>2, RetrySound
  <2>3. CASE ~Refuse(w) /\ ~LeaseOf(w)
    <3>1. owned'[w] = owned[w] /\ at'[w] \in {"lock", "link"}
      BY <2>1, <2>3 DEF Judge, Goto, OwnTyped
    <3> QED BY <1>1, <2>1, <2>3, <3>1, KeptSound DEF Judge, past, TouchSteps
  <2>4. CASE ~Refuse(w) /\ LeaseOf(w)
    <3>1. owned'[w] /\ at'[w] = "touch" /\ (owned[w] \/ lost[w])
      BY <1>1, <2>1, <2>4 DEF Judge, Goto, OwnTyped, Sound, Leaves
    <3> QED BY <1>1, <2>1, <2>4, <3>1
            DEF Judge, past, Sound, Keeps, OwnsFirst, Leaves, LeaseOf, Beat, TouchSteps
  <2> QED BY <2>2, <2>3, <2>4
<1>10. CASE HeartbeatReads(w)
  <2>1. owned[w] /\ at[w] = "idle" /\ lease' = lease
    BY <1>10 DEF HeartbeatReads, At, Sound, OwnsFirst
  <2>2. CASE LeaseOf(w)
    <3>1. at'[w] = "beatWrite" /\ ~due'[w] /\ UNCHANGED <<owned, failures, running, temporary, lost>>
      BY <1>10, <2>2 DEF HeartbeatReads, Goto, OwnTyped
    <3>2. Beat(w) = 1 /\ Beat(w)' = 1
      BY <1>10, <3>1 DEF HeartbeatReads, Beat
    <3> QED BY <2>1, <3>1, <3>2 DEF Sound, Keeps, OwnsFirst, Leaves, LeaseOf
  <2>3. CASE ~LeaseOf(w)
    BY <1>10, <2>1, <2>3, LoseSound DEF HeartbeatReads, calls, TouchSteps
  <2> QED BY <2>2, <2>3
<1>11. CASE TouchReads(w)
  <2>1. owned[w] /\ at[w] = "touch" /\ lease' = lease
    BY <1>11 DEF TouchReads, At, Sound, OwnsFirst, TouchSteps
  <2>2. CASE LeaseOf(w)
    <3>1. at'[w] = "touchWrite" /\ UNCHANGED <<claims, temporary, lost>>
      BY <1>11, <2>2 DEF TouchReads, Goto
    <3> QED BY <2>1, <3>1
            DEF claims, Sound, Keeps, OwnsFirst, Leaves, LeaseOf, Up, Beat, TouchSteps
  <2>3. CASE ~LeaseOf(w)
    BY <1>11, <2>1, <2>3, LoseSound, AcquiredLeads DEF TouchReads, TouchSteps
  <2> QED BY <2>2, <2>3
<1>12. CASE TouchFails(w)
  <2>1. owned[w] /\ at[w] \in {"beatWrite", "touchWrite"} /\ lease' = lease
    BY <1>12 DEF TouchFails, Sound, OwnsFirst, TouchSteps
  <2>2. at'[w] \in {"idle", "writeLock"} /\ temporary' = temporary
    BY <1>12, AcquiredLeads DEF TouchFails, TouchReturns, Goto
  <2>3. CASE GivesUp(w)
    BY <1>12, <2>1, <2>2, <2>3, LoseSound DEF TouchFails, TouchSteps
  <2>4. CASE ~GivesUp(w)
    <3>1. failures'[w] = failures[w] + 1 /\ UNCHANGED <<owned, due, lost>> /\ failures[w] \in Nat
      BY <1>12, <2>4, LimitAssumption DEF TouchFails, OwnTyped
    <3>2. LeaseOf(w) => lease.heartbeat \in Nat
      BY DEF LeaseOf, LeaseTyped, Lease, Ages
    <3>3. Beat(w) \in {0, 1} /\ Beat(w)' \in {0, 1}
      BY DEF Beat
    <3>4. Keeps(w)'
      BY <2>1, <3>1, <3>2, <3>3 DEF Sound, Keeps, LeaseOf
    <3> QED BY <2>1, <2>2, <3>1, <3>4 DEF Sound, OwnsFirst, Leaves, TouchSteps
  <2> QED BY <2>3, <2>4
<1>13. CASE TouchWrites(w)
  <2>1. owned[w] /\ drift[w] = 0
    BY <1>1, <1>13 DEF TouchWrites, Sound, OwnsFirst, TouchSteps, Steady, Prompt
  <2>2. lease' \in Lease
    BY <1>13, <2>1, LimitAssumption DEF TouchWrites, Touched, Lease, Ages
  <2>3. LeaseOf(w)' /\ lease'.heartbeat = 0
    BY <1>13, <2>1, <2>2, NoLeaseAssumption DEF TouchWrites, Touched, LeaseOf
  <2>4. failures'[w] = 0 /\ owned' = owned /\ Publish(w)
    BY <1>13 DEF TouchWrites, OwnTyped
  <2>5. at'[w] \in {"idle", "writeLock"} /\ temporary' = temporary
    BY <1>13, AcquiredLeads DEF TouchWrites, TouchReturns, Goto
  <2> QED BY <2>1, <2>3, <2>4, <2>5, PublishSound DEF TouchSteps
<1>14. CASE CreateLeaseFile(w)
  <2>1. drift[w] = 0
    BY <1>1 DEF Steady, Prompt
  <2>2. lease' \in Lease
    BY <1>14, <2>1, LimitAssumption DEF CreateLeaseFile, Lease, Ages
  <2>3. LeaseOf(w)' /\ lease'.heartbeat = 0
    BY <1>14, <2>1, <2>2, NoLeaseAssumption DEF CreateLeaseFile, LeaseOf
  <2>4. failures'[w] \in Nat /\ owned'[w] /\ Publish(w)
    BY <1>14, LimitAssumption DEF CreateLeaseFile, OwnTyped
  <2>5. at'[w] \in {"idle", "writeLock"} /\ temporary' = temporary
    BY <1>14, AcquiredLeads DEF CreateLeaseFile
  <2> QED BY <2>3, <2>4, <2>5, PublishSound DEF TouchSteps
<1>15. CASE UnlinkStale(w)
  <2>1. at[w] = "unlinkStale" /\ lease' = NoLease /\ at'[w] = "link" /\ UNCHANGED <<claims, temporary, past>>
    BY <1>15 DEF UnlinkStale, At, Goto
  <2>2. ~(owned[w] /\ ~lost[w])
    BY <2>1, Fresh DEF Sound
  <2> QED BY <2>1, <2>2 DEF claims, past, Sound, Keeps, OwnsFirst, Leaves, LeaseOf, TouchSteps
<1>16. CASE UnlinkOwn(w)
  <2>1. at[w] = "unlinkOwn" /\ lease' = NoLease /\ at'[w] = "idle" /\ UNCHANGED <<claims, temporary, past>>
    BY <1>16 DEF UnlinkOwn, At, Goto
  <2> QED BY <2>1 DEF claims, past, Sound, Keeps, OwnsFirst, Leaves, LeaseOf, TouchSteps
<1>17. CASE ReclaimRefused(w) \/ CreateOccupied(w)
  BY <1>1, <1>17, RetrySound DEF ReclaimRefused, CreateOccupied, At
<1>18. CASE Revalidate(w)
  <2>1. CASE Retry(w)
    BY <1>1, <1>18, <2>1, RetrySound DEF Revalidate, At
  <2>2. CASE ~Retry(w)
    BY <1>1, <1>18, <2>2, KeptSound DEF Revalidate, At, Goto, claims, past, TouchSteps
  <2> QED BY <2>1, <2>2
<1>19. CASE ReclaimEnters(w) \/ WriteEnters(w)
  BY <1>1, <1>19, KeptSound DEF ReclaimEnters, WriteEnters, At, Goto, claims, past, TouchSteps
<1>20. CASE AcquireThrows(w)
  BY <1>1, <1>20, KeptSound DEF AcquireThrows, Goto, claims, past, TouchSteps
<1>21. CASE WriteChecks(w)
  <2>1. CASE OwnsTaskLease(w)
    BY <1>1, <1>21, <2>1, KeptSound DEF WriteChecks, At, Goto, claims, past, TouchSteps
  <2>2. CASE ~OwnsTaskLease(w)
    BY <1>21, <2>2, AbortSound DEF WriteChecks
  <2> QED BY <2>1, <2>2
<1>22. CASE WriteEnds(w) \/ WriteThrows(w)
  <2>1. GiveBack(w) /\ lease' = lease /\ running' = running /\ at[w] \in {"write", "writeLock"}
    BY <1>22 DEF WriteEnds, WriteThrows, GiveBack, At
  <2>2. CASE temporary[w]
    BY <1>1, <2>1, <2>2, ReleaseSound DEF GiveBack
  <2>3. CASE ~temporary[w]
    BY <1>1, <2>1, <2>3, KeptSound DEF GiveBack, Goto, past, TouchSteps
  <2> QED BY <2>2, <2>3
<1> QED BY <1>3, <1>4, <1>5, <1>6, <1>7, <1>8, <1>9, <1>10, <1>11, <1>12, <1>13, <1>14, <1>15, <1>16,
           <1>17, <1>18, <1>19, <1>20, <1>21, <1>22 DEF Works, Call, Step, Acquires

\* Nobody else's step takes away what is owned.
LEMMA OtherSound ==
  ASSUME Typed, Fenced, NEW w \in Worker, Works(w), ~late',
         NEW u \in Worker, u # w, Sound(u)
  PROVE  Sound(u)'
<1>1. /\ owned'[u] = owned[u] /\ failures'[u] = failures[u] /\ due'[u] = due[u]
      /\ running'[u] = running[u] /\ temporary'[u] = temporary[u]
      /\ at'[u] = at[u] /\ lost'[u] = lost[u] /\ life' = life
  BY Others
<1>2. CASE ~Files(w)
  <2>1. lease' = lease
    BY <1>2, QuietStep DEF Fenced, Steady, Quiet
  <2> QED BY <1>1, <2>1 DEF Sound, Keeps, OwnsFirst, Leaves, LeaseOf, Up, Beat
<1>3. CASE Files(w)
  <2>1. ~LeaseOf(u)'
    <3>1. CASE UnlinkStale(w) \/ UnlinkOwn(w)
      BY <3>1 DEF UnlinkStale, UnlinkOwn, LeaseOf
    <3>2. CASE TouchWrites(w) \/ CreateLeaseFile(w)
      BY <3>2 DEF TouchWrites, CreateLeaseFile, Touched, LeaseOf
    <3> QED BY <1>3, <3>1, <3>2 DEF Files
  <2>2. ~(owned[u] /\ ~lost[u])
    <3> SUFFICES ASSUME owned[u], ~lost[u] PROVE FALSE
      OBVIOUS
    <3>1. LeaseOf(u) /\ \A v \in Worker : at[v] # "unlinkStale"
      BY Fresh DEF Sound
    <3>2. CASE at[w] \in OwnSteps
      BY <3>1, <3>2, OwnAlone DEF LeaseOf
    <3>3. CASE at[w] \notin OwnSteps
      BY <1>3, <3>1, <3>3
         DEF Files, TouchWrites, UnlinkStale, UnlinkOwn, CreateLeaseFile, Linkable, LeaseOf, At, OwnSteps
    <3> QED BY <3>2, <3>3
  <2> QED BY <1>1, <2>1, <2>2 DEF Sound, Keeps, OwnsFirst, Leaves
<1> QED BY <1>2, <1>3

LEMMA SoundTick ==
  ASSUME Typed, Tick, setup.stallAt = {}, NEW w \in Worker, Sound(w)
  PROVE  Sound(w)'
<1>1. at[w] = "idle" /\ ~due[w] /\ at'[w] = "idle" /\ due'[w] = owned[w]
  BY DEF Tick, Typed, OwnTyped
<1>2. UNCHANGED <<owned, failures, running, temporary, lost, life>>
  BY DEF Tick, processes, past
<1>3. /\ LeaseOf(w)' <=> LeaseOf(w)
      /\ LeaseOf(w) => lease'.heartbeat <= lease.heartbeat + 1 /\ lease.heartbeat \in Nat
                       /\ lease'.heartbeat \in Nat
  <2>1. CASE lease = NoLease
    BY <2>1 DEF Tick, LeaseOf
  <2>2. CASE lease # NoLease
    <3>1. lease \in Lease /\ lease' \in Lease
      BY <2>2, LimitAssumption DEF Tick, Typed, LeaseTyped, Lease, Ages, Older
    <3>2. lease'.by = lease.by /\ lease'.heartbeat = Older(lease.heartbeat)
      BY <2>2 DEF Tick
    <3> QED BY <2>2, <3>1, <3>2, NoLeaseAssumption, LimitAssumption DEF LeaseOf, Lease, Ages, Older
  <2> QED BY <2>1, <2>2
<1>4. Beat(w) = 0 /\ (owned[w] => Beat(w)' = 1) /\ failures[w] \in Nat
  BY <1>1, LimitAssumption DEF Beat, Typed, OwnTyped
<1>5. Keeps(w)'
  BY <1>2, <1>3, <1>4 DEF Sound, Keeps
<1> QED BY <1>1, <1>2, <1>3, <1>5 DEF Sound, OwnsFirst, Leaves, TouchSteps, Up

LEMMA SoundLife ==
  ASSUME Typed, Fenced, NEW w \in Worker, Start(w) \/ Crash(w), NEW u \in Worker, Sound(u)
  PROVE  Sound(u)'
<1> USE DEF Typed, ProcTyped, OwnTyped, StepTyped, PastTyped
<1>1. CASE Start(w)
  <2>1. u = w => ~LeaseOf(u)
    BY <1>1 DEF Start, Fenced, Begun, LeaseOf
  <2> QED BY <1>1, <2>1 DEF Start, claims, calls, past, Sound, Keeps, OwnsFirst, Leaves, LeaseOf, Up, Beat
<1>2. CASE Crash(w) /\ u = w
  BY <1>2 DEF Crash, Sound, Keeps, OwnsFirst, Leaves, Up, TouchSteps
<1>3. CASE Crash(w) /\ u # w
  BY <1>3 DEF Crash, Sound, Keeps, OwnsFirst, Leaves, LeaseOf, Up, Beat
<1> QED BY <1>1, <1>2, <1>3
-----------------------------------------------------------------------------
\* What was late stays late, and circumstances do not change.
LEMMA LateStays ==
  ASSUME Typed, [Next]_vars
  PROVE  (late => late') /\ setup' = setup
<1>1. CASE Tick \/ (\E w \in Worker : Start(w) \/ Crash(w)) \/ UNCHANGED vars
  BY <1>1 DEF Tick, Start, Crash, vars, past, processes
<1>2. ASSUME NEW w \in Worker, Works(w)
      PROVE  (late => late') /\ setup' = setup
  <2>1. setup' = setup
    BY <1>2, Others
  <2>2. ReleaseReads(w) => (late => late')
    BY DEF ReleaseReads, ReadLate
  <2>3. Retry(w) \/ Refuse(w) \/ Judge(w) => (late => late')
    BY <2>2 DEF Judge, Retry, Refuse, AbortAfterLeaseLoss, past
  <2>4. CASE Acquires(w) \/ ReclaimRefused(w) \/ Revalidate(w) \/ CreateOccupied(w)
    BY <2>1, <2>3, <2>4
       DEF Acquires, AcquireTaskLease, AcquireReads, ReclaimRefused, Revalidate, CreateOccupied, past
  <2>5. CASE ReleaseTaskLease(w) \/ NoticeLoss(w) \/ WriteRefused(w) \/ WriteChecks(w)
    BY <2>1, <2>2, <2>5 DEF ReleaseTaskLease, NoticeLoss, WriteRefused, WriteChecks, AbortAfterLeaseLoss, past
  <2>6. CASE WriteEnters(w) \/ WriteEnds(w) \/ WriteThrows(w)
    <3>1. WriteEnters(w) => late' = late
      BY DEF WriteEnters, past
    <3>2. GiveBack(w) => (late => late')
      BY <2>2 DEF GiveBack, past
    <3> QED BY <2>1, <2>6, <3>1, <3>2 DEF WriteEnds, WriteThrows
  <2>7. CASE SetLeaseLostListener(w) \/ AgentStart(w) \/ MarkWorking(w) \/ GuardedWrite(w) \/ ReconcileReads(w)
    BY <2>1, <2>7 DEF SetLeaseLostListener, AgentStart, MarkWorking, GuardedWrite, ReconcileReads, Begin, past
  <2>8. CASE HeartbeatReads(w) \/ TouchReads(w) \/ TouchWrites(w) \/ TouchFails(w)
    <3>1. ReadLate(w) => (late => late')
      BY DEF ReadLate
    <3> QED BY <2>1, <2>8, <3>1 DEF HeartbeatReads, TouchReads, TouchWrites, TouchFails
  <2>9. CASE \/ ReclaimEnters(w) \/ UnlinkStale(w) \/ CreateLeaseFile(w) \/ AcquireThrows(w)
             \/ UnlinkOwn(w) \/ OrphanPatch(w) \/ OrphanUnlink(w)
    BY <2>1, <2>9
       DEF ReclaimEnters, UnlinkStale, CreateLeaseFile, AcquireThrows, UnlinkOwn, OrphanPatch, OrphanUnlink, past
  <2> QED BY <1>2, <2>4, <2>5, <2>6, <2>7, <2>8, <2>9 DEF Works, Call, Step, Acquires
<1> QED BY <1>1, <1>2 DEF Next, Works

LEMMA InvStep == IInv /\ [Next]_vars => IInv'
<1> SUFFICES ASSUME IInv, [Next]_vars PROVE IInv'
  OBVIOUS
<1>1. Typed /\ Typed' /\ Exclusive /\ Exclusive'
  BY TypeStep, ExclusiveStep DEF IInv
<1>2. (late => late') /\ setup' = setup
  BY <1>1, LateStays
<1>3. ASSUME Orderly' PROVE Fenced /\ Fenced' /\ ~late'
  <2>1. ~late' /\ setup.stallAt \subseteq {"write"} /\ Fenced
    BY <1>2, <1>3 DEF Orderly, IInv
  <2>2. CASE UNCHANGED vars
    BY <2>1, <2>2
       DEF vars, processes, claims, calls, past, Fenced, Steady, Rests, Holds, Prompt, Judged, Begun, LeaseOf, Up
  <2>3. ASSUME NEW w \in Worker, Works(w) PROVE Fenced'
    BY <1>1, <2>1, <2>3, FencedStep
  <2> QED BY <1>1, <2>1, <2>2, <2>3, FencedTick, FencedLife DEF Next, Works
<1>4. ASSUME Paced', NEW u \in Worker PROVE Sound(u)'
  <2>1. Orderly' /\ setup.stallAt = {} /\ Sound(u)
    BY <1>2, <1>4 DEF Orderly, Paced, IInv
  <2>2. Fenced /\ ~late'
    BY <1>3, <2>1
  <2>3. CASE UNCHANGED vars
    BY <2>1, <2>3
       DEF vars, processes, claims, calls, past, Sound, Keeps, OwnsFirst, Leaves, LeaseOf, Up, Beat
  <2>4. ASSUME NEW w \in Worker, Works(w) PROVE Sound(u)'
    BY <1>1, <2>1, <2>2, <2>4, OwnSound, OtherSound
  <2> QED BY <1>1, <2>1, <2>2, <2>3, <2>4, SoundTick, SoundLife DEF Next, Works
<1> QED BY <1>1, <1>3, <1>4 DEF IInv

LEMMA SpecInv == Spec => []IInv
<1> QED BY InitInv, InvStep, PTL DEF Spec

\* TypeOK: what every variable holds; in particular no failure is counted beyond the limit,
\* and no acquisition begins one attempt too many.
THEOREM TypeCorrect == Spec => []TypeOK
<1>1. IInv => TypeOK
  BY TypedMeans DEF IInv
<1> QED BY <1>1, SpecInv, PTL

\* WriteFenced, the claim of runWithTaskLeaseOwnership: unless somebody refreshes or removes
\* a record without the reclaim lock when it is already stale, or an orphan's, the lease is
\* the writer's throughout a session write, for however long the write is held up.
THEOREM WritesFenced == Spec => []WriteFenced
<1>1. IInv => WriteFenced
  BY DEF IInv, WriteFenced, Fenced, Steady, Holds, At
<1> QED BY <1>1, SpecInv, PTL

\* OwnerFenced, why MAX_HEARTBEAT_FAILURES is below TASK_LEASE_STALE_MS: a worker that keeps
\* the pace of its timers, counts the task as its own and has not given it up as lost holds
\* an active lease, whichever of its heartbeat writes fail.
THEOREM OwnersFenced == Spec => []OwnerFenced
<1>1. IInv => OwnerFenced
  <2> SUFFICES ASSUME IInv, Paced, NEW w \in Worker, owned[w], ~lost[w]
               PROVE  LeaseOf(w) /\ LeaseActive
    BY TypedMeans DEF IInv, OwnerFenced
  <2>1. LeaseOf(w) /\ Up(w) /\ lease.heartbeat <= Stale
    BY Fresh DEF IInv, Paced, Orderly, Sound
  <2> QED BY <2>1 DEF LeaseActive, LeaseAlive, LeaseOf, ProcessAlive
<1> QED BY <1>1, SpecInv, PTL

\* SingleRunner: among workers that keep the pace of their timers, of two that execute the
\* task one has given the lease up as lost before the other took it.
THEOREM OneRunner == Spec => []SingleRunner
<1>1. IInv => SingleRunner
  <2> SUFFICES ASSUME IInv, Paced, NEW v \in Worker, NEW w \in Worker,
                      running[v], running[w], ~lost[v], ~lost[w]
               PROVE  v = w
    BY DEF SingleRunner
  <2>1. owned[v] /\ owned[w] /\ Keeps(v) /\ Keeps(w)
    BY DEF IInv, Sound, OwnsFirst
  <2> QED BY <2>1 DEF Keeps, LeaseOf
<1> QED BY <1>1, SpecInv, PTL

\* FreshLeaseKept, why #reclaimStale judges again under the reclaim lock: no step but its
\* own release takes an active lease away from the process that is named in it.
THEOREM FreshLeasesKept == Spec => FreshLeaseKept
<1>1. IInv /\ IInv' /\ [Next]_vars =>
        [Orderly => \A w \in Worker :
           LeaseOf(w) /\ Up(w) /\ LeaseActive /\ ~LeaseOf(w)' => At(w, "unlinkOwn")]_vars
  <2> SUFFICES ASSUME IInv, IInv', [Next]_vars, Orderly, NEW w \in Worker,
                      LeaseOf(w), Up(w), LeaseActive, ~LeaseOf(w)'
               PROVE  At(w, "unlinkOwn") \/ UNCHANGED vars
    OBVIOUS
  <2>1. Typed /\ Fenced
    BY DEF IInv
  <2>2. CASE UNCHANGED vars
    BY <2>2
  <2>3. CASE Tick \/ \E v \in Worker : Start(v) \/ Crash(v)
    <3>1. CASE Tick
      <4>1. lease' \in Lease /\ lease'.by = lease.by
        BY <3>1, LimitAssumption DEF Tick, LeaseOf, IInv, Typed, LeaseTyped, Lease, Ages, Older
      <4> QED BY <4>1, NoLeaseAssumption DEF LeaseOf
    <3>2. CASE \E v \in Worker : Start(v) \/ Crash(v)
      BY <3>2 DEF Start, Crash, LeaseOf
    <3> QED BY <2>3, <3>1, <3>2
  <2>4. ASSUME NEW v \in Worker, Works(v) PROVE At(w, "unlinkOwn")
    <3>1. lease \in Lease /\ lease.by = w /\ lease.heartbeat <= Stale /\ lease # NoLease
      BY DEF LeaseOf, LeaseActive, LeaseAlive, IInv, Typed, LeaseTyped
    <3>2. \A u \in Worker : at[u] # "unlinkStale"
      BY <2>1, <3>1, LimitAssumption DEF Fenced, Judged, Lease, Ages
    <3>3. at[v] \notin {"orphanPatch", "orphanUnlink"}
      BY <2>1 DEF Fenced, Steady, Prompt
    <3>4. at[v] \in OwnSteps => v = w
      BY <2>1, <3>1, OwnAlone
    <3>5. CASE UnlinkOwn(v) \/ TouchWrites(v)
      BY <3>4, <3>5, NoLeaseAssumption, <2>1, LimitAssumption
         DEF UnlinkOwn, TouchWrites, Touched, OwnSteps, At, LeaseOf, Lease, Typed, StepTyped
    <3>6. CASE ~UnlinkOwn(v) /\ ~TouchWrites(v)
      <4>1. lease' = lease
        BY <2>4, <3>1, <3>2, <3>3, <3>6
           DEF Works, Call, Step, SetLeaseLostListener, AcquireTaskLease, AcquireReads, Judge, AgentStart, Begin,
               ReleaseTaskLease, MarkWorking, NoticeLoss, GuardedWrite, ReconcileReads, HeartbeatReads,
               TouchReads, TouchFails, ReclaimEnters, ReclaimRefused, Revalidate, UnlinkStale, CreateLeaseFile,
               CreateOccupied, AcquireThrows, WriteEnters, WriteRefused, WriteChecks, WriteEnds, WriteThrows,
               GiveBack, OrphanPatch, OrphanUnlink, Linkable, At
      <4> QED BY <4>1 DEF LeaseOf
    <3> QED BY <3>5, <3>6
  <2> QED BY <2>2, <2>3, <2>4 DEF Next, Works
<1> QED BY <1>1, SpecInv, PTL DEF Spec, FreshLeaseKept
=============================================================================
