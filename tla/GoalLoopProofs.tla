--------------------------- MODULE GoalLoopProofs ---------------------------
(***************************************************************************)
(* Proofs about GoalLoop, for every budget, every number of events and     *)
(* every result the model may imitate: the loop file stays a loop, the     *)
(* budget of turns is kept, and what the user stopped, closed or paused    *)
(* is left alone.  Where the model imitates none, and no counted prompt    *)
(* was lost: a result is counted once, for its own loop, and only the      *)
(* result of a verification completes a loop.                              *)
(***************************************************************************)
EXTENDS GoalLoop, FiniteSetTheorems, SequenceTheorems, TLAPS

Statuses == {"none", "queued", "running", "verifying", "paused", "blocked", "completed", "stopped"}
Whys == {"none", "user", "abort", "hang", "turn_timeout", "unknown_delivery", "scheduler_error",
         "session_end", "turn_limit", "rejected", "unreadable"}
Loops == [status : Statuses, why : Whys, max : Nat, full : BOOLEAN, count : Nat, kind : Kinds,
          retry : BOOLEAN, recovery : BOOLEAN, streak : Nat, rejected : Nat, n : Nat]
Aborts == {"no", "abort", "hang"}
Words  == Results \cup Errors \cup {"none", "missing"}
Outcomes == {NoOutcome} \cup [res : Words, of : Nat, kind : Kinds \cup {"none", "user"}, send : Nat]
Runtimes == [awaiting : BOOLEAN, timer : BOOLEAN, timeout : BOOLEAN, inFlight : BOOLEAN,
             pausedPending : BOOLEAN, pending : Outcomes, aborted : Aborts, discard : BOOLEAN,
             transport : Nat]
Runs == [phase : {"none", "streaming", "turned", "ended", "settling", "closing"}, of : Nat,
         kind : Kinds \cup {"none", "user"}, send : Nat, res : Words, aborted : Aborts,
         stale : BOOLEAN]
Spent == [events : Nat, fails : Nat, lost : BOOLEAN]

Typed ==
  /\ file \in Loops
  /\ rt \in Runtimes
  /\ run \in Runs
  /\ sends \in Nat /\ preps \in Nat /\ stale \in Nat
  /\ spent \in Spent

\* The budget of turns is kept.
WithinBudget == file.count <= file.max

IInv == Typed /\ WithinBudget

\* l and f are the same loop, but for the turn it stands at.
SameLoop(l, f) ==
  f \in Loops /\ f.n = l.n /\ f.count = l.count /\ f.max = l.max /\ f.full = l.full
-----------------------------------------------------------------------------
(***************************************************************************)
(* The operators that make one loop of another.                            *)
(***************************************************************************)
\* The counters of a loop are numbers, and stay so when one is added.
LEMMA Counters ==
  ASSUME NEW l \in Loops
  PROVE  /\ l.streak + 1 \in Nat /\ l.rejected + 1 \in Nat /\ l.count + 1 \in Nat
         /\ l.n + 1 \in Nat /\ l.n + 1 # l.n
BY DEF Loops, Statuses, Whys, Kinds

\* Reading the file changes nothing but a status.
LEMMA HydratedLoop ==
  ASSUME NEW f \in Loops
  PROVE  /\ SameLoop(f, Hydrated(f))
         /\ Hydrated(f).why = f.why
         /\ Hydrated(f).status # "queued" => Hydrated(f) = f
         /\ f.status # "completed" => Hydrated(f) = f
BY DEF Hydrated, SameLoop, Loops, Statuses, Whys, Kinds

\* Only a verification completes a loop, and never one that runs in full.
LEMMA JudgedLoop ==
  ASSUME NEW l \in Loops, NEW res, l.why = "none", NEW j, j = Judged(l, res)
  PROVE  /\ SameLoop(l, j)
         /\ j.status \in {"queued", "verifying", "paused", "blocked", "completed"}
         /\ j.status = "paused" => j.why = "rejected"
         /\ j.status = "completed" => Verifying(l) /\ res = "verified"
<1>1. CASE ~Verifying(l)
  <2> DEFINE s == IF res = "completed" THEN "verifying"
                  ELSE IF res = "blocked" THEN "blocked" ELSE "queued"
  <2>1. j = [l EXCEPT !.status = s] /\ s \in {"verifying", "blocked", "queued"}
    BY <1>1 DEF Judged
  <2> HIDE DEF s
  <2> QED BY <2>1 DEF SameLoop, Loops, Statuses, Whys, Kinds
<1>2. CASE Verifying(l) /\ res = "verified"
  <2>1. j = [l EXCEPT !.status = "completed", !.rejected = 0] /\ 0 \in Nat
    BY <1>2 DEF Judged
  <2>2. SameLoop(l, j)
    BY <2>1 DEF SameLoop, Loops, Statuses, Whys, Kinds
  <2>3. j.status = "completed"
    BY <2>1 DEF Loops, Statuses, Whys, Kinds
  <2> QED BY <1>2, <2>2, <2>3
<1>3. CASE Verifying(l) /\ res = "blocked"
  <2>1. j = [l EXCEPT !.status = "blocked"]
    BY <1>3 DEF Judged
  <2> QED BY <2>1 DEF SameLoop, Loops, Statuses, Whys, Kinds
<1>4. CASE Verifying(l) /\ res \notin {"verified", "blocked"}
  <2> DEFINE m == l.rejected + 1
  <2>1. m \in Nat
    BY Counters
  <2>2. \/ j = [l EXCEPT !.status = "paused", !.why = "rejected", !.rejected = m]
        \/ j = [l EXCEPT !.status = "queued", !.rejected = m]
    BY <1>4 DEF Judged
  <2> HIDE DEF m
  <2> QED BY <2>1, <2>2 DEF SameLoop, Loops, Statuses, Whys, Kinds
<1> QED BY <1>1, <1>2, <1>3, <1>4

\* A result leaves a loop that goes on, is over, or is paused for a reason of its own.
LEMMA ResultApplied ==
  ASSUME NEW l \in Loops, NEW o, NEW f, f = ApplyResult(l, o)
  PROVE  /\ SameLoop(l, f)
         /\ f.status \in {"queued", "verifying", "paused", "blocked", "completed"}
         /\ f.status = "paused" => f.why \in {"rejected", "turn_limit"}
         /\ f.status = "completed" => ~f.full
<1> DEFINE m == [l EXCEPT !.streak = 0, !.retry = FALSE, !.why = "none"]
           e == Effective(l, o.res)
           j == Judged(m, e)
<1>1. SameLoop(l, m) /\ m.why = "none"
  BY DEF SameLoop, Loops, Statuses, Whys, Kinds
<1> HIDE DEF m, e
<1>2. /\ SameLoop(m, j)
      /\ j.status \in {"queued", "verifying", "paused", "blocked", "completed"}
      /\ j.status = "paused" => j.why = "rejected"
      /\ j.status = "completed" => ~m.full
  <2>1. m \in Loops /\ j = Judged(m, e)
    BY <1>1 DEF SameLoop
  <2> HIDE DEF j
  <2>2. /\ SameLoop(m, j)
        /\ j.status \in {"queued", "verifying", "paused", "blocked", "completed"}
        /\ j.status = "paused" => j.why = "rejected"
        /\ j.status = "completed" => Verifying(m)
    BY <1>1, <2>1, JudgedLoop
  <2> QED BY <2>2 DEF Verifying
<1> HIDE DEF j
<1> DEFINE limited == j.status = "queued" /\ BudgetSpent(j)
           s == IF limited THEN "paused" ELSE j.status
           w == IF limited THEN "turn_limit" ELSE j.why
           k == IF j.status = "verifying" \/ (Verifying(l) /\ j.status = "blocked")
                THEN "verification" ELSE "goal"
<1>3. f = [j EXCEPT !.status = s, !.why = w, !.kind = k]
  BY Zenon DEF ApplyResult, j, m, e
<1>4. /\ s \in {"queued", "verifying", "paused", "blocked", "completed"}
      /\ w \in Whys /\ k \in Kinds
      /\ s = "paused" => w \in {"rejected", "turn_limit"}
      /\ s = "completed" => ~m.full
  BY <1>2 DEF SameLoop, Loops, Whys, Kinds
<1> HIDE DEF s, w, k, limited
<1>5. SameLoop(j, f) /\ f.status = s /\ f.why = w
  <2>1. j \in Loops
    BY <1>2 DEF SameLoop
  <2>2. f.status = s /\ f.why = w
    BY <1>3, <2>1 DEF Loops
  <2>3. s \in Statuses /\ w \in Whys /\ k \in Kinds
    BY <1>4 DEF Statuses
  <2>4. SameLoop(j, f)
    BY <1>3, <2>1, <2>3 DEF SameLoop, Loops
  <2> QED BY <2>2, <2>4
<1> QED BY <1>1, <1>2, <1>4, <1>5 DEF SameLoop

\* A reply without a result changes nothing but where the loop stands.
LEMMA MissingApplied ==
  ASSUME NEW l \in Loops, NEW f, f = ApplyMissing(l)
  PROVE  SameLoop(l, f)
<1> DEFINE m == l.streak + 1
           s == Again(l)
<1>1. m \in Nat /\ s \in Statuses
  BY DEF Loops, Again, Statuses
<1>2. \/ f = [l EXCEPT !.streak = m, !.retry = FALSE, !.status = "paused", !.why = "unreadable"]
      \/ f = [l EXCEPT !.streak = m, !.retry = FALSE, !.status = s, !.why = "none"]
  BY DEF ApplyMissing
<1> HIDE DEF m, s
<1> QED BY <1>1, <1>2 DEF SameLoop, Loops, Statuses, Whys, Kinds

\* pauseLoop pauses, with the reason it is given.
LEMMA PausedLoop ==
  ASSUME NEW l \in Loops, NEW r, NEW why \in Whys, NEW f, f = Paused(l, r, why)
  PROVE  SameLoop(l, f) /\ f.status = "paused" /\ f.why = why
<1> DEFINE a == l.recovery \/ r.awaiting
           b == l.retry \/ r.awaiting
<1>1. a \in BOOLEAN /\ b \in BOOLEAN
  OBVIOUS
<1>2. f = [l EXCEPT !.status = "paused", !.why = why, !.recovery = a, !.retry = b]
  BY Zenon DEF Paused
<1> HIDE DEF a, b
<1> QED BY <1>1, <1>2 DEF SameLoop, Loops, Statuses, Whys, Kinds

\* A turn that is sent again is a turn of the same loop.
LEMMA RequeuedLoop ==
  ASSUME NEW l \in Loops, NEW f, f = Requeued(l)
  PROVE  SameLoop(l, f)
<1> DEFINE s == Again(l)
<1>1. s \in Statuses /\ f = [l EXCEPT !.status = s, !.why = "none"]
  BY DEF Requeued, Again, Statuses
<1> HIDE DEF s
<1> QED BY <1>1 DEF SameLoop, Loops, Statuses, Whys, Kinds

\* A loop that is paused for a reason of its own, blocked or closed for good is at rest.
LEMMA Resting ==
  ASSUME NEW f \in Loops,
         \/ f.status = "paused" /\ f.why \notin {"abort", "hang", "turn_timeout"}
         \/ f.status = "blocked"
         \/ f.status = "completed" /\ ~f.full
  PROVE  ~Ongoing(Hydrated(f))
<1>1. Hydrated(f) = f
  BY DEF Hydrated
<1> QED BY <1>1 DEF Ongoing, Schedulable, Sendable, AutoPaused

\* What a late result makes of the loop; one the user paused goes on only where
\* the new pause could not be written.
LEMMA LateApplied ==
  ASSUME NEW l \in Loops, NEW r, NEW o, NEW bad \in 0 .. 2,
         NEW late, late = ApplyLate(l, r, o, bad)
  PROVE  /\ SameLoop(l, late.file)
         /\ l.status = "paused" /\ l.why = "user"
              => bad # 0 \/ ~Ongoing(Hydrated(late.file))
<1> DEFINE m == [l EXCEPT !.recovery = FALSE]
           applied == ApplyResult(m, o)
           p == Paused(applied, Taken(r), "user")
           held == l.why = "user" /\ Schedulable(applied)
<1>1. SameLoop(l, m)
  BY DEF SameLoop, Loops
<1> HIDE DEF m
<1>2. /\ SameLoop(l, applied)
      /\ applied.status \in {"queued", "verifying", "paused", "blocked", "completed"}
      /\ applied.status = "paused" => applied.why \in {"rejected", "turn_limit"}
      /\ applied.status = "completed" => ~applied.full
  <2>1. m \in Loops
    BY <1>1 DEF SameLoop
  <2> QED BY <1>1, <2>1, ResultApplied DEF SameLoop
<1> HIDE DEF applied
<1>3. SameLoop(l, p) /\ p.status = "paused" /\ p.why = "user"
  <2>1. applied \in Loops /\ "user" \in Whys
    BY <1>2 DEF SameLoop, Whys
  <2> HIDE DEF p
  <2>2. p = Paused(applied, Taken(r), "user")
    BY DEF p
  <2> QED BY <1>2, <2>1, <2>2, PausedLoop DEF SameLoop
<1> HIDE DEF p
<1>4. \/ late.file = l
      \/ late.file = applied /\ (held => bad = 2)
      \/ late.file = p
  BY Zenon DEF ApplyLate, applied, m, p
<1>5. CASE late.file = l
  BY <1>5, Resting DEF SameLoop
<1>6. CASE late.file = applied /\ (held => bad = 2)
  <2>1. SUFFICES ASSUME l.status = "paused", l.why = "user", bad = 0
                 PROVE  ~Ongoing(Hydrated(applied))
    BY <1>2, <1>6
  <2>2. applied \in Loops /\ applied.status \in {"paused", "blocked", "completed"}
    BY <1>2, <1>6, <2>1 DEF SameLoop, Schedulable, Sendable
  <2> QED BY <1>2, <2>2, Resting
<1>7. CASE late.file = p
  <2>1. p \in Loops
    BY <1>3 DEF SameLoop
  <2> QED BY <1>3, <1>7, <2>1, Resting
<1> QED BY <1>4, <1>5, <1>6, <1>7

\* A turn that is sent stays within the budget.
LEMMA SentLoop ==
  ASSUME NEW l \in Loops, Sendable(l), ~AtLimit(l), l.count <= l.max, NEW f, f = Sent(l)
  PROVE  /\ f \in Loops /\ f.n = l.n /\ f.max = l.max
         /\ f.count <= f.max /\ f.status = "running"
<1> DEFINE k == IF l.status = "verifying" THEN "verification" ELSE "goal"
           c == IF l.status = "queued" /\ ~FreeRetry(l) THEN l.count + 1 ELSE l.count
<1>1. k \in Kinds /\ c \in Nat /\ c <= l.max
  BY DEF AtLimit, BudgetSpent, Sendable, Loops, Kinds
<1>2. f = [l EXCEPT !.status = "running", !.recovery = FALSE, !.retry = FALSE, !.kind = k, !.count = c]
  BY Zenon DEF Sent
<1> HIDE DEF k, c
<1>3. "running" \in Statuses
  BY DEF Statuses
<1> QED BY <1>1, <1>2, <1>3 DEF Loops

\* Giving a turn back keeps the loop and its budget.
LEMMA RewoundLoop ==
  ASSUME NEW l \in Loops, l.count <= l.max, NEW f, f = Rewound(l)
  PROVE  f \in Loops /\ f.n = l.n /\ f.max = l.max /\ f.count <= f.max
<1> DEFINE s == Again(l)
           c == IF l.kind = "goal" /\ l.streak # 1 /\ l.count > 0 THEN l.count - 1 ELSE l.count
<1>1. s \in Statuses /\ c \in Nat /\ c <= l.max /\ "none" \in Whys
  BY DEF Again, Loops, Statuses, Whys
<1>2. f = [l EXCEPT !.status = s, !.why = "none", !.count = c]
  BY Zenon DEF Rewound
<1> HIDE DEF s, c
<1> QED BY <1>1, <1>2 DEF Loops

\* A restart pauses what was interrupted and leaves the rest as it is.
LEMMA RestartedLoop ==
  ASSUME NEW l \in Loops, NEW how, NEW f, f = Restarted(l, how)
  PROVE  /\ SameLoop(l, f)
         /\ Interrupted(l, how) => f.status = "paused" /\ f.why = "session_end"
         /\ ~Interrupted(l, how) => f = l
<1>1. CASE ~Interrupted(l, how)
  BY <1>1 DEF Restarted, SameLoop
<1>2. CASE Interrupted(l, how)
  <2> DEFINE a == l.recovery \/ l.status = "running"
             b == l.retry \/ l.status = "running"
  <2>1. a \in BOOLEAN /\ b \in BOOLEAN /\ "session_end" \in Whys /\ "paused" \in Statuses
    BY DEF Whys, Statuses
  <2>2. f = [l EXCEPT !.status = "paused", !.why = "session_end", !.recovery = a, !.retry = b]
    BY <1>2, Zenon DEF Restarted, SessionEnd
  <2> HIDE DEF a, b
  <2> QED BY <1>2, <2>1, <2>2 DEF SameLoop, Loops
<1> QED BY <1>1, <1>2
-----------------------------------------------------------------------------
(***************************************************************************)
(* The runtime, the run and what the bound counts stay of their types.     *)
(***************************************************************************)
\* The values the actions write are of their types.
LEMMA Values ==
  /\ TRUE \in BOOLEAN /\ FALSE \in BOOLEAN
  /\ NoOutcome \in Outcomes /\ "no" \in Aborts /\ "abort" \in Aborts /\ 0 \in Nat
  /\ "none" \in Words /\ "goal" \in Kinds /\ "none" \in Whys
BY DEF Outcomes, Aborts, Words, Kinds, Whys

\* The small changes of a Runtime keep it one.
LEMMA RuntimeSteps ==
  ASSUME NEW r \in Runtimes
  PROVE  /\ Schedule(r) \in Runtimes /\ ClearPending(r) \in Runtimes
         /\ ClearTimer(r) \in Runtimes /\ Finally(r) \in Runtimes
         /\ Taken(r) \in Runtimes /\ Awaits(r) \in Runtimes
         /\ Kept(r) \in Runtimes
         /\ [r EXCEPT !.awaiting = FALSE] \in Runtimes
         /\ \A b \in BOOLEAN : [r EXCEPT !.pausedPending = b] \in Runtimes
<1>1. ClearPending(r) \in Runtimes
  BY Values DEF ClearPending, Runtimes
<1>2. /\ Schedule(r) \in Runtimes /\ ClearTimer(r) \in Runtimes /\ Finally(r) \in Runtimes
      /\ Taken(r) \in Runtimes /\ Awaits(r) \in Runtimes
  BY Values DEF Schedule, ClearTimer, Finally, Taken, Awaits, Runtimes
<1>3. /\ [r EXCEPT !.awaiting = FALSE] \in Runtimes
      /\ \A b \in BOOLEAN : [r EXCEPT !.pausedPending = b] \in Runtimes
  BY Values DEF Runtimes
<1>4. Kept(r) \in Runtimes
  BY <1>1 DEF Kept
<1> QED BY <1>1, <1>2, <1>3, <1>4

\* So do the larger ones, which are made of them.
LEMMA RuntimeMoves ==
  ASSUME NEW r \in Runtimes
  PROVE  /\ \A l : ScheduleIf(l, r) \in Runtimes
         /\ AfterPause(r) \in Runtimes /\ AfterRequeue(r) \in Runtimes
         /\ AfterRetry(r) \in Runtimes /\ AfterSend(r) \in Runtimes
<1>1. \A l : ScheduleIf(l, r) \in Runtimes
  BY RuntimeSteps DEF ScheduleIf
<1>2. AfterPause(r) \in Runtimes
  <2> DEFINE q == IF r.awaiting THEN r ELSE ClearPending(r)
             c == ClearTimer(q)
             a == r.awaiting
  <2>1. c \in Runtimes /\ a \in BOOLEAN
    <3>1. q \in Runtimes
      BY RuntimeSteps
    <3> HIDE DEF q
    <3> QED BY <3>1, RuntimeSteps DEF Runtimes
  <2>2. AfterPause(r) = [c EXCEPT !.pausedPending = a, !.awaiting = FALSE]
    BY Zenon DEF AfterPause
  <2> HIDE DEF c, a
  <2> QED BY <2>1, <2>2 DEF Runtimes
<1>3. AfterRequeue(r) \in Runtimes
  <2> DEFINE c == ClearTimer(ClearPending(r))
             d == [c EXCEPT !.awaiting = FALSE]
  <2>1. c \in Runtimes
    BY RuntimeSteps
  <2> HIDE DEF c
  <2>2. d \in Runtimes
    BY <2>1, RuntimeSteps
  <2> HIDE DEF d
  <2> QED BY <2>2, RuntimeSteps DEF AfterRequeue, c, d
<1>4. AfterRetry(r) \in Runtimes
  <2> DEFINE d == [r EXCEPT !.awaiting = FALSE]
  <2>1. d \in Runtimes
    BY RuntimeSteps
  <2> HIDE DEF d
  <2>2. ClearTimer(ClearPending(d)) \in Runtimes
    BY <2>1, RuntimeSteps
  <2> QED BY <2>2, RuntimeSteps DEF AfterRetry, d
<1>5. AfterSend(r) \in Runtimes
  <2> DEFINE c == ClearPending(r)
  <2>1. c \in Runtimes
    BY RuntimeSteps
  <2> HIDE DEF c
  <2> QED BY <2>1, Values DEF AfterSend, Runtimes, c
<1> QED BY <1>1, <1>2, <1>3, <1>4, <1>5

\* The Runtime after a late result.
LEMMA LateRuntime ==
  ASSUME NEW l \in Loops, NEW r \in Runtimes, NEW o, NEW bad \in 0 .. 2
  PROVE  ApplyLate(l, r, o, bad).rt \in Runtimes
<1> DEFINE m == [l EXCEPT !.recovery = FALSE]
           applied == ApplyResult(m, o)
           p == [r EXCEPT !.pausedPending = TRUE]
           a == AfterPause(Taken(r))
           b == ScheduleIf(applied, Taken(r))
<1>1. p \in Runtimes
  BY RuntimeSteps
<1>2. a \in Runtimes /\ b \in Runtimes /\ Taken(r) \in Runtimes
  BY RuntimeSteps, RuntimeMoves
<1>3. ApplyLate(l, r, o, bad).rt \in {r, p, Taken(r), a, b}
  <2> HIDE DEF p, a, b, applied
  <2> QED BY DEF ApplyLate, p, a, b, applied, m
<1> QED BY <1>1, <1>2, <1>3

\* An aborted run is a run.
LEMMA AbortedRun ==
  ASSUME run \in Runs, NEW why \in Aborts
  PROVE  AbortRun(why) \in Runs
BY DEF AbortRun, Runs

\* No run is a run.
LEMMA NoRunTyped == NoRun \in Runs
BY Values DEF NoRun, Runs

\* A run that begins is a run.
LEMMA BegunRun ==
  ASSUME sends \in Nat, NEW n \in Nat, NEW kind \in Kinds \cup {"none", "user"}
  PROVE  NewRun(n, kind) \in Runs
<1> DEFINE s == sends + 1
<1>1. s \in Nat
  OBVIOUS
<1> HIDE DEF s
<1> QED BY <1>1, NoRunTyped DEF NewRun, Runs, s

\* What the bound counts stays counted, and a failed write counts.
LEMMA Counted ==
  ASSUME spent \in Spent, NEW e \in Nat, NEW ok \in BOOLEAN, NEW lost \in BOOLEAN,
         Count(e, ok, lost)
  PROVE  spent' \in Spent /\ (~ok => spent'.fails > spent.fails)
<1> DEFINE x == spent.events + e
           f == IF ok THEN spent.fails ELSE spent.fails + 1
           b == spent.lost \/ lost
<1>1. x \in Nat /\ f \in Nat /\ b \in BOOLEAN /\ (~ok => f > spent.fails)
  BY DEF Spent
<1>2. spent' = [events |-> x, fails |-> f, lost |-> b]
  <2>1. spent' = [events |-> spent.events + e, lost |-> spent.lost \/ lost,
                  fails |-> IF ok THEN spent.fails ELSE spent.fails + 1]
    BY DEF Count
  <2> QED BY <2>1, Zenon
<1> HIDE DEF x, f, b
<1> QED BY <1>1, <1>2 DEF Spent
-----------------------------------------------------------------------------
(***************************************************************************)
(* Steps.  A step that is not a command leaves the file alone, or moves a  *)
(* loop that is not over; one the user paused comes to rest again, unless  *)
(* a write has failed.                                                     *)
(***************************************************************************)
Moves(f) ==
  /\ f \in Loops /\ f.count <= f.max
  /\ ~Terminal(loop)
  /\ loop.status = "paused" /\ loop.why = "user"
       => ~Ongoing(Hydrated(f)) \/ spent'.fails > spent.fails

Proceeds == file' = file \/ Moves(file')

\* What the invariant says of the loop as it is read.
LEMMA Now ==
  ASSUME IInv
  PROVE  /\ loop \in Loops /\ loop.n = file.n /\ loop.max = file.max /\ loop.count = file.count
         /\ loop.count <= loop.max
         /\ loop.status # "queued" => loop = file
         /\ rt \in Runtimes /\ run \in Runs
BY HydratedLoop DEF IInv, Typed, WithinBudget, loop, SameLoop

\* A step that changes neither the loop's budget nor its number may be taken on any
\* loop that is not over, if one the user paused stays at rest.
LEMMA MovesSame ==
  ASSUME IInv, NEW f, SameLoop(loop, f), ~Terminal(loop),
         loop.status = "paused" /\ loop.why = "user" => ~Ongoing(Hydrated(f))
  PROVE  Moves(f)
BY Now DEF Moves, SameLoop

\* A pause by the host, the clock or the scheduler.
LEMMA MovesPaused ==
  ASSUME IInv, Pausable(loop), NEW r, NEW why \in Whys,
         loop.status # "paused" \/ why \notin {"abort", "hang", "turn_timeout"}
  PROVE  Moves(Paused(loop, r, why))
<1> DEFINE f == Paused(loop, r, why)
<1>1. SameLoop(loop, f) /\ f.status = "paused" /\ f.why = why
  BY Now, PausedLoop
<1> HIDE DEF f
<1>2. loop.status = "paused" => ~Ongoing(Hydrated(f))
  BY <1>1, Resting DEF SameLoop
<1>3. ~Terminal(loop)
  BY DEF Pausable, Schedulable, Sendable, Terminal
<1>4. Moves(f)
  BY <1>1, <1>2, <1>3, MovesSame
<1> QED BY <1>4 DEF f

\* A turn that was paused without being asked for is queued again.
LEMMA MovesRequeued ==
  ASSUME IInv, AutoPaused(loop)
  PROVE  Moves(Requeued(loop))
<1>1. SameLoop(loop, Requeued(loop))
  BY Now, RequeuedLoop
<1> QED BY <1>1, MovesSame DEF AutoPaused, Terminal

\* A step that proceeds keeps the types, if the rest of the state keeps its own.
LEMMA Moving ==
  ASSUME IInv, Proceeds, rt' \in Runtimes, run' \in Runs,
         sends' \in Nat, preps' \in Nat, stale' \in Nat, spent' \in Spent
  PROVE  Typed' /\ Proceeds
BY DEF IInv, Typed, Proceeds, Moves

\* The pause at the limit of the budget.
LEMMA LimitMoves ==
  ASSUME IInv, AtLimit(loop), NEW r \in Runtimes, NEW ok \in BOOLEAN, PauseAtLimit(ok, r)
  PROVE  rt' \in Runtimes /\ spent' \in Spent /\ Proceeds
<1>1. spent' \in Spent
  BY Values, Counted DEF PauseAtLimit, Write, IInv, Typed
<1>2. CASE ok
  <2> DEFINE f == [loop EXCEPT !.status = "paused", !.why = "turn_limit"]
  <2>1. SameLoop(loop, f)
    BY Now DEF SameLoop, Loops, Statuses, Whys
  <2>2. ~Terminal(loop) /\ loop.status # "paused"
    BY DEF AtLimit, Terminal
  <2>3. file' = f /\ rt' = r
    BY <1>2 DEF PauseAtLimit
  <2> HIDE DEF f
  <2> QED BY <1>1, <2>1, <2>2, <2>3, MovesSame DEF Proceeds
<1>3. CASE ~ok
  BY <1>1, <1>3, RuntimeSteps DEF PauseAtLimit, Proceeds
<1> QED BY <1>2, <1>3

\* The timer.
LEMMA TickMoves ==
  ASSUME IInv, Tick
  PROVE  Typed' /\ Proceeds
<1> DEFINE r == [rt EXCEPT !.timer = FALSE]
<1>1. r \in Runtimes
  BY Now, Values DEF Runtimes
<1> HIDE DEF r
<1>2. UNCHANGED <<run, stale, sends>> /\ Typed
  BY DEF Tick, IInv
<1>3. CASE rt' = r /\ UNCHANGED <<file, preps, spent>>
  BY <1>1, <1>2, <1>3 DEF Typed, Proceeds
<1>4. CASE /\ Schedulable(loop) /\ AtLimit(loop)
           /\ \E ok \in BOOLEAN : PauseAtLimit(ok, r)
           /\ UNCHANGED preps
  <2>1. rt' \in Runtimes /\ spent' \in Spent /\ Proceeds
    BY <1>1, <1>4, LimitMoves
  <2> QED BY <1>2, <1>4, <2>1, Moving DEF Typed
<1>5. CASE rt' = [r EXCEPT !.inFlight = TRUE] /\ preps' = preps + 1 /\ UNCHANGED <<file, spent>>
  <2>1. rt' \in Runtimes
    BY <1>1, <1>5, Values DEF Runtimes
  <2>2. preps' \in Nat
    BY <1>2, <1>5 DEF Typed
  <2> QED BY <1>2, <1>5, <2>1, <2>2 DEF Typed, Proceeds
<1> QED BY <1>3, <1>4, <1>5 DEF Tick, r

\* A preparation that is put off, or ends unnoticed.
LEMMA DeclinedMoves ==
  ASSUME IInv, PrepareDeclined \/ StalePrepareEnds
  PROVE  Typed' /\ Proceeds
<1>1. Finally(rt) \in Runtimes
  BY Now, RuntimeSteps
<1>2. rt' \in Runtimes /\ UNCHANGED <<file, run, sends, spent>>
  <2>1. rt' = Schedule(Finally(rt)) \/ rt' = ScheduleIf(loop, Finally(rt)) \/ rt' = Finally(rt)
    BY DEF PrepareDeclined, StalePrepareEnds, Finally
  <2>2. UNCHANGED <<file, run, sends, spent>>
    BY DEF PrepareDeclined, StalePrepareEnds
  <2> QED BY <1>1, <2>1, <2>2, RuntimeSteps, RuntimeMoves
<1>3. preps' \in Nat /\ stale' \in Nat
  BY DEF PrepareDeclined, StalePrepareEnds, IInv, Typed
<1>4. Proceeds
  BY <1>2 DEF Proceeds
<1> QED BY <1>2, <1>3, <1>4, Moving DEF IInv, Typed

\* A preparation that throws pauses the loop, or leaves it as it is.
LEMMA PrepareThrowsMoves ==
  ASSUME IInv, NEW ok \in BOOLEAN, PrepareThrows(ok)
  PROVE  Typed' /\ Proceeds
<1> DEFINE r == [rt EXCEPT !.inFlight = FALSE]
<1>1. r \in Runtimes
  BY Now, RuntimeSteps DEF Finally
<1>2. UNCHANGED <<run, stale, sends>> /\ preps' \in Nat
  BY DEF PrepareThrows, IInv, Typed
<1>3. spent' \in Spent
  BY Values, Counted DEF PrepareThrows, Happens, IInv, Typed
<1>4. CASE Pausable(loop) /\ ok
  <2>1. file' = Paused(loop, r, "scheduler_error") /\ rt' = AfterPause(r)
    BY <1>4 DEF PrepareThrows
  <2>2. Moves(Paused(loop, r, "scheduler_error"))
    BY <1>4, MovesPaused DEF Whys
  <2>3. rt' \in Runtimes
    BY <1>1, <2>1, RuntimeMoves
  <2> QED BY <1>2, <1>3, <2>1, <2>2, <2>3, Moving DEF IInv, Typed, Proceeds
<1>5. CASE ~(Pausable(loop) /\ ok)
  BY <1>1, <1>2, <1>3, <1>5, Moving DEF PrepareThrows, IInv, Typed, Proceeds
<1> QED BY <1>4, <1>5

\* A turn that is sent or was about to be.
LEMMA DeliverMoves ==
  ASSUME IInv, Deliver \/ DeliverUnwritten
  PROVE  Typed' /\ Proceeds
<1>1. Finally(rt) \in Runtimes
  BY Now, RuntimeSteps
<1>2. CASE Deliver
  <2> DEFINE l == Sent(loop)
  <2>1. /\ Sendable(loop) /\ ~AtLimit(loop)
        /\ file' = l /\ rt' = AfterSend(Finally(rt)) /\ run' = NewRun(l.n, l.kind)
        /\ sends' = sends + 1 /\ preps' = preps - 1 /\ preps > 0 /\ UNCHANGED <<stale, spent>>
    BY <1>2 DEF Deliver, Ready
  <2>2. /\ l \in Loops /\ l.count <= l.max /\ l.status = "running"
    BY <2>1, Now, SentLoop
  <2> HIDE DEF l
  <2>3. l.n \in Nat /\ l.kind \in Kinds
    BY <2>2 DEF Loops
  <2>4. run' \in Runs
    BY <2>1, <2>3, BegunRun DEF IInv, Typed
  <2>5. Moves(file')
    BY <2>1, <2>2 DEF Moves, Sendable, Terminal
  <2>6. rt' \in Runtimes
    BY <1>1, <2>1, RuntimeMoves
  <2>7. sends' \in Nat /\ preps' \in Nat /\ stale' \in Nat /\ spent' \in Spent
    BY <2>1 DEF IInv, Typed
  <2> QED BY <2>4, <2>5, <2>6, <2>7, Moving DEF Proceeds
<1>3. CASE DeliverUnwritten
  <2>1. spent' \in Spent
    BY <1>3, Values, Counted DEF DeliverUnwritten, Write, IInv, Typed
  <2>2. rt' \in Runtimes
    BY <1>1, <1>3, RuntimeSteps DEF DeliverUnwritten
  <2>3. preps' \in Nat /\ UNCHANGED <<file, run, stale, sends>>
    BY <1>3 DEF DeliverUnwritten, Ready, IInv, Typed
  <2> QED BY <2>1, <2>2, <2>3, Moving DEF IInv, Typed, Proceeds
<1> QED BY <1>2, <1>3

\* A prompt that may or may not have been sent.
LEMMA DeliverThrowsMoves ==
  ASSUME IInv, NEW taken \in BOOLEAN, NEW ok \in BOOLEAN, DeliverThrows(taken, ok)
  PROVE  Typed' /\ Proceeds
<1> DEFINE l == Sent(loop)
           r == ClearTimer(AfterSend(Finally(rt)))
           p == Paused(l, r, "unknown_delivery")
<1>1. r \in Runtimes /\ AfterPause(r) \in Runtimes
  <2>1. AfterSend(Finally(rt)) \in Runtimes
    BY Now, RuntimeSteps, RuntimeMoves
  <2>2. r \in Runtimes
    BY <2>1, RuntimeSteps
  <2> QED BY <2>2, RuntimeMoves
<1>2. /\ Sendable(loop) /\ ~AtLimit(loop)
      /\ file' = (IF ok THEN p ELSE l)
      /\ rt' = (IF ok THEN AfterPause(r) ELSE r)
      /\ preps > 0 /\ preps' = preps - 1 /\ UNCHANGED stale
      /\ \/ run' = NewRun(l.n, l.kind) /\ sends' = sends + 1
         \/ UNCHANGED <<run, sends>>
  BY DEF DeliverThrows, Ready
<1>3. spent' \in Spent
  <2>1. Count(1, ok, ~taken) /\ (~taken) \in BOOLEAN
    BY DEF DeliverThrows
  <2> QED BY <2>1, Counted DEF IInv, Typed
<1> HIDE DEF r
<1>4. /\ l \in Loops /\ l.count <= l.max
  BY <1>2, Now, SentLoop
<1> HIDE DEF l
<1>5. SameLoop(l, p)
  BY <1>4, PausedLoop DEF Whys
<1> HIDE DEF p
<1>6. l.n \in Nat /\ l.kind \in Kinds
  BY <1>4 DEF Loops
<1>7. run' \in Runs /\ sends' \in Nat
  BY <1>2, <1>6, BegunRun DEF IInv, Typed
<1>8. Moves(file')
  BY <1>2, <1>4, <1>5 DEF Moves, Sendable, Terminal, SameLoop
<1>9. rt' \in Runtimes /\ preps' \in Nat /\ stale' \in Nat
  BY <1>1, <1>2 DEF IInv, Typed
<1> QED BY <1>3, <1>7, <1>8, <1>9, Moving DEF Proceeds

\* A preparation that comes too late.
LEMMA AbandonMoves ==
  ASSUME IInv, Abandon
  PROVE  Typed' /\ Proceeds
<1>1. Finally(rt) \in Runtimes
  BY Now, RuntimeSteps
<1>2. UNCHANGED <<run, stale, sends>> /\ preps' \in Nat
  BY DEF Abandon, IInv, Typed
<1>3. CASE UNCHANGED <<file, spent>> /\ (rt' = Finally(rt) \/ rt' = Schedule(Finally(rt)))
  <2>1. rt' \in Runtimes
    BY <1>1, <1>3, RuntimeSteps
  <2> QED BY <1>2, <1>3, <2>1, Moving DEF IInv, Typed, Proceeds
<1>4. CASE AtLimit(loop) /\ \E ok \in BOOLEAN : PauseAtLimit(ok, Finally(rt))
  <2>1. rt' \in Runtimes /\ spent' \in Spent /\ Proceeds
    BY <1>1, <1>4, LimitMoves
  <2> QED BY <1>2, <2>1, Moving DEF IInv, Typed
<1> QED BY <1>3, <1>4 DEF Abandon

\* A result that comes late moves the loop, but for a file that cannot be written.
LEMMA LateMoves ==
  ASSUME IInv, ~Terminal(loop), NEW r, NEW o, NEW bad \in 0 .. 2,
         bad # 0 => spent'.fails > spent.fails
  PROVE  Moves(ApplyLate(loop, r, o, bad).file)
<1> DEFINE late == ApplyLate(loop, r, o, bad)
<1>1. /\ SameLoop(loop, late.file)
      /\ loop.status = "paused" /\ loop.why = "user"
           => bad # 0 \/ ~Ongoing(Hydrated(late.file))
  BY Now, LateApplied
<1> HIDE DEF late
<1>2. Moves(late.file)
  BY <1>1, Now DEF Moves, SameLoop
<1> QED BY <1>2 DEF late

\* The watchdog, which never takes up a loop the user paused.
LEMMA WatchdogMoves ==
  ASSUME IInv, NEW ok \in BOOLEAN, Watchdog(ok)
  PROVE  Typed' /\ Proceeds
<1>1. UNCHANGED <<run, preps, stale, sends>>
  BY DEF Watchdog
<1>2. CASE /\ AutoPaused(loop) /\ Write(ok)
           /\ \/ \E o : LET late == ApplyLate(loop, rt, o, IF ok THEN 0 ELSE 1)
                       IN /\ file' = late.file
                          /\ rt' = IF late.done THEN ClearPending(late.rt) ELSE late.rt
              \/ file' = Requeued(loop) /\ rt' = AfterRequeue(rt)
              \/ UNCHANGED <<file, rt>>
  <2> DEFINE bad == IF ok THEN 0 ELSE 1
  <2>1. bad \in 0 .. 2 /\ spent' \in Spent /\ (bad # 0 => spent'.fails > spent.fails)
    <3>1. Count(0, ok, FALSE)
      BY <1>2 DEF Write
    <3>2. spent' \in Spent /\ (~ok => spent'.fails > spent.fails)
      BY <3>1, Values, Counted DEF IInv, Typed
    <3> QED BY <3>2
  <2> HIDE DEF bad
  <2>2. ~Terminal(loop)
    BY <1>2 DEF AutoPaused, Terminal
  <2>4. CASE \E o : LET late == ApplyLate(loop, rt, o, bad)
                    IN /\ file' = late.file
                       /\ rt' = IF late.done THEN ClearPending(late.rt) ELSE late.rt
    <3>1. PICK o : LET late == ApplyLate(loop, rt, o, bad)
                   IN /\ file' = late.file
                      /\ rt' = IF late.done THEN ClearPending(late.rt) ELSE late.rt
      BY <2>4
    <3>2. Moves(file')
      BY <2>1, <2>2, <3>1, LateMoves
    <3>3. ApplyLate(loop, rt, o, bad).rt \in Runtimes
      BY <2>1, Now, LateRuntime
    <3>4. rt' \in Runtimes
      <4> DEFINE late == ApplyLate(loop, rt, o, bad)
      <4>1. late.rt \in Runtimes /\ rt' = IF late.done THEN ClearPending(late.rt) ELSE late.rt
        BY <3>1, <3>3
      <4> HIDE DEF late
      <4> QED BY <4>1, RuntimeSteps
    <3> QED BY <1>1, <2>1, <3>2, <3>4, Moving DEF IInv, Typed, Proceeds
  <2>5. CASE file' = Requeued(loop) /\ rt' = AfterRequeue(rt)
    BY <1>1, <1>2, <2>1, <2>5, Now, RuntimeMoves, MovesRequeued, Moving DEF IInv, Typed, Proceeds
  <2>6. CASE UNCHANGED <<file, rt>>
    BY <1>1, <2>1, <2>6, Moving DEF IInv, Typed, Proceeds
  <2> QED BY <1>2, <2>4, <2>5, <2>6 DEF bad
<1>3. CASE loop.status = "running" /\ Write(ok) /\ ((file' = [loop EXCEPT !.status = Again(loop)] /\ rt' = Schedule(rt)) \/ UNCHANGED <<file, rt>>)
  <2>1. spent' \in Spent
    BY <1>3, Values, Counted DEF Write, IInv, Typed
  <2>2. CASE UNCHANGED <<file, rt>>
    BY <1>1, <2>1, <2>2, Moving DEF IInv, Typed, Proceeds
  <2>3. CASE file' = [loop EXCEPT !.status = Again(loop)] /\ rt' = Schedule(rt)
    <3> DEFINE a == Again(loop)
    <3>1. a \in Statuses
      BY DEF Again, Statuses
    <3>2. file' = [loop EXCEPT !.status = a]
      BY <2>3
    <3> HIDE DEF a
    <3>3. SameLoop(loop, file')
      BY <3>1, <3>2, Now DEF SameLoop, Loops
    <3>4. Moves(file')
      BY <1>3, <3>3, MovesSame DEF Terminal
    <3> QED BY <1>1, <2>1, <2>3, <3>4, Now, RuntimeSteps, Moving DEF IInv, Typed, Proceeds
  <2> QED BY <1>3, <2>2, <2>3
<1>4. CASE Sendable(loop) /\ rt' = Schedule(rt) /\ UNCHANGED <<file, spent>>
  BY <1>1, <1>4, Now, RuntimeSteps, Moving DEF IInv, Typed, Proceeds
<1> QED BY <1>2, <1>3, <1>4 DEF Watchdog

\* What the bound counts after an action that writes, or fails to.
LEMMA Written ==
  ASSUME IInv
  PROVE  /\ \A ok \in BOOLEAN :
              Write(ok) \/ Happens(ok) => spent' \in Spent /\ (~ok => spent'.fails > spent.fails)
         /\ \A bad \in 0 .. 2 :
              Write(bad = 0) => spent' \in Spent /\ (bad # 0 => spent'.fails > spent.fails)
<1>1. spent \in Spent
  BY DEF IInv, Typed
<1>2. ASSUME NEW ok \in BOOLEAN, Write(ok) \/ Happens(ok)
      PROVE  spent' \in Spent /\ (~ok => spent'.fails > spent.fails)
  BY <1>1, <1>2, Values, Counted DEF Write, Happens
<1>3. ASSUME NEW bad \in 0 .. 2, Write(bad = 0)
      PROVE  spent' \in Spent /\ (bad # 0 => spent'.fails > spent.fails)
  <2> DEFINE ok == bad = 0
  <2>1. Write(ok) /\ ok \in BOOLEAN /\ (bad # 0 => ~ok)
    BY <1>3
  <2> HIDE DEF ok
  <2> QED BY <1>2, <2>1
<1> QED BY <1>2, <1>3

\* The clock of a turn, and a compaction that is over.
LEMMA TimeoutMoves ==
  ASSUME IInv, NEW ok \in BOOLEAN, TurnTimeout(ok) \/ Compacted(ok)
  PROVE  Typed' /\ Proceeds
<1>1. UNCHANGED <<preps, stale, sends>> /\ spent' \in Spent
  BY Written DEF TurnTimeout, Compacted
<1>2. CASE TurnTimeout(ok) /\ ok
  <2>1. loop.status = "running" /\ Pausable(loop)
    BY <1>2 DEF TurnTimeout, Pausable, Schedulable
  <2>2. Moves(Paused(loop, rt, "turn_timeout"))
    BY <2>1, MovesPaused DEF Whys
  <2>3. run' \in Runs
    BY <1>2, Now, Values, AbortedRun DEF TurnTimeout
  <2>4. rt' \in Runtimes
    BY <1>2, Now, RuntimeMoves DEF TurnTimeout
  <2>5. file' = Paused(loop, rt, "turn_timeout")
    BY <1>2 DEF TurnTimeout
  <2> QED BY <1>1, <2>2, <2>3, <2>4, <2>5, Moving DEF IInv, Typed, Proceeds
<1>3. CASE Compacted(ok) /\ ok
  <2>1. Moves(Requeued(loop))
    BY <1>3, MovesRequeued DEF Compacted
  <2>2. rt' \in Runtimes
    BY <1>3, Now, RuntimeMoves DEF Compacted
  <2>3. file' = Requeued(loop) /\ UNCHANGED run
    BY <1>3 DEF Compacted
  <2> QED BY <1>1, <2>1, <2>2, <2>3, Moving DEF IInv, Typed, Proceeds
<1>4. CASE UNCHANGED <<file, rt, run>>
  BY <1>1, <1>4, Moving DEF IInv, Typed, Proceeds
<1> QED BY <1>2, <1>3, <1>4 DEF TurnTimeout, Compacted
-----------------------------------------------------------------------------
\* The last message of a run, and its end.
LEMMA TurnEndMoves ==
  ASSUME IInv, NEW res \in Words, NEW bad \in 0 .. 2, TurnEnd(res, bad),
         spent' \in Spent, bad # 0 => spent'.fails > spent.fails
  PROVE  Typed' /\ Proceeds
<1> DEFINE o == [Outcome EXCEPT !.res = res]
           late == ApplyLate(loop, rt, o, bad)
<1>1. UNCHANGED <<preps, stale, sends>> /\ run' = [run EXCEPT !.phase = "turned", !.res = res]
  BY DEF TurnEnd
<1>2. run' \in Runs
  BY <1>1, Now DEF Runs
<1>3. CASE /\ loop.status = "paused" \/ InterruptedRecovery(loop)
           /\ file' = late.file /\ rt' = late.rt
  <2>1. ~Terminal(loop)
    BY <1>3 DEF InterruptedRecovery, Sendable, Terminal
  <2> HIDE DEF o
  <2>2. Moves(late.file)
    BY <2>1, LateMoves
  <2>3. late.rt \in Runtimes
    BY Now, LateRuntime
  <2> HIDE DEF late
  <2> QED BY <1>1, <1>2, <1>3, <2>2, <2>3, Moving DEF IInv, Typed, Proceeds
<1>4. CASE UNCHANGED <<file, rt>>
  BY <1>1, <1>2, <1>4, Moving DEF IInv, Typed, Proceeds
<1> HIDE DEF o, late
<1> QED BY <1>3, <1>4 DEF TurnEnd, o, late

\* The end of a run, good or bad; a write that fails is counted.
LEMMA RunEndMoves ==
  ASSUME IInv
  PROVE  /\ RunEnds => Typed' /\ Proceeds
         /\ \A res \in Errors \cup {"missing"} : EndsBadly(res) => Typed' /\ Proceeds
<1>1. ASSUME NEW res \in Results \cup {"missing"}, NEW bad \in 0 .. 2, Ends(res, bad)
      PROVE  Typed' /\ Proceeds
  <2>1. TurnEnd(res, bad) /\ spent' \in Spent /\ (bad # 0 => spent'.fails > spent.fails)
    BY <1>1, Written DEF Ends
  <2> QED BY <2>1, TurnEndMoves DEF Words
<1>2. ASSUME NEW res \in Errors \cup {"missing"}, EndsBadly(res)
      PROVE  Typed' /\ Proceeds
  <2>1. TurnEnd(res, 0) /\ spent' \in Spent
    BY <1>2, Written DEF EndsBadly
  <2>2. res \in Words /\ 0 \in 0 .. 2
    BY DEF Words
  <2> QED BY <2>1, <2>2, TurnEndMoves
<1> QED BY <1>1, <1>2 DEF RunEnds

\* agent_end notes the outcome and leaves the loop alone.
LEMMA AgentEndMoves ==
  ASSUME IInv, AgentEnd
  PROVE  Typed' /\ Proceeds
<1>1. UNCHANGED <<file, preps, stale, sends, spent>> /\ run' = [run EXCEPT !.phase = "ended"]
  BY DEF AgentEnd
<1>2. run' \in Runs
  BY <1>1, Now DEF Runs
<1>3. rt' \in Runtimes
  <2>1. Outcome \in Outcomes /\ run.aborted \in Aborts
    BY Now DEF Outcome, Outcomes, Runs
  <2> DEFINE o == Outcome
             a == run.aborted
  <2>2. rt' = rt \/ rt' = [rt EXCEPT !.pending = o, !.aborted = a]
    BY DEF AgentEnd
  <2>3. o \in Outcomes /\ a \in Aborts
    BY <2>1
  <2> HIDE DEF o, a
  <2> QED BY <2>2, <2>3, Now DEF Runtimes
<1> QED BY <1>1, <1>2, <1>3, Moving DEF IInv, Typed, Proceeds
-----------------------------------------------------------------------------
(***************************************************************************)
(* agent_settled, branch by branch.                                        *)
(***************************************************************************)
Settled == file' \in Loops /\ rt' \in Runtimes /\ spent' \in Spent /\ Proceeds

\* Settlements that find nothing to settle.
LEMMA SettleQuietly ==
  ASSUME IInv, SettleUnused \/ SettleDiscarded \/ SettleIdle
  PROVE  Settled
<1>1. UNCHANGED <<file, spent>>
  BY DEF SettleUnused, SettleDiscarded, SettleIdle
<1> DEFINE c == ClearPending(rt)
           d == [c EXCEPT !.discard = FALSE]
<1>2. c \in Runtimes
  BY Now, RuntimeSteps
<1>3. CASE SettleUnused
  <2>1. rt' = c \/ rt' = [c EXCEPT !.discard = FALSE, !.awaiting = FALSE, !.pausedPending = FALSE]
    BY <1>3 DEF SettleUnused
  <2> HIDE DEF c
  <2>2. rt' \in Runtimes
    BY <1>2, <2>1 DEF Runtimes
  <2> QED BY <1>1, <2>2 DEF Settled, IInv, Typed, Proceeds
<1>4. CASE SettleDiscarded
  <2>1. d \in Runtimes
    <3> HIDE DEF c
    <3> QED BY <1>2 DEF Runtimes
  <2>2. rt' = d \/ rt' = ScheduleIf(loop, d)
    BY <1>4 DEF SettleDiscarded
  <2> HIDE DEF d
  <2>3. rt' \in Runtimes
    BY <2>1, <2>2, RuntimeMoves
  <2> QED BY <1>1, <2>3 DEF Settled, IInv, Typed, Proceeds
<1>5. CASE SettleIdle
  <2>1. ClearPending(Awaits(rt)) \in Runtimes /\ ScheduleIf(loop, c) \in Runtimes
    BY <1>2, Now, RuntimeSteps, RuntimeMoves
  <2> QED BY <1>1, <1>5, <2>1 DEF Settled, SettleIdle, IInv, Typed, Proceeds
<1> QED BY <1>3, <1>4, <1>5

\* The runtime after a late result.
LEMMA LateCleared ==
  ASSUME NEW l \in Loops, NEW r \in Runtimes, NEW o, NEW bad \in 0 .. 2, NEW late,
         late = ApplyLate(l, r, o, bad),
         rt' = IF late.done THEN ClearPending(late.rt) ELSE late.rt
  PROVE  rt' \in Runtimes
BY LateRuntime, RuntimeSteps

\* The settlement of a paused turn.
LEMMA SettlePausedMoves ==
  ASSUME IInv, NEW bad \in 0 .. 2, SettlePaused(bad)
  PROVE  Settled
<1> DEFINE late == ApplyLate(loop, rt, rt.pending, bad)
<1>1. /\ spent' \in Spent /\ (bad # 0 => spent'.fails > spent.fails)
      /\ loop.status = "paused" /\ ~Terminal(loop)
  BY Written DEF SettlePaused, Terminal
<1>2. CASE file' = late.file /\ rt' = IF late.done THEN ClearPending(late.rt) ELSE late.rt
  <2>1. Moves(late.file)
    BY <1>1, LateMoves
  <2>2. rt' \in Runtimes
    <3> HIDE DEF late
    <3> QED BY <1>2, Now, LateCleared DEF late
  <2> QED BY <1>1, <1>2, <2>1, <2>2 DEF Settled, Proceeds, Moves
<1>3. CASE AutoPaused(loop) /\ file' = Requeued(loop) /\ rt' = AfterRequeue(rt)
  <2>1. Moves(Requeued(loop)) /\ rt' \in Runtimes
    BY <1>3, Now, MovesRequeued, RuntimeMoves
  <2> QED BY <1>1, <1>3, <2>1 DEF Settled, Proceeds, Moves
<1>4. CASE rt' = ClearPending(rt) /\ UNCHANGED file
  BY <1>1, <1>4, Now, RuntimeSteps DEF Settled, IInv, Typed, Proceeds
<1> QED BY <1>2, <1>3, <1>4 DEF SettlePaused

\* The settlement of a turn that was aborted while it ran.
LEMMA SettleAbortedMoves ==
  ASSUME IInv, NEW bad \in 0 .. 2, SettleAborted(bad)
  PROVE  Settled
<1> DEFINE p == Paused(loop, rt, rt.aborted)
           r == AfterPause(rt)
           b == IF bad = 2 THEN 1 ELSE 0
           late == ApplyLate(p, r, rt.pending, b)
<1>1. spent' \in Spent /\ loop.status = "running" /\ ~Terminal(loop) /\ b \in 0 .. 2
  BY Written DEF SettleAborted, Awaited, Terminal
<1>2. SameLoop(loop, p)
  <2>1. rt.aborted \in Whys
    BY Now DEF SettleAborted, Runtimes, Aborts, Whys
  <2> QED BY <2>1, Now, PausedLoop
<1>3. r \in Runtimes
  BY Now, RuntimeMoves
<1> HIDE DEF r, b
<1>4. CASE UNCHANGED <<file, rt>>
  BY <1>1, <1>4 DEF Settled, IInv, Typed, Proceeds
<1>5. CASE file' = late.file /\ rt' = IF late.done THEN ClearPending(late.rt) ELSE late.rt
  <2>1. p \in Loops
    BY <1>2 DEF SameLoop
  <2> HIDE DEF p
  <2>2. SameLoop(p, late.file)
    BY <1>1, <2>1, LateApplied
  <2>3. rt' \in Runtimes
    <3> HIDE DEF late
    <3> QED BY <1>1, <1>3, <1>5, <2>1, LateCleared DEF late
  <2> HIDE DEF late
  <2>4. Moves(file')
    BY <1>1, <1>2, <1>5, <2>2, Now DEF Moves, SameLoop
  <2> QED BY <1>1, <2>3, <2>4 DEF Settled, Proceeds, Moves
<1>6. CASE /\ file' = p \/ file' = Requeued(p)
           /\ rt' = ClearPending(r) \/ rt' = AfterRequeue(r)
  <2>1. p \in Loops
    BY <1>2 DEF SameLoop
  <2> HIDE DEF p
  <2>2. SameLoop(p, Requeued(p))
    BY <2>1, RequeuedLoop
  <2>3. Moves(file')
    BY <1>1, <1>2, <1>6, <2>2, Now DEF Moves, SameLoop
  <2>4. rt' \in Runtimes
    BY <1>3, <1>6, Now, RuntimeSteps, RuntimeMoves
  <2> QED BY <1>1, <2>3, <2>4 DEF Settled, Proceeds, Moves
<1>7. \/ UNCHANGED <<file, rt>>
      \/ file' = late.file /\ rt' = IF late.done THEN ClearPending(late.rt) ELSE late.rt
      \/ /\ file' = p \/ file' = Requeued(p)
         /\ rt' = ClearPending(r) \/ rt' = AfterRequeue(r)
  <2>1. CASE bad = 1
    BY <2>1 DEF SettleAborted
  <2>2. CASE bad # 1 /\ IsResult(rt.pending)
    <3>1. LET m == ApplyLate(p, r, rt.pending, b)
          IN file' = m.file /\ rt' = IF m.done THEN ClearPending(m.rt) ELSE m.rt
      <4> HIDE DEF late
      <4> QED BY <2>2, Zenon DEF SettleAborted, p, r, b
    <3> QED BY <3>1 DEF late
  <2>3. CASE bad # 1 /\ ~IsResult(rt.pending)
    <3>1. /\ file' = IF bad = 2 THEN p ELSE Requeued(p)
          /\ rt' = IF bad = 2 THEN ClearPending(r) ELSE AfterRequeue(r)
      BY <2>3 DEF SettleAborted, r
    <3> HIDE DEF p
    <3> QED BY <3>1
  <2> QED BY <2>1, <2>2, <2>3
<1> QED BY <1>4, <1>5, <1>6, <1>7

\* A turn tried again: the status it is sent from, and its number given back.
LEMMA SettleTransportMoves ==
  ASSUME IInv, NEW ok \in BOOLEAN, SettleTransport(ok)
  PROVE  Settled
<1>1. /\ spent' \in Spent /\ loop.status = "running" /\ ~Terminal(loop) /\ Pausable(loop)
  BY Written DEF SettleTransport, Settling, Awaited, Terminal, Pausable, Schedulable
<1>2. CASE UNCHANGED file /\ (UNCHANGED rt \/ rt' = ClearPending(rt))
  BY <1>1, <1>2, Now, RuntimeSteps DEF Settled, IInv, Typed, Proceeds
<1>3. CASE /\ file' = Paused(loop, rt, "scheduler_error")
           /\ rt' = ClearPending(AfterPause(rt))
  <2>1. Moves(Paused(loop, rt, "scheduler_error"))
    BY <1>1, MovesPaused DEF Whys
  <2>2. rt' \in Runtimes
    BY <1>3, Now, RuntimeSteps, RuntimeMoves
  <2> QED BY <1>1, <1>3, <2>1, <2>2 DEF Settled, Proceeds, Moves
<1>4. CASE /\ file' = [loop EXCEPT !.status = Again(loop), !.retry = TRUE, !.why = "none"]
           /\ rt' = AfterRetry([rt EXCEPT !.transport = @ + 1])
  <2> DEFINE s == Again(loop)
             n == rt.transport + 1
             q == [rt EXCEPT !.transport = n]
  <2>1. s \in Statuses /\ "none" \in Whys /\ n \in Nat
    BY Now DEF Again, Statuses, Whys, Runtimes
  <2>2. /\ file' = [loop EXCEPT !.status = s, !.retry = TRUE, !.why = "none"]
        /\ rt' = AfterRetry(q)
    BY <1>4, Zenon
  <2> HIDE DEF s, n
  <2>3. SameLoop(loop, file')
    BY <2>1, <2>2, Now DEF SameLoop, Loops
  <2>4. q \in Runtimes
    BY <2>1, Now DEF Runtimes
  <2> HIDE DEF q
  <2>5. rt' \in Runtimes
    BY <2>2, <2>4, RuntimeMoves
  <2>6. Moves(file')
    BY <1>1, <2>3, MovesSame
  <2> QED BY <1>1, <2>5, <2>6 DEF Settled, Proceeds, Moves
<1> QED BY <1>2, <1>3, <1>4 DEF SettleTransport

\* A refused turn is given back.
LEMMA RewoundMoves ==
  ASSUME IInv, loop.status = "running"
  PROVE  Moves(Rewound(loop)) /\ AfterRetry(rt) \in Runtimes
<1>1. AfterRetry(rt) \in Runtimes
  BY Now, RuntimeMoves
<1> DEFINE f == Rewound(loop)
<1>2. f \in Loops /\ f.count <= f.max
  BY Now, RewoundLoop
<1> HIDE DEF f
<1>3. Moves(f)
  BY <1>2 DEF Moves, Terminal
<1> QED BY <1>1, <1>3 DEF f

\* A provider that is overloaded.
LEMMA SettleOverloadMoves ==
  ASSUME IInv, NEW ok \in BOOLEAN, SettleOverload(ok)
  PROVE  Settled
<1>1. spent' \in Spent /\ loop.status = "running"
  BY Written DEF SettleOverload, Settling, Awaited
<1>2. CASE file' = Rewound(loop) /\ rt' = AfterRetry(rt)
  BY <1>1, <1>2, RewoundMoves DEF Settled, Proceeds, Moves
<1>3. CASE UNCHANGED <<file, rt>>
  BY <1>1, <1>3 DEF Settled, IInv, Typed, Proceeds
<1> QED BY <1>2, <1>3 DEF SettleOverload

\* A result, or a reply without one.
LEMMA SettleResultMoves ==
  ASSUME IInv, NEW ok \in BOOLEAN, SettleResult(ok)
  PROVE  Settled
<1> DEFINE o == rt.pending
           l == IF IsResult(o) THEN ApplyResult(loop, o) ELSE ApplyMissing(loop)
           a == Awaits(rt)
           q == [a EXCEPT !.transport = 0]
<1>1. spent' \in Spent /\ loop.status = "running" /\ ~Terminal(loop)
  BY Written DEF SettleResult, Settling, Awaited, Terminal
<1>2. \/ file' = l /\ rt' = ScheduleIf(l, ClearPending(q))
      \/ rt' = [rt EXCEPT !.transport = 0] /\ UNCHANGED file
  <2> HIDE DEF l, q
  <2> QED BY DEF SettleResult, l, q, a, o
<1>3. SameLoop(loop, l)
  BY Now, ResultApplied, MissingApplied
<1> HIDE DEF l
<1>4. rt' \in Runtimes
  <2>1. a \in Runtimes
    BY Now, RuntimeSteps
  <2> HIDE DEF a
  <2>2. q \in Runtimes
    BY <2>1, Values DEF Runtimes
  <2> HIDE DEF q
  <2>3. ScheduleIf(l, ClearPending(q)) \in Runtimes
    BY <2>2, RuntimeSteps, RuntimeMoves
  <2>4. [rt EXCEPT !.transport = 0] \in Runtimes
    BY Now, Values DEF Runtimes
  <2> QED BY <1>2, <2>3, <2>4
<1>5. Moves(l)
  BY <1>1, <1>3, MovesSame
<1> QED BY <1>1, <1>2, <1>4, <1>5 DEF Settled, Proceeds, Moves, IInv, Typed

\* agent_settled as a whole.
LEMMA SettledMoves ==
  ASSUME IInv, AgentSettled
  PROVE  Typed' /\ Proceeds
<1>1. Settled
  <2>1. ASSUME NEW bad \in 0 .. 2, SettlePaused(bad) \/ SettleAborted(bad)
        PROVE  Settled
    BY <2>1, SettlePausedMoves, SettleAbortedMoves
  <2>2. ASSUME NEW ok \in BOOLEAN, SettleTransport(ok) \/ SettleOverload(ok) \/ SettleResult(ok)
        PROVE  Settled
    BY <2>2, SettleTransportMoves, SettleOverloadMoves, SettleResultMoves
  <2> QED BY <2>1, <2>2, SettleQuietly DEF AgentSettled
<1>2. UNCHANGED <<preps, stale, sends>> /\ run' = [run EXCEPT !.phase = "closing"]
  BY DEF AgentSettled
<1>3. run' \in Runs
  BY <1>2, Now DEF Runs
<1> QED BY <1>1, <1>2, <1>3, Moving DEF Settled, IInv, Typed

\* The host's answer about a provider limit.
LEMMA LimitMovesOn ==
  ASSUME IInv, NEW route \in BOOLEAN, NEW ok \in BOOLEAN, LimitAnswered(route, ok)
  PROVE  Typed' /\ Proceeds
<1>1. UNCHANGED <<preps, stale, sends>> /\ spent' \in Spent
  BY Written DEF LimitAnswered
<1>2. run' \in Runs
  <2>1. run' = [run EXCEPT !.phase = "closing"]
    BY DEF LimitAnswered
  <2> QED BY <2>1, Now DEF Runs
<1>3. CASE UNCHANGED file /\ (rt' = Kept(rt) \/ rt' = rt \/ rt' = ClearPending(rt))
  <2>1. rt' \in Runtimes
    BY <1>3, Now, RuntimeSteps
  <2> QED BY <1>1, <1>2, <1>3, <2>1, Moving DEF IInv, Typed, Proceeds
<1>4. CASE loop.status = "running" /\ file' = Rewound(loop) /\ rt' = AfterRetry(rt)
  BY <1>1, <1>2, <1>4, RewoundMoves, Moving DEF IInv, Typed, Proceeds
<1>5. CASE /\ Pausable(loop) /\ file' = Paused(loop, rt, "scheduler_error")
           /\ rt' = ClearPending(AfterPause(rt))
  <2>1. Moves(Paused(loop, rt, "scheduler_error"))
    BY <1>5, MovesPaused DEF Whys
  <2>2. rt' \in Runtimes
    BY <1>5, Now, RuntimeSteps, RuntimeMoves
  <2> QED BY <1>1, <1>2, <1>5, <2>1, <2>2, Moving DEF IInv, Typed, Proceeds
<1> QED BY <1>3, <1>4, <1>5 DEF LimitAnswered

\* Steps of the host and of the user that leave the file alone.
LEMMA QuietMoves ==
  ASSUME IInv, LimitAsked \/ RunCloses \/ UserTurn \/ \E why \in {"abort", "hang"} : HostAborts(why)
  PROVE  Typed' /\ Proceeds
<1>1. UNCHANGED <<file, rt, preps, stale>>
  BY DEF LimitAsked, RunCloses, UserTurn, HostAborts
<1>2. CASE LimitAsked \/ RunCloses
  <2>1. run' = [run EXCEPT !.phase = "settling"] \/ run' = NoRun
    BY <1>2 DEF LimitAsked, RunCloses
  <2>2. run' \in Runs
    BY <2>1, Now, NoRunTyped DEF Runs
  <2>3. UNCHANGED <<sends, spent>>
    BY <1>2 DEF LimitAsked, RunCloses
  <2> QED BY <1>1, <2>2, <2>3, Moving DEF IInv, Typed, Proceeds
<1>3. CASE UserTurn
  <2>1. run' \in Runs
    BY <1>3, BegunRun, Values DEF UserTurn, IInv, Typed
  <2>2. sends' \in Nat
    BY <1>3 DEF UserTurn, IInv, Typed
  <2>3. spent' \in Spent
    BY <1>3, Written DEF UserTurn
  <2> QED BY <1>1, <2>1, <2>2, <2>3, Moving DEF IInv, Typed, Proceeds
<1>4. ASSUME NEW why \in {"abort", "hang"}, HostAborts(why)
      PROVE  Typed' /\ Proceeds
  <2>1. run' \in Runs
    BY <1>4, Now, AbortedRun DEF HostAborts, Aborts
  <2>2. UNCHANGED sends /\ spent' \in Spent
    BY <1>4, Written DEF HostAborts
  <2> QED BY <1>1, <2>1, <2>2, Moving DEF IInv, Typed, Proceeds
<1> QED BY <1>2, <1>3, <1>4

\* A new Runtime is one.
LEMMA NewRuntimeTyped == NewRuntime \in Runtimes
BY Values DEF NewRuntime, Runtimes

\* So is the one a restart makes.
LEMMA NextRuntimeTyped ==
  ASSUME rt \in Runtimes, NEW l \in Loops, NEW how
  PROVE  NextRuntime(l, how) \in Runtimes
<1> DEFINE b == how = "crash" /\ Interrupted(l, how) /\ Restarted(l, how).recovery
           r == [NewRuntime EXCEPT !.pausedPending = b]
           q == [r EXCEPT !.pausedPending = rt.pausedPending, !.pending = rt.pending,
                          !.aborted = rt.aborted, !.discard = rt.discard,
                          !.transport = rt.transport]
<1>1. b \in BOOLEAN
  OBVIOUS
<1> HIDE DEF b
<1>2. r \in Runtimes
  BY <1>1, NewRuntimeTyped, RuntimeSteps
<1>3. /\ NextRuntime(l, how) = ScheduleIf(Restarted(l, how), IF how # "reload" THEN r ELSE q)
  BY Zenon DEF NextRuntime, b, r, q
<1> HIDE DEF r
<1>4. q \in Runtimes
  BY <1>2 DEF Runtimes
<1> HIDE DEF q
<1> QED BY <1>2, <1>3, <1>4, RuntimeMoves

\* The next runtime finds the loop as it was, or as the end of a session left it.
LEMMA RestartMoves ==
  ASSUME IInv,
         DiesBeforeSend \/ \E how \in {"crash", "close", "reload"}, ok \in BOOLEAN : Restart(how, ok)
  PROVE  Typed' /\ Proceeds
<1>1. CASE DiesBeforeSend
  <2> DEFINE l == Sent(loop)
             f == Restarted(l, "crash")
  <2>1. /\ Sendable(loop) /\ ~AtLimit(loop)
        /\ file' = f /\ rt' = NextRuntime(l, "crash")
        /\ run' = NoRun /\ preps' = 0 /\ stale' = 0 /\ UNCHANGED sends
    BY <1>1 DEF DiesBeforeSend, Ready
  <2>2. spent' \in Spent
    BY <1>1, Values, Counted DEF DiesBeforeSend, IInv, Typed
  <2>3. l \in Loops /\ l.count <= l.max
    BY <2>1, Now, SentLoop
  <2> HIDE DEF l
  <2>4. SameLoop(l, f)
    BY <2>3, RestartedLoop
  <2> HIDE DEF f
  <2>5. Moves(file')
    BY <2>1, <2>3, <2>4 DEF Moves, SameLoop, Sendable, Terminal
  <2>6. rt' \in Runtimes
    BY <2>1, <2>3, Now, NextRuntimeTyped
  <2> QED BY <2>1, <2>2, <2>5, <2>6, NoRunTyped, Moving DEF IInv, Typed, Proceeds
<1>2. ASSUME NEW how \in {"crash", "close", "reload"}, NEW ok \in BOOLEAN, Restart(how, ok)
      PROVE  Typed' /\ Proceeds
  <2> DEFINE f == Restarted(loop, how)
  <2>1. /\ file' = (IF ok THEN f ELSE file)
        /\ rt' = (IF ok THEN NextRuntime(loop, how) ELSE NewRuntime)
        /\ run' = NoRun /\ preps' = 0 /\ stale' = 0 /\ UNCHANGED sends
    BY <1>2 DEF Restart
  <2>2. spent' \in Spent
    BY <1>2, Written DEF Restart
  <2>3. rt' \in Runtimes
    BY <2>1, Now, NextRuntimeTyped, NewRuntimeTyped
  <2>4. /\ SameLoop(loop, f)
        /\ Interrupted(loop, how) => f.status = "paused" /\ f.why = "session_end"
        /\ ~Interrupted(loop, how) => f = loop
    BY Now, RestartedLoop
  <2> HIDE DEF f
  <2>5. CASE Terminal(loop)
    <3>1. ~Interrupted(loop, how) /\ loop.status # "queued"
      BY <2>5 DEF Terminal, Interrupted, AbortPaused, Sendable
    <3>2. file' = file
      BY <2>1, <2>4, <3>1, Now
    <3> QED BY <2>1, <2>2, <2>3, <3>2, NoRunTyped, Moving DEF IInv, Typed, Proceeds
  <2>6. CASE ~Terminal(loop)
    <3>1. loop.status = "paused" /\ loop.why = "user" => ~Ongoing(Hydrated(f))
      BY <2>4, Now, Resting DEF SameLoop
    <3>2. Moves(f)
      BY <2>4, <2>6, <3>1, MovesSame
    <3> QED BY <2>1, <2>2, <2>3, <3>2, NoRunTyped, Moving DEF IInv, Typed, Proceeds
  <2> QED BY <2>5, <2>6
<1> QED BY <1>1, <1>2
-----------------------------------------------------------------------------
(***************************************************************************)
(* The commands: a loop that is over is left alone, or replaced.           *)
(***************************************************************************)
Commanded ==
  /\ Typed' /\ WithinBudget'
  /\ Terminal(loop) => file' = file \/ file'.n # file.n

\* A command keeps the invariant, if what it writes is a loop within its budget.
LEMMA Commanding ==
  ASSUME IInv, file' \in Loops, file'.count <= file'.max,
         ~Terminal(loop) \/ file' = file \/ file'.n # file.n,
         rt' \in Runtimes, run' \in Runs, sends' \in Nat, preps' \in Nat, stale' \in Nat,
         spent' \in Spent
  PROVE  Commanded
BY DEF Commanded, Typed, WithinBudget

\* A new loop has a number of its own.
LEMMA StartCommanded ==
  ASSUME IInv, NEW max \in Budgets, NEW full \in Modes, NEW ok \in BOOLEAN, Start(max, full, ok)
  PROVE  Commanded
<1>1. spent' \in Spent /\ UNCHANGED sends
  BY Written DEF Start
<1>2. CASE ~ok
  <2>1. UNCHANGED <<file, rt, run, preps, stale>>
    BY <1>2 DEF Start
  <2> QED BY <1>1, <2>1, Commanding DEF IInv, Typed, WithinBudget
<1>3. CASE ok
  <2> DEFINE f == NewLoop(max, full)
             replacing == loop.status # "none" /\ ~Terminal(loop)
             c == ClearPending(ClearTimer(rt))
             d == c.discard \/ (replacing /\ Expected)
  <2>1. /\ file' = f /\ preps' = 0 /\ stale' = stale + preps
        /\ rt' = [c EXCEPT !.awaiting = FALSE, !.pausedPending = FALSE, !.inFlight = FALSE,
                           !.transport = 0, !.timer = TRUE, !.discard = d]
        /\ \/ run' = run
           \/ run' = [AbortRun("abort") EXCEPT !.stale = TRUE]
           \/ run' = [run EXCEPT !.stale = TRUE]
    <3>1. /\ file' = f /\ preps' = 0 /\ stale' = stale + preps
          /\ \/ run' = run
             \/ run' = [AbortRun("abort") EXCEPT !.stale = TRUE]
             \/ run' = [run EXCEPT !.stale = TRUE]
      BY <1>3 DEF Start
    <3>2. rt' = [c EXCEPT !.awaiting = FALSE, !.pausedPending = FALSE, !.inFlight = FALSE,
                          !.transport = 0, !.timer = TRUE, !.discard = d]
      BY <1>3, Zenon DEF Start
    <3> QED BY <3>1, <3>2
  <2>2. rt' \in Runtimes
    <3>1. c \in Runtimes
      BY Now, RuntimeSteps
    <3>2. d \in BOOLEAN
      BY <3>1 DEF Runtimes
    <3> HIDE DEF c, d
    <3> QED BY <2>1, <3>1, <3>2, Values DEF Runtimes
  <2>3. run' \in Runs
    <3> DEFINE a == AbortRun("abort")
    <3>1. a \in Runs
      BY Now, Values, AbortedRun
    <3> HIDE DEF a
    <3>2. [a EXCEPT !.stale = TRUE] \in Runs /\ [run EXCEPT !.stale = TRUE] \in Runs
      BY <3>1, Now, Values DEF Runs
    <3> QED BY <2>1, <3>2, Now DEF a
  <2>4. f \in Loops /\ f.count <= f.max /\ f.n # file.n
    <3> DEFINE n == file.n + 1
    <3>1. n \in Nat /\ n # file.n /\ max \in Nat /\ full \in BOOLEAN
      BY GoalAssumption DEF IInv, Typed, Loops
    <3>2. f = [NoLoop EXCEPT !.status = "queued", !.max = max, !.full = full, !.n = n]
      BY DEF NewLoop
    <3> HIDE DEF n, f
    <3>3. "queued" \in Statuses /\ "none" \in Whys /\ "goal" \in Kinds
      BY DEF Statuses, Whys, Kinds
    <3>4. NoLoop \in Loops
      BY <3>3, Values DEF NoLoop, Loops, Statuses
    <3>5. f \in Loops
      BY <3>1, <3>2, <3>3, <3>4 DEF Loops
    <3>6. f.count = 0 /\ f.max = max /\ f.n = n
      BY <3>2 DEF NoLoop
    <3> QED BY <3>1, <3>5, <3>6
  <2>5. stale' \in Nat /\ preps' \in Nat
    BY <2>1 DEF IInv, Typed
  <2> QED BY <1>1, <2>1, <2>2, <2>3, <2>4, <2>5, Commanding DEF IInv, Typed
<1> QED BY <1>2, <1>3

\* The user's pause.
LEMMA PauseCommanded ==
  ASSUME IInv, NEW ok \in BOOLEAN, Pause(ok)
  PROVE  Commanded
<1>1. spent' \in Spent /\ UNCHANGED <<preps, stale, sends>> /\ ~Terminal(loop)
  BY Written DEF Pause, Pausable, Schedulable, Sendable, Terminal
<1>2. CASE UNCHANGED <<file, rt, run>>
  BY <1>1, <1>2, Commanding DEF IInv, Typed, WithinBudget
<1>3. CASE file' = Paused(loop, rt, "user") /\ rt' = AfterPause(rt) /\ run' = AbortRun("abort")
  <2>1. SameLoop(loop, file')
    BY <1>3, Now, PausedLoop DEF Whys
  <2>2. rt' \in Runtimes /\ run' \in Runs
    BY <1>3, Now, Values, RuntimeMoves, AbortedRun
  <2> QED BY <1>1, <2>1, <2>2, Now, Commanding DEF SameLoop, IInv, Typed
<1> QED BY <1>2, <1>3 DEF Pause

\* A loop the user ends.
LEMMA EndCommanded ==
  ASSUME IInv, NEW ok \in BOOLEAN, Stop(ok) \/ Complete(ok)
  PROVE  Commanded
<1> DEFINE c == ClearPending(ClearTimer(rt))
           d == c.discard \/ Expected
<1>1. spent' \in Spent /\ UNCHANGED <<preps, stale, sends>> /\ ~Terminal(loop)
  BY Written DEF Stop, Complete, Terminal
<1>2. CASE UNCHANGED <<file, rt, run>>
  BY <1>1, <1>2, Commanding DEF IInv, Typed, WithinBudget
<1>3. CASE ok
  <2>1. \E s \in {"stopped", "completed"} :
          file' = [loop EXCEPT !.status = s, !.why = "none", !.recovery = FALSE]
    BY <1>3 DEF Stop, Complete
  <2>2. SameLoop(loop, file')
    BY <2>1, Now, Values DEF SameLoop, Loops, Statuses
  <2>3. run' \in Runs
    BY <1>3, Now, Values, AbortedRun DEF Stop, Complete
  <2>4. rt' \in Runtimes
    <3>1. c \in Runtimes
      BY Now, RuntimeSteps
    <3>2. d \in BOOLEAN
      BY <3>1 DEF Runtimes
    <3>3. \/ rt' = [c EXCEPT !.awaiting = FALSE, !.pausedPending = FALSE, !.discard = d]
          \/ rt' = [c EXCEPT !.awaiting = FALSE, !.pausedPending = FALSE]
      <4>1. CASE Stop(ok)
        BY <1>3, <4>1, Zenon DEF Stop
      <4>2. CASE Complete(ok)
        BY <1>3, <4>2, Zenon DEF Complete
      <4> QED BY <4>1, <4>2
    <3> HIDE DEF c, d
    <3> QED BY <3>1, <3>2, <3>3, Values DEF Runtimes
  <2> QED BY <1>1, <2>2, <2>3, <2>4, Now, Commanding DEF SameLoop, IInv, Typed
<1> QED BY <1>2, <1>3 DEF Stop, Complete

\* A resume never lowers the budget.
LEMMA ResumeCommanded ==
  ASSUME IInv, NEW max \in Budgets, NEW ok \in BOOLEAN, Resume(max, ok)
  PROVE  Commanded
<1> DEFINE l == [loop EXCEPT !.max = max]
           m == [l EXCEPT !.recovery = FALSE]
           o == LateResult(l, rt)
           applied == ApplyResult(m, o)
           p == [rt EXCEPT !.pausedPending = FALSE]
<1>1. /\ loop.status \in {"paused", "blocked"} /\ max >= loop.max
      /\ spent' \in Spent /\ UNCHANGED <<run, preps, stale, sends>>
  BY Written DEF Resume
<1>2. ~Terminal(loop)
  BY <1>1 DEF Terminal
<1>3. l \in Loops /\ l.max = max /\ l.count = loop.count /\ l.count <= l.max
  BY <1>1, Now, GoalAssumption DEF Loops
<1>4. p \in Runtimes
  BY Now, RuntimeSteps
<1>5. \/ /\ file' = applied /\ rt' = ScheduleIf(applied, p)
      \/ /\ rt' = [rt EXCEPT !.pausedPending = TRUE] /\ UNCHANGED file
      \/ /\ file' = l \/ file' = file
         /\ UNCHANGED rt
      \/ /\ rt' = p /\ UNCHANGED file
      \/ /\ ResumeSends(l, ok) /\ ok
  <2>1. CASE ResumeRecovers(l, ok)
    <3> HIDE DEF l, p
    <3> QED BY <2>1 DEF ResumeRecovers, applied, m, o, p
  <2>2. CASE ResumeSends(l, ok)
    BY <2>2 DEF ResumeSends
  <2>3. CASE file' = (IF ok THEN l ELSE file) /\ UNCHANGED rt
    BY <2>3
  <2>4. \/ ResumeRecovers(l, ok) \/ ResumeSends(l, ok)
        \/ file' = (IF ok THEN l ELSE file) /\ UNCHANGED rt
    BY DEF Resume
  <2> QED BY <2>1, <2>2, <2>3, <2>4
<1> HIDE DEF l
<1>6. file' \in Loops /\ file'.count <= file'.max /\ rt' \in Runtimes
  <2>1. CASE file' = applied /\ rt' = ScheduleIf(applied, p)
    <3>1. m \in Loops /\ m.count = l.count /\ m.max = l.max
      BY <1>3 DEF Loops
    <3> HIDE DEF m
    <3>2. SameLoop(m, applied)
      BY <3>1, ResultApplied
    <3> QED BY <1>3, <1>4, <2>1, <3>1, <3>2, RuntimeMoves DEF SameLoop
  <2>2. CASE rt' = [rt EXCEPT !.pausedPending = TRUE] /\ UNCHANGED file
    BY <2>2, Now, RuntimeSteps DEF IInv, Typed, WithinBudget
  <2>3. CASE (file' = l \/ file' = file) /\ UNCHANGED rt
    BY <1>3, <2>3 DEF IInv, Typed, WithinBudget
  <2>4. CASE rt' = p /\ UNCHANGED file
    BY <1>4, <2>4 DEF IInv, Typed, WithinBudget
  <2>5. CASE ResumeSends(l, ok) /\ ok
    <3> DEFINE s == IF Verifying(l) THEN "verifying" ELSE "queued"
               k == IF l.full THEN "goal" ELSE l.kind
               u == IF BudgetSpent(l) /\ ~l.retry /\ ~Verifying(l) THEN 1 ELSE 0
    <3>1. s \in Statuses /\ k \in Kinds /\ u \in Nat /\ "none" \in Whys
      BY <1>3 DEF Statuses, Kinds, Loops, Whys
    <3>2. file' = [l EXCEPT !.status = s, !.kind = k, !.why = "none", !.streak = u, !.recovery = FALSE]
      BY <2>5, Zenon DEF ResumeSends
    <3>3. rt' = Schedule(p)
      BY <2>5 DEF ResumeSends
    <3> HIDE DEF s, k, u, p
    <3>4. file' \in Loops /\ file'.count = l.count /\ file'.max = l.max
      BY <1>3, <3>1, <3>2 DEF Loops
    <3> QED BY <1>3, <1>4, <3>3, <3>4, RuntimeSteps
  <2> HIDE DEF p, applied
  <2> QED BY <1>5, <2>1, <2>2, <2>3, <2>4, <2>5
<1> QED BY <1>1, <1>2, <1>6, Commanding DEF IInv, Typed
-----------------------------------------------------------------------------
\* Every command, on every loop.
LEMMA Commands == IInv /\ Command => Commanded
BY StartCommanded, PauseCommanded, EndCommanded, ResumeCommanded DEF Command

\* Every step that is not a command, a stuttering step included.
LEMMA Proceeding ==
  ASSUME IInv, [Next]_vars, ~Command
  PROVE  Typed' /\ Proceeds
<1>1. CASE UNCHANGED vars
  BY <1>1 DEF vars, IInv, Typed, Proceeds
<1>2. CASE Tick
  BY <1>2, TickMoves
<1>3. CASE Prepared
  BY <1>3, DeclinedMoves, DeliverMoves, AbandonMoves, PrepareThrowsMoves, DeliverThrowsMoves DEF Prepared
<1>4. CASE RunEnds
  BY <1>4, RunEndMoves
<1>5. CASE RunSteps
  BY <1>5, AgentEndMoves, SettledMoves, QuietMoves, LimitMovesOn DEF RunSteps
<1>6. CASE Recovers
  BY <1>6, WatchdogMoves, TimeoutMoves DEF Recovers
<1>7. CASE UserTurn
  BY <1>7, QuietMoves
<1>8. CASE Faults
  BY <1>8, RunEndMoves, QuietMoves, RestartMoves DEF Faults
<1> QED BY <1>1, <1>2, <1>3, <1>4, <1>5, <1>6, <1>7, <1>8 DEF Next

\* The invariant holds at first.
LEMMA InitIInv == Init => IInv
<1> SUFFICES ASSUME Init PROVE IInv
  OBVIOUS
<1>1. NoLoop \in Loops
  BY Values DEF NoLoop, Loops, Statuses
<1>2. spent \in Spent
  BY DEF Init, Spent
<1>3. file.count = 0 /\ file.max = 0
  BY DEF Init, NoLoop
<1> QED BY <1>1, <1>2, <1>3, NewRuntimeTyped, NoRunTyped DEF Init, IInv, Typed, WithinBudget

\* Every step keeps it.
LEMMA NextIInv == IInv /\ [Next]_vars => IInv'
<1> SUFFICES ASSUME IInv, [Next]_vars PROVE IInv'
  OBVIOUS
<1>1. CASE Command
  BY <1>1, Commands DEF Commanded, IInv
<1>2. CASE ~Command
  BY <1>2, Proceeding DEF Proceeds, Moves, IInv, WithinBudget
<1> QED BY <1>1, <1>2

\* The loop file is always a loop of the code, whatever the commands, the runs and
\* the restarts did to it, and the runtime and the run keep their types.
THEOREM TypeCorrect == Spec => []Typed
<1>1. IInv => Typed
  BY DEF IInv
<1> QED BY <1>1, InitIInv, NextIInv, PTL DEF Spec

\* However a turn was paused, given back or tried again, the loop never counts more
\* turns than the user allowed.
THEOREM TurnsBudgeted == Spec => []WithinBudget
<1>1. IInv => WithinBudget
  BY DEF IInv
<1> QED BY <1>1, InitIInv, NextIInv, PTL DEF Spec

\* What the user stopped, closed or paused is left alone: a loop that is over is not
\* touched until another is started, and a paused one goes on only at a command, or
\* where the pause itself could not be written.
THEOREM Heeded == Spec => UserHeeded
<1> DEFINE A == /\ Terminal(loop) => file' = file \/ file'.n # file.n
                /\ loop.status = "paused" /\ loop.why = "user" /\ Ongoing(loop')
                     => Command \/ spent'.fails > spent.fails
<1>1. IInv /\ [Next]_vars => A
  <2> SUFFICES ASSUME IInv, [Next]_vars PROVE A
    OBVIOUS
  <2>1. CASE Command
    BY <2>1, Commands DEF Commanded
  <2>2. CASE ~Command
    <3>1. Proceeds
      BY <2>2, Proceeding
    <3>2. loop' = Hydrated(file')
      BY DEF loop
    <3>3. CASE file' = file
      <4>1. loop' = loop
        BY <3>3 DEF loop
      <4>2. loop.status = "paused" /\ loop.why = "user" => ~Ongoing(loop)
        BY DEF Ongoing, Schedulable, Sendable, AutoPaused
      <4> QED BY <3>3, <4>1, <4>2
    <3>4. CASE Moves(file')
      BY <3>2, <3>4 DEF Moves
    <3> QED BY <3>1, <3>3, <3>4 DEF Proceeds
  <2> QED BY <2>1, <2>2
<1> QED BY <1>1, InitIInv, NextIInv, PTL DEF Spec, UserHeeded
-----------------------------------------------------------------------------
(***************************************************************************)
(* Which turn a result belongs to.  While a turn is wanted, that is, sent  *)
(* and neither settled nor given up, whatever may still be taken for its   *)
(* result comes from a run of its own loop and kind that was not counted   *)
(* before; as long as no counted prompt was lost, and the model does not   *)
(* write results into the turns of the user.                               *)
(***************************************************************************)
Wanted(l, r) == l.status = "running" \/ l.recovery \/ r.pausedPending

\* The number of l counts a turn whose result is not there yet.
Counting(l, r) ==
  l.kind = "goal" /\ (Wanted(l, r) \/ l.retry \/ l.streak = 1 \/ l.why = "unreadable")

\* The status of a loop tells the kind of its turn; a turn that is awaited runs, and
\* one that runs has nothing left to recover or to try again.
Coherent(l, r) ==
  /\ l.status = "verifying" => l.kind = "verification"
  /\ l.status = "queued" \/ l.full => l.kind = "goal"
  /\ l.why = "unreadable" => l.status = "paused"
  /\ r.awaiting => l.status = "running"
  /\ l.status = "running" => ~l.recovery /\ ~l.retry /\ ~r.pausedPending

\* o comes from a run of this loop and of the kind its turn is, not counted before.
Fresh(o) ==
  /\ o.of = file.n /\ o.kind = file.kind /\ o.send <= sends
  /\ \A i \in DOMAIN results : results[i].send # o.send

GoalResults == {i \in DOMAIN results : results[i].kind = "goal"}

Recorded ==
  /\ log \in [Kinds \X Turns -> [open : BOOLEAN, got : Outcomes]]
  /\ results \in Seq(Outcomes)
  /\ \A i \in DOMAIN results : IsResult(results[i])

Scored ==
  /\ \A i \in DOMAIN results : results[i].of = file.n /\ results[i].send <= sends
  /\ \A i, j \in DOMAIN results : results[i].send = results[j].send => i = j
  /\ Cardinality(GoalResults) <= file.count
  /\ Counting(file, rt) => Cardinality(GoalResults) < file.count

Attributed ==
  Wanted(file, rt) =>
    /\ \A k \in DOMAIN log :
         k = <<file.kind, file.count>> /\ IsResult(log[k].got) => Fresh(log[k].got)
    /\ IsResult(rt.pending) => Fresh(rt.pending)
    /\ Busy /\ run.kind # "user" => Fresh(run)

\* A turn of the user's own shuts the turns before it off.
Apart ==
  Busy /\ run.kind = "user" =>
    run.of = 0 /\ ~IsResult(run) /\ \A k \in DOMAIN log : ~log[k].open

History == Recorded /\ Coherent(file, rt) /\ Scored /\ Attributed /\ Apart

\* What a step that completes the loop, without being told to, has to show.
Proper ==
  file'.status = "completed" /\ file.status # "completed" =>
    /\ Len(results') > Len(results)
    /\ results'[Len(results')].kind = "verification"
    /\ results'[Len(results')].res = "verified"
-----------------------------------------------------------------------------
\* The loop as it is read differs from the file in its status only.
LEMMA Read ==
  ASSUME IInv
  PROVE  /\ loop.n = file.n /\ loop.kind = file.kind /\ loop.count = file.count
         /\ loop.full = file.full /\ loop.recovery = file.recovery /\ loop.retry = file.retry
         /\ loop.streak = file.streak /\ loop.why = file.why
         /\ loop.status = "running" <=> file.status = "running"
         /\ Coherent(file, rt) => Coherent(loop, rt)
         /\ Wanted(loop, rt) <=> Wanted(file, rt)
         /\ Counting(loop, rt) <=> Counting(file, rt)
<1>1. file \in Loops
  BY DEF IInv, Typed
<1>2. loop = file \/ (file.status = "completed" /\ file.full /\ loop = [file EXCEPT !.status = "queued"])
  BY DEF loop, Hydrated
<1>3. CASE loop = file
  BY <1>3
<1>4. CASE file.status = "completed" /\ file.full /\ loop = [file EXCEPT !.status = "queued"]
  <2>1. /\ loop.n = file.n /\ loop.kind = file.kind /\ loop.count = file.count
        /\ loop.full = file.full /\ loop.recovery = file.recovery /\ loop.retry = file.retry
        /\ loop.streak = file.streak /\ loop.why = file.why /\ loop.status = "queued"
    BY <1>1, <1>4 DEF Loops
  <2> QED BY <1>4, <2>1 DEF Coherent, Wanted, Counting
<1> QED BY <1>2, <1>3, <1>4

\* The results are finitely many.
LEMMA GoalsCounted == results \in Seq(Outcomes) => IsFiniteSet(GoalResults) /\ Cardinality(GoalResults) \in Nat
<1> SUFFICES ASSUME results \in Seq(Outcomes)
             PROVE  IsFiniteSet(GoalResults) /\ Cardinality(GoalResults) \in Nat
  OBVIOUS
<1>1. Len(results) \in Nat /\ DOMAIN results = 1 .. Len(results)
  OBVIOUS
<1>2. IsFiniteSet(1 .. Len(results))
  BY <1>1, FS_Interval
<1>3. GoalResults \in SUBSET (1 .. Len(results))
  BY <1>1 DEF GoalResults
<1>4. IsFiniteSet(GoalResults)
  BY <1>2, <1>3, FS_Subset
<1> QED BY <1>4, FS_CardinalityType

\* One more result of a turn is one more goal result at most.
LEMMA OneMore ==
  ASSUME results \in Seq(Outcomes), NEW o \in Outcomes, results' = Append(results, o)
  PROVE  /\ Len(results') = Len(results) + 1 /\ results' \in Seq(Outcomes)
         /\ results'[Len(results')] = o
         /\ DOMAIN results' = DOMAIN results \cup {Len(results')} /\ Len(results') \notin DOMAIN results
         /\ \A i \in DOMAIN results : results'[i] = results[i]
         /\ Cardinality(GoalResults) \in Nat
         /\ Cardinality(GoalResults') = IF o.kind = "goal" THEN Cardinality(GoalResults) + 1
                                        ELSE Cardinality(GoalResults)
<1>1. /\ results' \in Seq(Outcomes) /\ Len(results') = Len(results) + 1
      /\ results'[Len(results) + 1] = o
      /\ \A i \in 1 .. Len(results) : results'[i] = results[i]
  BY AppendProperties
<1>2. Len(results) \in Nat /\ DOMAIN results = 1 .. Len(results) /\ DOMAIN results' = 1 .. Len(results')
  BY <1>1
<1> DEFINE n == Len(results) + 1
<1>3. /\ DOMAIN results' = DOMAIN results \cup {n} /\ n \notin DOMAIN results
      /\ \A i \in DOMAIN results : results'[i] = results[i]
  BY <1>1, <1>2
<1>4. IsFiniteSet(GoalResults) /\ Cardinality(GoalResults) \in Nat
  BY GoalsCounted
<1>6. CASE o.kind = "goal"
  <2>1. GoalResults' = GoalResults \cup {n} /\ n \notin GoalResults
    BY <1>1, <1>3, <1>6 DEF GoalResults
  <2>2. Cardinality(GoalResults \cup {n}) = Cardinality(GoalResults) + 1
    BY <1>4, <2>1, FS_AddElement
  <2> QED BY <1>1, <1>3, <1>4, <1>6, <2>1, <2>2
<1>5. CASE o.kind # "goal"
  <2>1. GoalResults' = GoalResults
    BY <1>1, <1>3, <1>5 DEF GoalResults
  <2> QED BY <1>1, <1>3, <1>4, <1>5, <2>1
<1> QED BY <1>5, <1>6
-----------------------------------------------------------------------------
(***************************************************************************)
(* What the operators on loops leave alone.                                *)
(***************************************************************************)
\* Judging a result: only the status, the reason and the rejections change, and a
\* claim of the work turn asks for a verification.
LEMMA JudgedRest ==
  ASSUME NEW l \in Loops, NEW res, NEW j, j = Judged(l, res)
  PROVE  /\ j.recovery = l.recovery /\ j.retry = l.retry /\ j.streak = l.streak
         /\ j.why \in {l.why, "rejected"}
         /\ j.status = "verifying" => ~Verifying(l) /\ res = "completed"
<1>1. CASE ~Verifying(l)
  <2> DEFINE s == IF res = "completed" THEN "verifying"
                  ELSE IF res = "blocked" THEN "blocked" ELSE "queued"
  <2>1. j = [l EXCEPT !.status = s] /\ (s = "verifying" => res = "completed")
    BY <1>1 DEF Judged
  <2> HIDE DEF s
  <2> QED BY <1>1, <2>1 DEF Loops
<1>2. CASE Verifying(l)
  <2> DEFINE m == l.rejected + 1
  <2>1. \/ j = [l EXCEPT !.status = "completed", !.rejected = 0]
        \/ j = [l EXCEPT !.status = "blocked"]
        \/ j = [l EXCEPT !.status = "paused", !.why = "rejected", !.rejected = m]
        \/ j = [l EXCEPT !.status = "queued", !.rejected = m]
    BY <1>2 DEF Judged
  <2> HIDE DEF m
  <2> QED BY <2>1 DEF Loops
<1> QED BY <1>1, <1>2

\* A result settles the turn: nothing is left to recover, to retry or to count, and the
\* kind of the next turn goes with the status.
Outcomed(l, o, f) ==
  /\ f \in Loops /\ f.n = l.n /\ f.count = l.count /\ f.full = l.full
  /\ f.recovery = l.recovery /\ ~f.retry /\ f.streak = 0 /\ f.why # "unreadable"
  /\ f.status # "running"
  /\ f.status = "verifying" => f.kind = "verification"
  /\ f.status = "queued" \/ f.full => f.kind = "goal"
  /\ f.status = "completed" => l.kind = "verification" /\ o.res = "verified"

\* So it is with what a result makes of a loop.
LEMMA ResultSettles ==
  ASSUME NEW l \in Loops, l.full => l.kind = "goal", NEW o, NEW f, f = ApplyResult(l, o)
  PROVE  Outcomed(l, o, f)
<1> DEFINE m == [l EXCEPT !.streak = 0, !.retry = FALSE, !.why = "none"]
           e == Effective(l, o.res)
           j == Judged(m, e)
<1>1. /\ m \in Loops /\ m.why = "none" /\ m.streak = 0 /\ m.retry = FALSE /\ m.recovery = l.recovery
      /\ m.kind = l.kind /\ m.full = l.full /\ (Verifying(m) <=> Verifying(l))
  BY DEF Loops, Whys, Verifying
<1>2. e = "completed" => ~l.full
  BY DEF Effective
<1>3. Verifying(l) /\ e = "verified" => o.res = "verified"
  BY DEF Effective
<1> HIDE DEF m, e
<1>4. /\ SameLoop(m, j)
      /\ j.status \in {"queued", "verifying", "paused", "blocked", "completed"}
      /\ j.status = "completed" => Verifying(m) /\ e = "verified"
      /\ j.recovery = m.recovery /\ j.retry = m.retry /\ j.streak = m.streak
      /\ j.why \in {m.why, "rejected"}
      /\ j.status = "verifying" => ~Verifying(m) /\ e = "completed"
  BY <1>1, JudgedLoop, JudgedRest
<1> HIDE DEF j
<1> DEFINE limited == j.status = "queued" /\ BudgetSpent(j)
           s == IF limited THEN "paused" ELSE j.status
           w == IF limited THEN "turn_limit" ELSE j.why
           k == IF j.status = "verifying" \/ (Verifying(l) /\ j.status = "blocked")
                THEN "verification" ELSE "goal"
<1>5. f = [j EXCEPT !.status = s, !.why = w, !.kind = k]
  BY Zenon DEF ApplyResult, j, m, e
<1>6. /\ s \in {"queued", "verifying", "paused", "blocked", "completed"} /\ w # "unreadable"
      /\ s = "verifying" => k = "verification"
      /\ s = "queued" \/ l.full => k = "goal"
      /\ s = "completed" => l.kind = "verification" /\ o.res = "verified"
  BY <1>1, <1>2, <1>3, <1>4 DEF Verifying
<1> HIDE DEF s, w, k, limited
<1>7. j \in Loops
  BY <1>4 DEF SameLoop
<1>8. f.status = s /\ f.why = w /\ f.kind = k /\ f.recovery = j.recovery /\ f.retry = j.retry
      /\ f.streak = j.streak
  BY <1>5, <1>7 DEF Loops
<1>9. SameLoop(l, f)
  BY ResultApplied
<1> QED BY <1>1, <1>4, <1>6, <1>8, <1>9 DEF SameLoop, Outcomed

\* A pause keeps the turn, and a turn that was awaited is one to recover and to retry.
LEMMA PausedRest ==
  ASSUME NEW l \in Loops, NEW r, NEW why, NEW f, f = Paused(l, r, why)
  PROVE  /\ f.n = l.n /\ f.count = l.count /\ f.full = l.full /\ f.kind = l.kind
         /\ f.streak = l.streak /\ f.status = "paused" /\ f.why = why
         /\ f.recovery <=> l.recovery \/ r.awaiting
         /\ f.retry <=> l.retry \/ r.awaiting
<1> DEFINE a == l.recovery \/ r.awaiting
           b == l.retry \/ r.awaiting
<1>1. f = [l EXCEPT !.status = "paused", !.why = why, !.recovery = a, !.retry = b]
  BY Zenon DEF Paused
<1> HIDE DEF a, b
<1>2. /\ f.n = l.n /\ f.count = l.count /\ f.full = l.full /\ f.kind = l.kind
      /\ f.streak = l.streak /\ f.status = "paused" /\ f.why = why
      /\ f.recovery = a /\ f.retry = b
  BY <1>1 DEF Loops
<1> QED BY <1>2 DEF a, b

\* Sending a turn again keeps all but the status and the reason.
LEMMA RequeuedRest ==
  ASSUME NEW l \in Loops, NEW f, f = Requeued(l)
  PROVE  /\ f.n = l.n /\ f.count = l.count /\ f.full = l.full /\ f.kind = l.kind
         /\ f.streak = l.streak /\ f.recovery = l.recovery /\ f.retry = l.retry
         /\ f.why = "none" /\ f.status = Again(l)
<1> DEFINE s == Again(l)
<1>1. f = [l EXCEPT !.status = s, !.why = "none"]
  BY DEF Requeued
<1> HIDE DEF s
<1>2. /\ f.n = l.n /\ f.count = l.count /\ f.full = l.full /\ f.kind = l.kind
      /\ f.streak = l.streak /\ f.recovery = l.recovery /\ f.retry = l.retry
      /\ f.why = "none" /\ f.status = s
  BY <1>1 DEF Loops
<1> QED BY <1>2 DEF s

\* A reply without a result keeps the turn.
LEMMA MissingRest ==
  ASSUME NEW l \in Loops, NEW f, f = ApplyMissing(l)
  PROVE  /\ f.n = l.n /\ f.count = l.count /\ f.full = l.full /\ f.kind = l.kind
         /\ f.recovery = l.recovery
         /\ \/ f.status = "paused"
            \/ f.status = Again(l) /\ f.why = "none"
<1> DEFINE m == l.streak + 1
           s == Again(l)
<1>1. \/ f = [l EXCEPT !.streak = m, !.retry = FALSE, !.status = "paused", !.why = "unreadable"]
      \/ f = [l EXCEPT !.streak = m, !.retry = FALSE, !.status = s, !.why = "none"]
  BY DEF ApplyMissing
<1> HIDE DEF m, s
<1>2. /\ f.n = l.n /\ f.count = l.count /\ f.full = l.full /\ f.kind = l.kind
      /\ f.recovery = l.recovery
      /\ f.status = "paused" \/ (f.status = s /\ f.why = "none")
  BY <1>1 DEF Loops
<1> QED BY <1>2 DEF s

\* A turn that is sent is new, or is tried again under its number.
LEMMA SentRest ==
  ASSUME NEW l \in Loops, Sendable(l), NEW f, f = Sent(l)
  PROVE  /\ f.n = l.n /\ f.full = l.full /\ f.status = "running" /\ f.why = l.why
         /\ f.recovery = FALSE /\ f.retry = FALSE
         /\ l.status = "verifying" => f.kind = "verification" /\ f.count = l.count
         /\ l.status = "queued" => f.kind = "goal" /\ (f.count = l.count + 1 \/ (FreeRetry(l) /\ f.count = l.count))
<1> DEFINE k == IF l.status = "verifying" THEN "verification" ELSE "goal"
           c == IF l.status = "queued" /\ ~FreeRetry(l) THEN l.count + 1 ELSE l.count
<1>1. f = [l EXCEPT !.status = "running", !.recovery = FALSE, !.retry = FALSE, !.kind = k, !.count = c]
  BY Zenon DEF Sent
<1>2. /\ l.status = "verifying" => k = "verification" /\ c = l.count
      /\ l.status = "queued" => k = "goal" /\ (c = l.count + 1 \/ (FreeRetry(l) /\ c = l.count))
  OBVIOUS
<1> HIDE DEF k, c
<1>3. /\ f.n = l.n /\ f.full = l.full /\ f.status = "running" /\ f.why = l.why
      /\ f.recovery = FALSE /\ f.retry = FALSE /\ f.kind = k /\ f.count = c
  BY <1>1 DEF Loops
<1> QED BY <1>2, <1>3 DEF Sendable

\* A turn that is given back loses its number, unless it is one that is tried again.
LEMMA RewoundRest ==
  ASSUME NEW l \in Loops, NEW f, f = Rewound(l)
  PROVE  /\ f.n = l.n /\ f.full = l.full /\ f.kind = l.kind /\ f.streak = l.streak
         /\ f.recovery = l.recovery /\ f.retry = l.retry
         /\ f.why = "none" /\ f.status = Again(l)
         /\ \/ f.count = l.count /\ (l.kind = "goal" => l.streak = 1 \/ l.count = 0)
            \/ f.count + 1 = l.count /\ l.kind = "goal" /\ l.streak # 1
<1> DEFINE s == Again(l)
           c == IF l.kind = "goal" /\ l.streak # 1 /\ l.count > 0 THEN l.count - 1 ELSE l.count
<1>1. f = [l EXCEPT !.status = s, !.why = "none", !.count = c]
  BY Zenon DEF Rewound
<1>2. \/ c = l.count /\ (l.kind = "goal" => l.streak = 1 \/ l.count = 0)
      \/ c + 1 = l.count /\ l.kind = "goal" /\ l.streak # 1
  BY DEF Loops
<1> HIDE DEF s, c
<1>3. /\ f.n = l.n /\ f.full = l.full /\ f.kind = l.kind /\ f.streak = l.streak
      /\ f.recovery = l.recovery /\ f.retry = l.retry
      /\ f.why = "none" /\ f.status = s /\ f.count = c
  BY <1>1 DEF Loops
<1> QED BY <1>2, <1>3 DEF s

\* A turn a restart interrupts is one to recover and to retry.
LEMMA RestartedRest ==
  ASSUME NEW l \in Loops, NEW how, NEW f, f = Restarted(l, how)
  PROVE  \/ f = l /\ l.status # "running"
         \/ /\ f.n = l.n /\ f.count = l.count /\ f.full = l.full /\ f.kind = l.kind
            /\ f.streak = l.streak /\ f.status = "paused" /\ f.why = "session_end"
            /\ f.recovery <=> l.recovery \/ l.status = "running"
            /\ f.retry <=> l.retry \/ l.status = "running"
<1>1. CASE ~Interrupted(l, how)
  BY <1>1 DEF Restarted, Interrupted
<1>2. CASE Interrupted(l, how)
  <2> DEFINE a == l.recovery \/ l.status = "running"
             b == l.retry \/ l.status = "running"
  <2>1. f = [l EXCEPT !.status = "paused", !.why = "session_end", !.recovery = a, !.retry = b]
    BY <1>2, Zenon DEF Restarted, SessionEnd
  <2> HIDE DEF a, b
  <2>2. /\ f.n = l.n /\ f.count = l.count /\ f.full = l.full /\ f.kind = l.kind
        /\ f.streak = l.streak /\ f.status = "paused" /\ f.why = "session_end"
        /\ f.recovery = a /\ f.retry = b
    BY <2>1 DEF Loops
  <2> QED BY <2>2 DEF a, b
<1> QED BY <1>1, <1>2
-----------------------------------------------------------------------------
(***************************************************************************)
(* What the operators on runtimes leave alone.                             *)
(***************************************************************************)
\* r waits for what q waits for, and keeps the outcome q has, or none.
Alike(q, r) ==
  /\ r.awaiting = q.awaiting /\ r.pausedPending = q.pausedPending
  /\ r.pending \in {q.pending, NoOutcome}

\* Setting and clearing timers and outcomes.
LEMMA AlikeSteps ==
  ASSUME NEW r \in Runtimes
  PROVE  /\ Alike(r, Schedule(r)) /\ Alike(r, ClearPending(r)) /\ Alike(r, ClearTimer(r))
         /\ Alike(r, Finally(r)) /\ Alike(r, Kept(r)) /\ \A l : Alike(r, ScheduleIf(l, r))
         /\ ClearPending(r).pending = NoOutcome
<1>1. Alike(r, ClearPending(r)) /\ ClearPending(r).pending = NoOutcome
  BY DEF ClearPending, Alike, Runtimes
<1>2. /\ Alike(r, Schedule(r)) /\ Alike(r, ClearTimer(r)) /\ Alike(r, Finally(r)) /\ Alike(r, r)
  BY DEF Schedule, ClearTimer, Finally, Alike, Runtimes
<1>3. Alike(r, Kept(r))
  BY <1>1, <1>2 DEF Kept
<1>4. \A l : Alike(r, ScheduleIf(l, r))
  BY <1>2 DEF ScheduleIf
<1> QED BY <1>1, <1>2, <1>3, <1>4

\* What is alike stays so.
LEMMA AlikeAgain ==
  ASSUME NEW q, NEW r, NEW s, Alike(q, r), Alike(r, s)
  PROVE  Alike(q, s)
BY DEF Alike

\* Pausing, requeueing, retrying, settling and sending.
LEMMA RuntimeRest ==
  ASSUME NEW r \in Runtimes
  PROVE  /\ AfterPause(r).pausedPending = r.awaiting /\ ~AfterPause(r).awaiting
         /\ AfterPause(r).pending \in {r.pending, NoOutcome}
         /\ AfterRequeue(r).pausedPending = r.pausedPending /\ ~AfterRequeue(r).awaiting
         /\ AfterRequeue(r).pending = NoOutcome
         /\ AfterRetry(r).pausedPending = r.pausedPending /\ ~AfterRetry(r).awaiting
         /\ AfterRetry(r).pending = NoOutcome
         /\ AfterSend(r).pausedPending = FALSE /\ AfterSend(r).awaiting = TRUE
         /\ AfterSend(r).pending = NoOutcome
         /\ ~Taken(r).pausedPending /\ Taken(r).awaiting = r.awaiting /\ Taken(r).pending = r.pending
         /\ Awaits(r).pausedPending = r.pausedPending /\ ~Awaits(r).awaiting /\ Awaits(r).pending = r.pending
<1> DEFINE c == ClearPending(r)
           t == ClearTimer(c)
           q == IF r.awaiting THEN r ELSE c
           u == ClearTimer(q)
<1>1. c \in Runtimes /\ Alike(r, c) /\ c.pending = NoOutcome
  BY RuntimeSteps, AlikeSteps
<1>2. q \in Runtimes /\ Alike(r, q)
  BY <1>1, AlikeSteps DEF Alike
<1> HIDE DEF c, q
<1>3. t \in Runtimes /\ Alike(c, t) /\ u \in Runtimes /\ Alike(q, u)
  BY <1>1, <1>2, RuntimeSteps, AlikeSteps
<1>4. /\ AfterPause(r).pausedPending = r.awaiting /\ ~AfterPause(r).awaiting
      /\ AfterPause(r).pending \in {r.pending, NoOutcome}
  <2> DEFINE a == r.awaiting
  <2>1. AfterPause(r) = [u EXCEPT !.pausedPending = a, !.awaiting = FALSE]
    BY Zenon DEF AfterPause, u, q, c
  <2> HIDE DEF u
  <2>2. AfterPause(r).pausedPending = a /\ ~AfterPause(r).awaiting /\ AfterPause(r).pending = u.pending
    BY <1>3, <2>1 DEF Runtimes
  <2> QED BY <1>1, <1>2, <1>3, <2>2 DEF Alike
<1>5. /\ AfterRequeue(r).pausedPending = r.pausedPending /\ ~AfterRequeue(r).awaiting
      /\ AfterRequeue(r).pending = NoOutcome
  <2> DEFINE d == [t EXCEPT !.awaiting = FALSE]
  <2>1. AfterRequeue(r) = Schedule(d)
    BY DEF AfterRequeue, t, c
  <2> HIDE DEF t
  <2>2. d \in Runtimes /\ ~d.awaiting /\ d.pausedPending = t.pausedPending /\ d.pending = t.pending
    BY <1>3 DEF Runtimes
  <2> HIDE DEF d
  <2>3. Alike(d, Schedule(d))
    BY <2>2, AlikeSteps
  <2> QED BY <1>1, <1>3, <2>1, <2>2, <2>3 DEF Alike
<1>6. /\ AfterRetry(r).pausedPending = r.pausedPending /\ ~AfterRetry(r).awaiting
      /\ AfterRetry(r).pending = NoOutcome
  <2> DEFINE d == [r EXCEPT !.awaiting = FALSE]
             e == ClearPending(d)
             g == ClearTimer(e)
  <2>1. AfterRetry(r) = Schedule(g)
    BY DEF AfterRetry
  <2>2. d \in Runtimes /\ ~d.awaiting /\ d.pausedPending = r.pausedPending
    BY DEF Runtimes
  <2> HIDE DEF d
  <2>3. e \in Runtimes /\ Alike(d, e) /\ e.pending = NoOutcome
    BY <2>2, RuntimeSteps, AlikeSteps
  <2> HIDE DEF e
  <2>4. g \in Runtimes /\ Alike(e, g)
    BY <2>3, RuntimeSteps, AlikeSteps
  <2> HIDE DEF g
  <2>5. Alike(g, Schedule(g))
    BY <2>4, AlikeSteps
  <2> QED BY <2>1, <2>2, <2>3, <2>4, <2>5 DEF Alike
<1>7. /\ AfterSend(r).pausedPending = FALSE /\ AfterSend(r).awaiting = TRUE
      /\ AfterSend(r).pending = NoOutcome
  <2>1. AfterSend(r) = [c EXCEPT !.awaiting = TRUE, !.pausedPending = FALSE, !.timeout = TRUE]
    BY DEF AfterSend, c
  <2> QED BY <1>1, <2>1 DEF Runtimes
<1>8. /\ ~Taken(r).pausedPending /\ Taken(r).awaiting = r.awaiting /\ Taken(r).pending = r.pending
      /\ Awaits(r).pausedPending = r.pausedPending /\ ~Awaits(r).awaiting /\ Awaits(r).pending = r.pending
  BY DEF Taken, Awaits, Runtimes
<1> QED BY <1>4, <1>5, <1>6, <1>7, <1>8
-----------------------------------------------------------------------------
(***************************************************************************)
(* Steps that keep the turn the loop stands at, settle it, or begin one.   *)
(***************************************************************************)
\* r waits for no more than q does.
Lesser(q, r) ==
  /\ r.awaiting => q.awaiting
  /\ r.pausedPending => q.pausedPending
  /\ r.pending \in {q.pending, NoOutcome}

\* The turn stays, wanted or not, or its number is given back.
Carries(f, r) ==
  /\ f.n = file.n /\ f.kind = file.kind
  /\ Coherent(f, r)
  /\ Wanted(f, r) => Wanted(file, rt) /\ f.count = file.count
  /\ \/ f.count = file.count /\ (Counting(f, r) => Counting(file, rt))
     \/ f.count + 1 = file.count /\ Counting(file, rt) /\ ~Counting(f, r)
  /\ r.pending \in {rt.pending, NoOutcome}

\* The run goes on, or is gone.
RunKept ==
  \/ run'.phase = "none"
  \/ /\ Busy /\ run'.of = run.of /\ run'.kind = run.kind /\ run'.send = run.send
     /\ run'.res = run.res

\* Nothing completes the loop.
Quietly == file'.status = "completed" => file.status = "completed"

\* An outcome that is none is no result.
LEMMA NoResult == ~IsResult(NoOutcome)
BY DEF IsResult, NoOutcome, Results

\* The score of a turn that stays.
LEMMA ScoreKept ==
  ASSUME IInv, History, Carries(file', rt'), sends' = sends, results' = results, file'.count \in Nat
  PROVE  Scored'
<1>1. Cardinality(GoalResults) \in Nat /\ GoalResults' = GoalResults
  BY GoalsCounted DEF History, Recorded, GoalResults
<1>2. file.count \in Nat
  BY DEF IInv, Typed, Loops
<1>3. Cardinality(GoalResults) <= file'.count /\ (Counting(file', rt') => Cardinality(GoalResults) < file'.count)
  BY <1>1, <1>2 DEF Carries, History, Scored
<1> QED BY <1>1, <1>3 DEF Carries, History, Scored

\* A step that keeps the turn, while the run goes on or is gone.
LEMMA Carried ==
  ASSUME IInv, History, Carries(file', rt'), RunKept, UNCHANGED <<log, sends, results>>,
         file' \in Loops
  PROVE  History'
<1>1. Scored'
  BY ScoreKept DEF Loops
<1>2. Recorded'
  BY DEF History, Recorded
<1>3. Coherent(file', rt')
  BY DEF Carries
<1>4. Apart'
  BY DEF RunKept, Apart, History, Busy, IsResult
<1>5. Attributed'
  <2> SUFFICES ASSUME Wanted(file', rt')
               PROVE  /\ \A k \in DOMAIN log :
                           k = <<file'.kind, file'.count>> /\ IsResult(log[k].got) => Fresh(log[k].got)'
                      /\ IsResult(rt'.pending) => Fresh(rt.pending)'
                      /\ Busy' /\ run'.kind # "user" => Fresh(run)'
    BY Zenon DEF Attributed
  <2>1. Wanted(file, rt) /\ file'.count = file.count /\ file'.n = file.n /\ file'.kind = file.kind
    BY DEF Carries
  <2>2. \A k \in DOMAIN log :
          k = <<file.kind, file.count>> /\ IsResult(log[k].got) => Fresh(log[k].got)
    BY <2>1 DEF History, Attributed
  <2>3. IsResult(rt'.pending) => Fresh(rt'.pending)
    BY <2>1, NoResult DEF History, Attributed, Carries
  <2>4. Busy' /\ run'.kind # "user" => Fresh(run')
    BY <2>1 DEF History, Attributed, RunKept, Busy, Fresh
  <2> QED BY <2>1, <2>2, <2>3, <2>4 DEF Fresh
<1> QED BY <1>1, <1>2, <1>3, <1>4, <1>5 DEF History

\* A loop that stays, with a runtime that waits for no more.
LEMMA QuietCarries ==
  ASSUME History, Lesser(rt, rt'), file' = file
  PROVE  Carries(file', rt') /\ Quietly
BY DEF History, Lesser, Carries, Quietly, Coherent, Wanted, Counting

\* A loop as it is read, but for what the turn does not depend on.
LEMMA TurnCarries ==
  ASSUME IInv, History, NEW f, NEW r,
         f.n = loop.n, f.kind = loop.kind, f.count = loop.count, Coherent(f, r),
         Wanted(f, r) => Wanted(loop, rt), Counting(f, r) => Counting(loop, rt),
         r.pending \in {rt.pending, NoOutcome}
  PROVE  Carries(f, r)
BY Read DEF Carries

\* The same while the turn runs: it is wanted, whatever becomes of it.
LEMMA RunningCarries ==
  ASSUME IInv, History, loop.status = "running", NEW f, NEW r,
         f.n = loop.n, f.kind = loop.kind, f.count = loop.count, Coherent(f, r),
         r.pending \in {rt.pending, NoOutcome}
  PROVE  Carries(f, r)
BY TurnCarries DEF Wanted, Counting

\* A result of the turn the loop wants, applied.
Settles(l, o, f, r) ==
  /\ f.n = l.n /\ f.count = l.count
  /\ Coherent(f, r) /\ ~Wanted(f, r) /\ ~Counting(f, r)
  /\ f.status = "completed" => l.kind = "verification" /\ o.res = "verified"

\* A result of its own settles the turn, and counts it once.
LEMMA Applied ==
  ASSUME IInv, History, Wanted(file, rt), NEW o \in Outcomes, IsResult(o), Fresh(o),
         Settles(loop, o, file', rt'), results' = Append(results, o), sends' = sends,
         log' \in [Kinds \X Turns -> [open : BOOLEAN, got : Outcomes]], Apart'
  PROVE  History' /\ Proper
<1>1. /\ Len(results') = Len(results) + 1 /\ results' \in Seq(Outcomes)
      /\ results'[Len(results')] = o
      /\ DOMAIN results' = DOMAIN results \cup {Len(results')} /\ Len(results') \notin DOMAIN results
      /\ \A i \in DOMAIN results : results'[i] = results[i]
      /\ Cardinality(GoalResults) \in Nat
      /\ Cardinality(GoalResults') = IF o.kind = "goal" THEN Cardinality(GoalResults) + 1
                                     ELSE Cardinality(GoalResults)
  BY OneMore DEF History, Recorded
<1>2. file'.n = file.n /\ file'.count = file.count /\ file.count \in Nat /\ Len(results) \in Nat
  BY Read DEF Settles, IInv, Typed, Loops, History, Recorded
<1>3. Recorded'
  BY <1>1 DEF History, Recorded
<1>4. Scored'
  <2>1. \A i \in DOMAIN results' : results'[i].of = file'.n /\ results'[i].send <= sends'
    BY <1>1, <1>2 DEF History, Scored, Fresh
  <2>2. \A i, j \in DOMAIN results' : results'[i].send = results'[j].send => i = j
    BY <1>1 DEF History, Scored, Fresh
  <2>3. Cardinality(GoalResults') <= file'.count
    <3>1. o.kind = "goal" => Counting(file, rt)
      BY DEF Fresh, Counting
    <3> QED BY <1>1, <1>2, <3>1 DEF History, Scored
  <2> QED BY <2>1, <2>2, <2>3 DEF Scored, Settles
<1>5. Attributed' /\ Coherent(file', rt')
  BY DEF Attributed, Settles
<1>6. Proper
  BY <1>1, <1>2, Read DEF Proper, Settles, Fresh
<1> QED BY <1>3, <1>4, <1>5, <1>6 DEF History

\* A turn that begins: its number was not counted, and nothing that was there before
\* the prompt is taken for its result.
LEMMA Begun ==
  ASSUME IInv, History, Sendable(loop), NEW l, l = Sent(loop),
         file' \in Loops, file'.n = l.n, file'.kind = l.kind, file'.count = l.count,
         Coherent(file', rt'), rt'.pending = NoOutcome,
         run' = NewRun(l.n, l.kind), log' = Prompted(l), sends' = sends + 1, results' = results
  PROVE  History'
<1>1. Cardinality(GoalResults) \in Nat /\ GoalResults' = GoalResults
  BY GoalsCounted DEF History, Recorded, GoalResults
<1>2. file.count \in Nat /\ sends \in Nat /\ loop \in Loops /\ l.n = loop.n /\ l.kind \in Kinds
  BY Now, SentRest DEF IInv, Typed, Loops, Kinds, Sendable
<1>3. Cardinality(GoalResults) <= l.count /\ (l.kind = "goal" => Cardinality(GoalResults) < l.count)
  <2>1. /\ l.n = loop.n
        /\ loop.status = "verifying" => l.kind = "verification" /\ l.count = loop.count
        /\ loop.status = "queued" => l.kind = "goal" /\ (l.count = loop.count + 1 \/ (FreeRetry(loop) /\ l.count = loop.count))
    BY <1>2, SentRest
  <2>2. loop.status = "queued" /\ FreeRetry(loop) => Counting(file, rt)
    BY Read DEF History, Coherent, Counting, FreeRetry
  <2> QED BY <1>1, <1>2, <2>1, <2>2, Read DEF History, Scored, Sendable
<1>4. Scored'
  <2>1. Counting(file', rt') => l.kind = "goal"
    BY DEF Counting
  <2>2. \A i \in DOMAIN results : results[i].of = file.n /\ results[i].send <= sends /\ results[i].send \in Nat
    <3>1. \A i \in DOMAIN results : results[i] \in Outcomes /\ IsResult(results[i])
      BY DEF History, Recorded
    <3> QED BY <3>1, NoResult DEF History, Scored, Outcomes
  <2>3. \A i \in DOMAIN results : results[i].of = file'.n /\ results[i].send <= sends + 1
    BY <1>2, <2>2, Read
  <2> QED BY <1>1, <1>3, <2>1, <2>3 DEF History, Scored
<1>5. run'.phase = "streaming" /\ run'.of = l.n /\ run'.kind = l.kind /\ run'.send = sends + 1
  BY DEF NewRun, NoRun
<1>6. Recorded' /\ \A k \in DOMAIN log' : k = <<l.kind, l.count>> => log'[k].got = NoOutcome
  <2> DEFINE e == [open |-> TRUE, got |-> NoOutcome]
             x == <<l.kind, l.count>>
  <2>1. log' = [log EXCEPT ![x] = e] /\ e \in [open : BOOLEAN, got : Outcomes] /\ e.got = NoOutcome
    BY Values DEF Prompted
  <2> HIDE DEF e, x
  <2>2. /\ log' \in [Kinds \X Turns -> [open : BOOLEAN, got : Outcomes]]
        /\ \A k \in DOMAIN log' : k = x => log'[k].got = NoOutcome
    BY <2>1 DEF History, Recorded
  <2> QED BY <2>2 DEF History, Recorded, x
<1>7. Attributed'
  <2>1. Fresh(run)'
    <3>1. \A i \in DOMAIN results : results[i].send # sends + 1
      <4>1. \A i \in DOMAIN results : results[i] \in Outcomes /\ IsResult(results[i])
        BY DEF History, Recorded
      <4>2. \A i \in DOMAIN results : results[i].send <= sends /\ results[i].send \in Nat
        BY <4>1, NoResult DEF History, Scored, Outcomes
      <4> QED BY <1>2, <4>2
    <3> QED BY <1>2, <1>5, <3>1 DEF Fresh
  <2> QED BY <1>6, <2>1, NoResult DEF Attributed
<1>8. Apart'
  BY <1>2, <1>5 DEF Apart, Kinds
<1> QED BY <1>4, <1>6, <1>7, <1>8 DEF History
-----------------------------------------------------------------------------
(***************************************************************************)
(* The history, action by action.                                          *)
(***************************************************************************)
Keeps == History' /\ Proper

\* A step that keeps the turn completes nothing.
LEMMA KeepsCarried ==
  ASSUME IInv, History, Carries(file', rt'), RunKept, UNCHANGED <<log, sends, results>>,
         file' \in Loops, Quietly
  PROVE  Keeps
BY Carried DEF Keeps, Proper, Quietly

\* A step that leaves the file alone and waits for no more.
LEMMA KeepsQuiet ==
  ASSUME IInv, History, file' = file, Lesser(rt, rt'), RunKept, UNCHANGED <<log, sends, results>>
  PROVE  Keeps
BY QuietCarries, KeepsCarried DEF IInv, Typed

\* A run that is left alone is kept.
LEMMA SameRun == run' = run => RunKept
BY DEF RunKept, Busy

\* What the timers and the outcome have to do with what is waited for.
LEMMA LesserSteps ==
  ASSUME NEW r \in Runtimes
  PROVE  /\ Lesser(r, r) /\ Lesser(r, Schedule(r)) /\ Lesser(r, ClearPending(r))
         /\ Lesser(r, Finally(r)) /\ Lesser(r, Kept(r)) /\ \A l : Lesser(r, ScheduleIf(l, r))
         /\ Lesser(r, ClearPending(Awaits(r))) /\ Lesser(r, NewRuntime)
<1>1. \A q : Alike(r, q) => Lesser(r, q)
  BY DEF Alike, Lesser
<1>2. Lesser(r, ClearPending(Awaits(r)))
  <2>1. Awaits(r) \in Runtimes
    BY RuntimeSteps
  <2>2. Alike(Awaits(r), ClearPending(Awaits(r)))
    BY <2>1, AlikeSteps
  <2> QED BY <2>2, RuntimeRest DEF Alike, Lesser
<1>3. Lesser(r, NewRuntime) /\ Alike(r, r)
  BY DEF NewRuntime, Lesser, Alike
<1> QED BY <1>1, <1>2, <1>3, AlikeSteps

\* A pause keeps the turn; one that was awaited is wanted still.
LEMMA PausedCarries ==
  ASSUME IInv, History, NEW why, why # "unreadable", NEW r \in Runtimes, Alike(rt, r),
         NEW f, f = Paused(loop, r, why), NEW q, Alike(AfterPause(r), q)
  PROVE  Carries(f, q) /\ f.status # "completed"
<1>1. /\ f.n = loop.n /\ f.count = loop.count /\ f.full = loop.full /\ f.kind = loop.kind
      /\ f.streak = loop.streak /\ f.status = "paused" /\ f.why = why
      /\ f.recovery <=> loop.recovery \/ r.awaiting
      /\ f.retry <=> loop.retry \/ r.awaiting
  BY Now, PausedRest
<1>2. q.pausedPending = rt.awaiting /\ ~q.awaiting /\ q.pending \in {rt.pending, NoOutcome} /\ r.awaiting = rt.awaiting
  BY RuntimeRest DEF Alike
<1>3. Coherent(loop, rt)
  BY Read DEF History
<1>4. Coherent(f, q)
  BY <1>1, <1>2, <1>3 DEF Coherent
<1>5. Wanted(f, q) => Wanted(loop, rt)
  BY <1>1, <1>2, <1>3 DEF Coherent, Wanted
<1>6. Counting(f, q) => Counting(loop, rt)
  BY <1>1, <1>2, <1>3 DEF Coherent, Wanted, Counting
<1> QED BY <1>1, <1>2, <1>4, <1>5, <1>6, TurnCarries

\* A turn that is sent again keeps its number and its kind.
LEMMA RequeuedCarries ==
  ASSUME IInv, History, ~rt.awaiting \/ loop.status = "running",
         NEW f, f = Requeued(loop), NEW q, ~q.awaiting, q.pausedPending = rt.pausedPending,
         q.pending \in {rt.pending, NoOutcome}
  PROVE  Carries(f, q) /\ f.status # "completed"
<1>1. /\ f.n = loop.n /\ f.count = loop.count /\ f.full = loop.full /\ f.kind = loop.kind
      /\ f.streak = loop.streak /\ f.recovery = loop.recovery /\ f.retry = loop.retry
      /\ f.why = "none" /\ f.status = Again(loop)
  BY Now, RequeuedRest
<1>2. Coherent(loop, rt) /\ loop.kind \in Kinds
  BY Read, Now DEF History, Loops
<1>3. Coherent(f, q)
  BY <1>1, <1>2 DEF Coherent, Again, Kinds
<1>4. (Wanted(f, q) => Wanted(loop, rt)) /\ (Counting(f, q) => Counting(loop, rt))
  BY <1>1 DEF Wanted, Counting, Again
<1>5. f.status # "completed"
  BY <1>1 DEF Again
<1> QED BY <1>1, <1>3, <1>4, <1>5, TurnCarries

\* The pause at the limit of the budget.
LEMMA LimitKeeps ==
  ASSUME IInv, History, AtLimit(loop), NEW r \in Runtimes, Alike(rt, r), NEW ok \in BOOLEAN,
         PauseAtLimit(ok, r), RunKept, UNCHANGED <<log, sends, results>>
  PROVE  Keeps
<1>1. CASE ~ok
  <2>1. file' = file /\ Alike(r, rt')
    BY <1>1, AlikeSteps DEF PauseAtLimit
  <2> QED BY <2>1, KeepsQuiet DEF Alike, Lesser
<1>2. CASE ok
  <2> DEFINE f == [loop EXCEPT !.status = "paused", !.why = "turn_limit"]
  <2>1. file' = f /\ rt' = r
    BY <1>2 DEF PauseAtLimit
  <2>2. /\ f \in Loops /\ f.n = loop.n /\ f.count = loop.count /\ f.full = loop.full /\ f.kind = loop.kind
        /\ f.streak = loop.streak /\ f.recovery = loop.recovery /\ f.retry = loop.retry
        /\ f.status = "paused" /\ f.why = "turn_limit"
    BY Now DEF Loops, Statuses, Whys
  <2> HIDE DEF f
  <2>3. Coherent(loop, rt) /\ loop.status = "queued"
    BY Read DEF History, AtLimit
  <2>4. Coherent(f, r)
    BY <2>2, <2>3 DEF Coherent, Alike
  <2>5. (Wanted(f, r) => Wanted(loop, rt)) /\ (Counting(f, r) => Counting(loop, rt))
    BY <2>2 DEF Wanted, Counting, Alike
  <2>6. Carries(f, r)
    BY <2>2, <2>4, <2>5, TurnCarries DEF Alike
  <2> QED BY <2>1, <2>2, <2>6, KeepsCarried DEF Quietly
<1> QED BY <1>1, <1>2

\* The timer.
LEMMA TickKeeps ==
  ASSUME IInv, History, Tick
  PROVE  Keeps
<1> DEFINE r == [rt EXCEPT !.timer = FALSE]
           q == [r EXCEPT !.inFlight = TRUE]
<1>1. r \in Runtimes /\ Alike(rt, r)
  BY Now, Values DEF Runtimes, Alike
<1>2. Alike(rt, q)
  <2> HIDE DEF r
  <2> QED BY <1>1 DEF Runtimes, Alike
<1>3. RunKept /\ UNCHANGED <<log, sends, results>>
  BY SameRun DEF Tick
<1>4. CASE (rt' = r \/ rt' = q) /\ UNCHANGED file
  <2> HIDE DEF r, q
  <2> QED BY <1>1, <1>2, <1>3, <1>4, KeepsQuiet DEF Alike, Lesser
<1>5. CASE AtLimit(loop) /\ \E ok \in BOOLEAN : PauseAtLimit(ok, r)
  <2> HIDE DEF r
  <2> QED BY <1>1, <1>3, <1>5, LimitKeeps
<1> QED BY <1>4, <1>5 DEF Tick

\* Preparations that are put off, end unnoticed or throw.
LEMMA PrepareKeeps ==
  ASSUME IInv, History,
         PrepareDeclined \/ StalePrepareEnds \/ \E ok \in BOOLEAN : PrepareThrows(ok)
  PROVE  Keeps
<1>1. RunKept /\ UNCHANGED <<log, sends, results>>
  BY SameRun DEF PrepareDeclined, StalePrepareEnds, PrepareThrows
<1> DEFINE r == Finally(rt)
<1>2. r \in Runtimes /\ Alike(rt, r) /\ Alike(r, Schedule(r)) /\ Alike(r, ScheduleIf(loop, r))
  <2>1. r \in Runtimes /\ Alike(rt, r)
    BY Now, RuntimeSteps, AlikeSteps
  <2> HIDE DEF r
  <2> QED BY <2>1, AlikeSteps
<1>3. \/ file' = file /\ (rt' = r \/ rt' = Schedule(r) \/ rt' = ScheduleIf(loop, r))
      \/ file' = Paused(loop, r, "scheduler_error") /\ rt' = AfterPause(r)
  BY DEF PrepareDeclined, StalePrepareEnds, PrepareThrows, Finally
<1> HIDE DEF r
<1>4. CASE file' = file /\ (rt' = r \/ rt' = Schedule(r) \/ rt' = ScheduleIf(loop, r))
  BY <1>1, <1>2, <1>4, KeepsQuiet DEF Alike, Lesser
<1>5. CASE file' = Paused(loop, r, "scheduler_error") /\ rt' = AfterPause(r)
  <2>1. Carries(file', rt') /\ file'.status # "completed"
    BY <1>2, <1>5, PausedCarries DEF Alike
  <2>2. file' \in Loops
    BY <1>5, Now, PausedLoop DEF Whys, SameLoop
  <2> QED BY <1>1, <2>1, <2>2, KeepsCarried DEF Quietly
<1> QED BY <1>3, <1>4, <1>5

\* A preparation that comes too late, or whose turn could not be written.
LEMMA AbandonKeeps ==
  ASSUME IInv, History, Abandon \/ DeliverUnwritten
  PROVE  Keeps
<1>1. RunKept /\ UNCHANGED <<log, sends, results>>
  BY SameRun DEF Abandon, DeliverUnwritten
<1> DEFINE r == Finally(rt)
<1>2. r \in Runtimes /\ Alike(rt, r) /\ Alike(r, Schedule(r))
  <2>1. r \in Runtimes /\ Alike(rt, r)
    BY Now, RuntimeSteps, AlikeSteps
  <2> HIDE DEF r
  <2> QED BY <2>1, AlikeSteps
<1>3. \/ file' = file /\ (rt' = r \/ rt' = Schedule(r))
      \/ AtLimit(loop) /\ \E ok \in BOOLEAN : PauseAtLimit(ok, r)
  BY DEF Abandon, DeliverUnwritten
<1> HIDE DEF r
<1>4. CASE file' = file /\ (rt' = r \/ rt' = Schedule(r))
  BY <1>1, <1>2, <1>4, KeepsQuiet DEF Alike, Lesser
<1> QED BY <1>1, <1>2, <1>3, <1>4, LimitKeeps

\* A prompt that is sent, or may have been; only one that was lost is left out.
LEMMA DeliverKeeps ==
  ASSUME IInv, History, Deliver \/ \E ok \in BOOLEAN : DeliverThrows(TRUE, ok)
  PROVE  Keeps
<1> DEFINE l == Sent(loop)
           r == AfterSend(Finally(rt))
           q == ClearTimer(r)
           p == Paused(l, q, "unknown_delivery")
<1>1. /\ Sendable(loop) /\ ~AtLimit(loop) /\ run' = NewRun(l.n, l.kind) /\ log' = Prompted(l)
      /\ sends' = sends + 1 /\ results' = results
      /\ \/ file' = l /\ (rt' = r \/ rt' = q)
         \/ file' = p /\ rt' = AfterPause(q)
  BY DEF Deliver, DeliverThrows, Ready
<1>2. /\ q \in Runtimes /\ r.awaiting /\ ~r.pausedPending /\ r.pending = NoOutcome
      /\ q.awaiting /\ ~q.pausedPending /\ q.pending = NoOutcome
  <2>1. Finally(rt) \in Runtimes
    BY Now, RuntimeSteps
  <2>2. r \in Runtimes /\ r.awaiting /\ ~r.pausedPending /\ r.pending = NoOutcome
    BY <2>1, RuntimeMoves, RuntimeRest
  <2> HIDE DEF r
  <2>3. q \in Runtimes /\ Alike(r, q)
    BY <2>2, RuntimeSteps, AlikeSteps
  <2> QED BY <2>2, <2>3 DEF Alike
<1> HIDE DEF r, q
<1>3. AfterPause(q).pausedPending /\ ~AfterPause(q).awaiting /\ AfterPause(q).pending = NoOutcome
  BY <1>2, RuntimeRest
<1>4. /\ l \in Loops /\ l.full = loop.full /\ l.status = "running" /\ l.why = loop.why
      /\ l.recovery = FALSE /\ l.retry = FALSE
      /\ loop.status = "verifying" => l.kind = "verification"
      /\ loop.status = "queued" => l.kind = "goal"
  BY <1>1, Now, SentLoop, SentRest
<1>5. Coherent(loop, rt)
  BY Read DEF History
<1> USE DEF Sendable
<1>6. (l.full => l.kind = "goal") /\ l.why # "unreadable"
  BY <1>1, <1>4, <1>5 DEF Coherent
<1>7. /\ p \in Loops /\ p.n = l.n /\ p.kind = l.kind /\ p.count = l.count /\ p.full = l.full
      /\ p.status = "paused" /\ p.why = "unknown_delivery"
  <2> HIDE DEF l
  <2>1. SameLoop(l, p)
    BY <1>4, PausedLoop DEF Whys
  <2> QED BY <1>4, <2>1, PausedRest DEF SameLoop
<1> HIDE DEF p
<1>8. file' \in Loops /\ file'.n = l.n /\ file'.kind = l.kind /\ file'.count = l.count
  BY <1>1, <1>4, <1>7
<1>9. Coherent(file', rt') /\ rt'.pending = NoOutcome /\ file'.status # "completed"
  BY <1>1, <1>2, <1>3, <1>4, <1>6, <1>7 DEF Coherent
<1>10. History'
  BY <1>1, <1>8, <1>9, Begun
<1> QED BY <1>9, <1>10 DEF Keeps, Proper
-----------------------------------------------------------------------------
\* What is alike is waited for alike.
LEMMA AlikeReads ==
  ASSUME NEW l, NEW q, NEW r, Alike(q, r)
  PROVE  /\ Coherent(l, q) <=> Coherent(l, r)
         /\ Wanted(l, q) <=> Wanted(l, r)
         /\ Counting(l, q) <=> Counting(l, r)
BY DEF Alike, Coherent, Wanted, Counting

\* A result that comes late is applied to a turn that is wanted, and settles it; or it
\* is not applied, and the turn stays.
Late(l, r, o, late) ==
  /\ late.rt.pending \in {r.pending, NoOutcome}
  /\ \/ /\ late.got = FALSE /\ late.file = l
        /\ \/ late.rt = r
           \/ /\ Wanted(l, r) /\ l.status # "running"
              /\ ~late.rt.awaiting /\ late.rt.pausedPending
     \/ late.got = TRUE /\ late.file \in Loops /\ Wanted(l, r) /\ Settles(l, o, late.file, late.rt)

\* What applying a late result comes to.
LEMMA LateSettles ==
  ASSUME NEW l \in Loops, NEW r \in Runtimes, Coherent(l, r), ~r.awaiting, NEW o,
         NEW bad \in 0 .. 2, NEW late, late = ApplyLate(l, r, o, bad)
  PROVE  Late(l, r, o, late)
<1> DEFINE taken   == Taken(r)
           m       == [l EXCEPT !.recovery = FALSE]
           applied == ApplyResult(m, o)
           held    == l.why = "user" /\ Schedulable(applied)
           p       == Paused(applied, taken, "user")
           b       == [r EXCEPT !.pausedPending = TRUE]
<1>1. CASE ~MayApplyLate(l, r)
  BY <1>1 DEF ApplyLate, Late
<1> SUFFICES ASSUME MayApplyLate(l, r)
             PROVE  Late(l, r, o, late)
  BY <1>1
<1>2. Wanted(l, r) /\ l.status # "running"
  BY DEF MayApplyLate, InterruptedRecovery, Sendable, Wanted
<1>3. taken \in Runtimes /\ ~taken.awaiting /\ ~taken.pausedPending /\ taken.pending = r.pending
  BY RuntimeSteps, RuntimeRest
<1>4. b \in Runtimes /\ b.pausedPending /\ ~b.awaiting /\ b.pending = r.pending
  BY DEF Runtimes
<1>5. m \in Loops /\ m.n = l.n /\ m.count = l.count /\ m.full = l.full /\ m.kind = l.kind
      /\ m.recovery = FALSE
  BY DEF Loops
<1> HIDE DEF m, taken, b
<1>6. /\ applied \in Loops /\ applied.n = l.n /\ applied.count = l.count /\ applied.full = l.full
      /\ applied.recovery = FALSE /\ ~applied.retry /\ applied.streak = 0
      /\ applied.why # "unreadable" /\ applied.status # "running"
      /\ applied.status = "verifying" => applied.kind = "verification"
      /\ applied.status = "queued" \/ applied.full => applied.kind = "goal"
      /\ applied.status = "completed" => l.kind = "verification" /\ o.res = "verified"
  <2>1. m.full => m.kind = "goal"
    BY <1>5 DEF Coherent
  <2>2. applied = ApplyResult(m, o)
    OBVIOUS
  <2> HIDE DEF applied
  <2>3. Outcomed(m, o, applied)
    BY <1>5, <2>1, <2>2, ResultSettles
  <2> QED BY <1>5, <2>3 DEF Outcomed
<1> HIDE DEF applied
<1>7. Settles(l, o, applied, taken) /\ Settles(l, o, applied, ScheduleIf(applied, taken))
      /\ ScheduleIf(applied, taken).pending \in {r.pending, NoOutcome}
  <2>1. Settles(l, o, applied, taken)
    BY <1>3, <1>6 DEF Settles, Coherent, Wanted, Counting
  <2>2. Alike(taken, ScheduleIf(applied, taken))
    BY <1>3, AlikeSteps
  <2>3. Settles(l, o, applied, ScheduleIf(applied, taken))
    BY <2>1, <2>2, AlikeReads DEF Settles
  <2> QED BY <1>3, <2>1, <2>2, <2>3 DEF Alike
<1>8. /\ p \in Loops /\ Settles(l, o, p, AfterPause(taken))
      /\ AfterPause(taken).pending \in {r.pending, NoOutcome}
  <2>1. /\ p.n = applied.n /\ p.count = applied.count /\ p.full = applied.full /\ p.kind = applied.kind
        /\ p.streak = applied.streak /\ p.status = "paused" /\ p.why = "user"
        /\ p.recovery <=> applied.recovery \/ taken.awaiting
        /\ p.retry <=> applied.retry \/ taken.awaiting
    BY <1>6, PausedRest
  <2>2. p \in Loops
    BY <1>6, PausedLoop DEF SameLoop, Whys
  <2>3. /\ ~AfterPause(taken).pausedPending /\ ~AfterPause(taken).awaiting
        /\ AfterPause(taken).pending \in {r.pending, NoOutcome}
    BY <1>3, RuntimeRest
  <2> HIDE DEF p
  <2> QED BY <1>3, <1>6, <2>1, <2>2, <2>3 DEF Settles, Coherent, Wanted, Counting
<1> HIDE DEF p, held
<1>9. \/ late = [done |-> FALSE, got |-> FALSE, file |-> l, rt |-> b]
      \/ late = [done |-> FALSE, got |-> TRUE, file |-> applied, rt |-> taken]
      \/ late = [done |-> TRUE, got |-> TRUE, file |-> p, rt |-> AfterPause(taken)]
      \/ late = [done |-> TRUE, got |-> TRUE, file |-> applied, rt |-> ScheduleIf(applied, taken)]
  <2>1. late = IF bad = 1 THEN [done |-> FALSE, got |-> FALSE, file |-> l, rt |-> b]
               ELSE IF held /\ bad = 2 THEN [done |-> FALSE, got |-> TRUE, file |-> applied, rt |-> taken]
               ELSE IF held THEN [done |-> TRUE, got |-> TRUE, file |-> p, rt |-> AfterPause(taken)]
               ELSE [done |-> TRUE, got |-> TRUE, file |-> applied, rt |-> ScheduleIf(applied, taken)]
    BY Zenon DEF ApplyLate, taken, applied, m, held, p, b
  <2> QED BY <2>1
<1>10. CASE late = [done |-> FALSE, got |-> FALSE, file |-> l, rt |-> b]
  BY <1>2, <1>4, <1>10 DEF Late
<1>11. CASE late = [done |-> FALSE, got |-> TRUE, file |-> applied, rt |-> taken]
  BY <1>2, <1>3, <1>6, <1>7, <1>11 DEF Late
<1>12. CASE late = [done |-> TRUE, got |-> TRUE, file |-> p, rt |-> AfterPause(taken)]
  BY <1>2, <1>8, <1>12 DEF Late
<1>13. CASE late = [done |-> TRUE, got |-> TRUE, file |-> applied, rt |-> ScheduleIf(applied, taken)]
  BY <1>2, <1>6, <1>7, <1>13 DEF Late
<1> QED BY <1>9, <1>10, <1>11, <1>12, <1>13

\* So, of the loop that is read, or of one that was just paused.
LEMMA LateOutcome ==
  ASSUME IInv, History, NEW l \in Loops, NEW r \in Runtimes,
         l.n = loop.n, l.kind = loop.kind, l.count = loop.count, l.status # "completed",
         Coherent(l, r), ~r.awaiting, r.pending \in {rt.pending, NoOutcome},
         Wanted(l, r) => Wanted(loop, rt), Counting(l, r) => Counting(loop, rt),
         NEW o, NEW bad \in 0 .. 2, NEW late, late = ApplyLate(l, r, o, bad),
         file' = late.file, Alike(late.rt, rt'), Score(late.got, o)
  PROVE  /\ file' \in Loops
         /\ \/ Carries(file', rt') /\ Quietly /\ results' = results
            \/ Wanted(file, rt) /\ Settles(loop, o, file', rt') /\ results' = Append(results, o)
<1>0. Late(l, r, o, late)
  BY LateSettles
<1>1. rt'.pending \in {rt.pending, NoOutcome}
  BY <1>0 DEF Late, Alike
<1>2. CASE late.got = FALSE /\ late.file = l /\ late.rt = r
  <2>1. Coherent(l, rt') /\ (Wanted(l, rt') => Wanted(loop, rt)) /\ (Counting(l, rt') => Counting(loop, rt))
    BY <1>2, AlikeReads
  <2> QED BY <1>1, <1>2, <2>1, TurnCarries DEF Quietly, Score
<1>3. CASE /\ late.got = FALSE /\ late.file = l /\ Wanted(l, r) /\ l.status # "running"
           /\ ~late.rt.awaiting /\ late.rt.pausedPending
  <2>1. Coherent(l, rt')
    BY <1>3 DEF Coherent, Alike
  <2>2. Wanted(loop, rt) /\ (Counting(l, rt') => Counting(loop, rt))
    BY <1>3 DEF Counting
  <2> QED BY <1>1, <1>3, <2>1, <2>2, TurnCarries DEF Quietly, Score
<1>4. CASE late.got = TRUE /\ late.file \in Loops /\ Wanted(l, r) /\ Settles(l, o, late.file, late.rt)
  <2>1. Settles(loop, o, file', rt')
    BY <1>4, AlikeReads DEF Settles
  <2> QED BY <1>4, <2>1, Read DEF Score
<1> QED BY <1>0, <1>2, <1>3, <1>4 DEF Late

\* The run goes on, and what it shut off stays shut.
LEMMA ApartKept == History /\ RunKept /\ UNCHANGED log => Apart'
BY DEF History, Apart, RunKept, Busy, IsResult

\* A late result while the run goes on.
LEMMA LateKeeps ==
  ASSUME IInv, History, RunKept, UNCHANGED <<log, sends>>, NEW o \in Outcomes, IsResult(o),
         Wanted(file, rt) => Fresh(o), file' \in Loops,
         \/ Carries(file', rt') /\ Quietly /\ results' = results
         \/ Wanted(file, rt) /\ Settles(loop, o, file', rt') /\ results' = Append(results, o)
  PROVE  Keeps
<1>1. CASE Carries(file', rt') /\ Quietly /\ results' = results
  BY <1>1, KeepsCarried
<1>2. CASE Wanted(file, rt) /\ Settles(loop, o, file', rt') /\ results' = Append(results, o)
  <2>1. Apart'
    BY ApartKept
  <2>2. log' \in [Kinds \X Turns -> [open : BOOLEAN, got : Outcomes]]
    BY DEF History, Recorded
  <2>3. History' /\ Proper
    BY <1>2, <2>1, <2>2, Applied
  <2> QED BY <2>3 DEF Keeps
<1> QED BY <1>1, <1>2

\* What the transcript holds of the turn that is wanted is its own.
LEMMA LateResultFresh ==
  ASSUME IInv, History, NEW l, l.kind = loop.kind, l.count = loop.count, l.recovery = loop.recovery,
         NEW o, o = LateResult(l, rt), IsResult(o)
  PROVE  o \in Outcomes /\ Wanted(file, rt) /\ Fresh(o)
<1> DEFINE k == <<l.kind, l.count>>
<1>1. (rt.pausedPending \/ l.recovery) /\ l.count \in Turns /\ o = log[k].got
  BY NoResult DEF LateResult
<1>2. Wanted(file, rt)
  BY <1>1, Read DEF Wanted
<1>3. k \in DOMAIN log /\ log[k] \in [open : BOOLEAN, got : Outcomes]
  BY <1>1, Now DEF History, Recorded, Loops
<1>4. k = <<file.kind, file.count>>
  BY Read
<1> QED BY <1>1, <1>2, <1>3, <1>4 DEF History, Attributed

\* The watchdog, and a compaction that is over.
LEMMA RecoverKeeps ==
  ASSUME IInv, History, NEW ok \in BOOLEAN, Watchdog(ok) \/ Compacted(ok)
  PROVE  Keeps
<1>1. RunKept /\ UNCHANGED <<log, sends>>
  BY SameRun DEF Watchdog, Compacted
<1>2. Coherent(loop, rt)
  BY Read DEF History
<1>3. CASE AutoPaused(loop) /\ file' = Requeued(loop) /\ rt' = AfterRequeue(rt) /\ results' = results
  <2>1. ~rt.awaiting
    BY <1>2, <1>3 DEF Coherent, AutoPaused
  <2>2. Carries(file', rt') /\ file'.status # "completed" /\ file' \in Loops
    BY <1>3, <2>1, Now, RuntimeRest, RequeuedCarries, RequeuedLoop DEF SameLoop
  <2> QED BY <1>1, <1>3, <2>2, KeepsCarried DEF Quietly
<1>4. CASE UNCHANGED <<file, results>> /\ (rt' = rt \/ rt' = Schedule(rt))
  BY <1>1, <1>4, Now, LesserSteps, KeepsQuiet
<1>5. CASE /\ loop.status = "running" /\ ~rt.awaiting
           /\ file' = [loop EXCEPT !.status = Again(loop)] /\ rt' = Schedule(rt) /\ results' = results
  <2> DEFINE s == Again(loop)
  <2>1. s \in {"queued", "verifying"} /\ s \in Statuses
        /\ (s = "verifying" => loop.kind = "verification") /\ (s = "queued" => loop.kind = "goal")
    BY Now DEF Again, Statuses, Loops, Kinds
  <2>2. file' = [loop EXCEPT !.status = s]
    BY <1>5
  <2> HIDE DEF s
  <2>3. /\ file' \in Loops /\ file'.n = loop.n /\ file'.kind = loop.kind /\ file'.count = loop.count
        /\ file'.status = s /\ file'.full = loop.full /\ file'.why = loop.why
    BY <2>1, <2>2, Now DEF Loops
  <2>4. Alike(rt, rt')
    BY <1>5, Now, AlikeSteps
  <2>5. Coherent(file', rt')
    BY <1>2, <1>5, <2>1, <2>3, <2>4 DEF Coherent, Alike
  <2>6. Carries(file', rt')
    BY <1>5, <2>3, <2>4, <2>5, RunningCarries DEF Alike
  <2> QED BY <1>1, <1>5, <2>1, <2>3, <2>6, KeepsCarried DEF Quietly
<1>6. ASSUME AutoPaused(loop), NEW o, IsResult(o), o = rt.pending \/ o = LateResult(loop, rt),
             NEW bad \in 0 .. 2, NEW late, late = ApplyLate(loop, rt, o, bad), file' = late.file,
             rt' = IF late.done THEN ClearPending(late.rt) ELSE late.rt, Score(late.got, o)
      PROVE  Keeps
  <2>1. ~rt.awaiting /\ loop.status # "completed"
    BY <1>2, <1>6 DEF Coherent, AutoPaused
  <2>2. late.rt \in Runtimes
    BY <1>6, Now, LateRuntime
  <2>3. Alike(late.rt, rt')
    BY <1>6, <2>2, AlikeSteps DEF Alike
  <2>4. o \in Outcomes /\ (Wanted(file, rt) => Fresh(o))
    BY <1>6, Now, LateResultFresh DEF Runtimes, History, Attributed
  <2>5. /\ file' \in Loops
        /\ \/ Carries(file', rt') /\ Quietly /\ results' = results
           \/ Wanted(file, rt) /\ Settles(loop, o, file', rt') /\ results' = Append(results, o)
    BY <1>2, <1>6, <2>1, <2>3, Now, LateOutcome
  <2> QED BY <1>1, <1>6, <2>4, <2>5, LateKeeps
<1>7. CASE Watchdog(ok)
  <2> DEFINE o == IF IsResult(rt.pending) THEN rt.pending ELSE LateResult(loop, rt)
             bad == IF ok THEN 0 ELSE 1
             late == ApplyLate(loop, rt, o, bad)
  <2>1. CASE AutoPaused(loop) /\ IsResult(o) /\ file' = late.file /\ Score(late.got, o)
             /\ rt' = IF late.done THEN ClearPending(late.rt) ELSE late.rt
    <3>1. bad \in 0 .. 2 /\ (o = rt.pending \/ o = LateResult(loop, rt))
      OBVIOUS
    <3> HIDE DEF late, o, bad
    <3> QED BY <1>6, <2>1, <3>1 DEF late
  <2>2. \/ AutoPaused(loop) /\ IsResult(o) /\ file' = late.file /\ Score(late.got, o)
             /\ rt' = IF late.done THEN ClearPending(late.rt) ELSE late.rt
        \/ AutoPaused(loop) /\ file' = Requeued(loop) /\ rt' = AfterRequeue(rt) /\ results' = results
        \/ UNCHANGED <<file, results>> /\ (rt' = rt \/ rt' = Schedule(rt))
        \/ /\ loop.status = "running" /\ ~rt.awaiting
           /\ file' = [loop EXCEPT !.status = Again(loop)] /\ rt' = Schedule(rt) /\ results' = results
    <3> HIDE DEF late, o
    <3> QED BY <1>7 DEF Watchdog, Idle, late, o, bad
  <2> HIDE DEF late, o
  <2> QED BY <1>3, <1>4, <1>5, <2>1, <2>2
<1>8. CASE Compacted(ok)
  BY <1>3, <1>4, <1>8 DEF Compacted
<1> QED BY <1>7, <1>8

\* A run that is aborted is the same run.
LEMMA AbortedSame ==
  ASSUME IInv, NEW why \in Aborts, run' = AbortRun(why)
  PROVE  RunKept
BY Now DEF AbortRun, RunKept, Busy, Runs

\* The clock and the user's pause keep the turn.
LEMMA TimeoutKeeps ==
  ASSUME IInv, History, \E ok \in BOOLEAN : TurnTimeout(ok) \/ Pause(ok)
  PROVE  Keeps
<1>1. UNCHANGED <<log, sends, results>>
  BY DEF TurnTimeout, Pause
<1>2. CASE UNCHANGED <<file, rt, run>>
  BY <1>1, <1>2, Now, SameRun, LesserSteps, KeepsQuiet
<1>3. ASSUME NEW why \in {"turn_timeout", "user"}, file' = Paused(loop, rt, why),
             rt' = AfterPause(rt), run' = AbortRun("abort")
      PROVE  Keeps
  <2>1. RunKept
    BY <1>3, Values, AbortedSame
  <2>2. Alike(rt, rt) /\ Alike(AfterPause(rt), rt')
    BY <1>3 DEF Alike
  <2>3. Carries(file', rt') /\ file'.status # "completed"
    BY <1>3, <2>2, Now, PausedCarries
  <2>4. file' \in Loops
    BY <1>3, Now, PausedLoop DEF Whys, SameLoop
  <2> QED BY <1>1, <2>1, <2>3, <2>4, KeepsCarried DEF Quietly
<1> QED BY <1>2, <1>3 DEF TurnTimeout, Pause
-----------------------------------------------------------------------------
(***************************************************************************)
(* The run ends: its last message, and the outcome that is noted.          *)
(***************************************************************************)
\* What turn_end writes to the transcript.
Ended(o) ==
  log' = [k \in DOMAIN log |-> IF log[k].open /\ IsResult(o) THEN [log[k] EXCEPT !.got = o] ELSE log[k]]

\* The outcome of a run is its own.
Told(res, o) ==
  /\ o \in Outcomes /\ o.res = res /\ o.of = run.of /\ o.kind = run.kind /\ o.send = run.send
  /\ IsResult(o) => run.kind # "user" /\ (Wanted(file, rt) => Fresh(o))

\* The transcript stays one, and says of each turn what it said, or what has just come.
LEMMA EndedLog ==
  ASSUME History, NEW o \in Outcomes, Ended(o)
  PROVE  /\ log' \in [Kinds \X Turns -> [open : BOOLEAN, got : Outcomes]]
         /\ DOMAIN log' = DOMAIN log
         /\ \A k \in DOMAIN log : /\ log'[k].open = log[k].open
                                  /\ log'[k].got = log[k].got \/ (IsResult(o) /\ log'[k].got = o)
<1>1. log \in [Kinds \X Turns -> [open : BOOLEAN, got : Outcomes]]
  BY DEF History, Recorded
<1>2. \A k \in DOMAIN log : log[k] \in [open : BOOLEAN, got : Outcomes]
  BY <1>1
<1>3. \A k \in DOMAIN log :
        log'[k] = (IF log[k].open /\ IsResult(o) THEN [log[k] EXCEPT !.got = o] ELSE log[k])
  BY DEF Ended
<1>4. \A k \in DOMAIN log :
        /\ log'[k] \in [open : BOOLEAN, got : Outcomes]
        /\ log'[k].open = log[k].open
        /\ log'[k].got = log[k].got \/ (IsResult(o) /\ log'[k].got = o)
  <2> SUFFICES ASSUME NEW k \in DOMAIN log
               PROVE  /\ log'[k] \in [open : BOOLEAN, got : Outcomes]
                      /\ log'[k].open = log[k].open
                      /\ log'[k].got = log[k].got \/ (IsResult(o) /\ log'[k].got = o)
    OBVIOUS
  <2> DEFINE e == log[k]
             d == [e EXCEPT !.got = o]
  <2>1. e \in [open : BOOLEAN, got : Outcomes]
    BY <1>2
  <2>2. log'[k] = e \/ (IsResult(o) /\ log'[k] = d)
    BY <1>3
  <2> HIDE DEF e
  <2>3. d \in [open : BOOLEAN, got : Outcomes] /\ d.open = e.open /\ d.got = o
    BY <2>1
  <2> HIDE DEF d
  <2> QED BY <2>1, <2>2, <2>3 DEF e
<1>5. DOMAIN log' = DOMAIN log /\ DOMAIN log = Kinds \X Turns
  BY <1>1 DEF Ended
<1>6. log' = [k \in Kinds \X Turns |-> log'[k]]
  BY <1>5 DEF Ended
<1>7. log' \in [Kinds \X Turns -> [open : BOOLEAN, got : Outcomes]]
  BY <1>4, <1>5, <1>6
<1> QED BY <1>4, <1>5, <1>7

\* A turn of the user's own ends without touching what the transcript says of the others.
LEMMA EndedApart ==
  ASSUME IInv, History, run.phase = "streaming", NEW res \in Words, NEW o, Told(res, o), Ended(o),
         run' = [run EXCEPT !.phase = "turned", !.res = res]
  PROVE  Apart'
<1>1. /\ run'.phase = "turned" /\ run'.res = res /\ run'.of = run.of /\ run'.kind = run.kind
      /\ run'.send = run.send
  BY Now DEF Runs
<1>2. SUFFICES ASSUME run.kind = "user"
               PROVE  run'.of = 0 /\ ~IsResult(run') /\ \A k \in DOMAIN log' : ~log'[k].open
  BY <1>1, Zenon DEF Apart
<1>3. run.of = 0 /\ \A k \in DOMAIN log : ~log[k].open
  BY <1>2 DEF History, Apart, Busy
<1>4. ~IsResult(run')
  BY <1>1, <1>2 DEF Told, IsResult
<1> QED BY <1>1, <1>3, <1>4, EndedLog DEF Told

\* The turn stays, and its run has ended.
LEMMA EndedCarries ==
  ASSUME IInv, History, run.phase = "streaming", NEW res \in Words, NEW o, Told(res, o), Ended(o),
         run' = [run EXCEPT !.phase = "turned", !.res = res],
         Carries(file', rt'), Quietly, file' \in Loops, sends' = sends, results' = results
  PROVE  Keeps
<1>1. /\ run'.phase = "turned" /\ run'.res = res /\ run'.of = run.of /\ run'.kind = run.kind
      /\ run'.send = run.send
  BY Now DEF Runs
<1>2. /\ log' \in [Kinds \X Turns -> [open : BOOLEAN, got : Outcomes]]
      /\ DOMAIN log' = DOMAIN log
      /\ \A k \in DOMAIN log : log'[k].got = log[k].got \/ (IsResult(o) /\ log'[k].got = o)
  BY EndedLog DEF Told
<1>3. Scored' /\ Apart'
  BY ScoreKept, EndedApart DEF Loops
<1>4. Recorded' /\ Coherent(file', rt')
  BY <1>2 DEF History, Recorded, Carries
<1>5. Attributed'
  <2> SUFFICES ASSUME Wanted(file', rt')
               PROVE  /\ \A k \in DOMAIN log' :
                           k = <<file'.kind, file'.count>> /\ IsResult(log'[k].got) => Fresh(log[k].got)'
                      /\ IsResult(rt'.pending) => Fresh(rt.pending)'
                      /\ Busy' /\ run'.kind # "user" => Fresh(run)'
    BY Zenon DEF Attributed
  <2>1. Wanted(file, rt) /\ file'.count = file.count /\ file'.n = file.n /\ file'.kind = file.kind
    BY DEF Carries
  <2>2. \A k \in DOMAIN log' :
          k = <<file.kind, file.count>> /\ IsResult(log'[k].got) => Fresh(log'[k].got)
    BY <1>2, <2>1 DEF History, Attributed, Told
  <2>3. IsResult(rt'.pending) => Fresh(rt'.pending)
    BY <2>1, NoResult DEF History, Attributed, Carries
  <2>4. Busy' /\ run'.kind # "user" => Fresh(run')
    BY <1>1, <2>1 DEF History, Attributed, Busy, Fresh
  <2> QED BY <2>1, <2>2, <2>3, <2>4 DEF Fresh
<1>6. History'
  BY <1>3, <1>4, <1>5 DEF History
<1> QED BY <1>6 DEF Keeps, Proper, Quietly

\* turn_end.
LEMMA TurnEndKeeps ==
  ASSUME IInv, History, NEW res \in Words, NEW bad \in 0 .. 2, TurnEnd(res, bad),
         run.of = 0 => res \notin Results
  PROVE  Keeps
<1> DEFINE o == [Outcome EXCEPT !.res = res]
           late == ApplyLate(loop, rt, o, bad)
<1>1. /\ run.phase = "streaming" /\ sends' = sends
      /\ run' = [run EXCEPT !.phase = "turned", !.res = res] /\ Ended(o)
  BY DEF TurnEnd, Ended
<1>2. Told(res, o)
  <2>1. o = [res |-> res, of |-> run.of, kind |-> run.kind, send |-> run.send]
    BY DEF Outcome
  <2> HIDE DEF o
  <2>2. o \in Outcomes /\ o.res = res /\ o.of = run.of /\ o.kind = run.kind /\ o.send = run.send
    BY <2>1, Now DEF Outcomes, Runs
  <2>3. IsResult(o) => run.kind # "user" /\ (Wanted(file, rt) => Fresh(o))
    <3> SUFFICES ASSUME IsResult(o) PROVE run.kind # "user" /\ (Wanted(file, rt) => Fresh(o))
      OBVIOUS
    <3>1. run.of # 0
      BY <2>2 DEF IsResult
    <3>2. run.kind # "user"
      BY <1>1, <3>1 DEF History, Apart, Busy
    <3> QED BY <1>1, <2>2, <3>2 DEF History, Attributed, Busy, Fresh
  <2> QED BY <2>2, <2>3 DEF Told
<1> HIDE DEF o
<1>3. CASE UNCHANGED <<file, rt, results>>
  <2>1. Carries(file', rt') /\ Quietly /\ file' \in Loops
    BY <1>3, Now, LesserSteps, QuietCarries DEF IInv, Typed
  <2> QED BY <1>1, <1>2, <1>3, <2>1, EndedCarries
<1>4. CASE /\ ~rt.awaiting /\ IsResult(o)
           /\ loop.status = "paused" \/ InterruptedRecovery(loop)
           /\ file' = late.file /\ rt' = late.rt /\ Score(late.got, o)
  <2>1. Coherent(loop, rt) /\ loop.status # "completed" /\ ~rt.awaiting
    BY <1>4, Read DEF History, Coherent, InterruptedRecovery, Sendable
  <2>2. late = ApplyLate(loop, rt, o, bad)
    OBVIOUS
  <2> HIDE DEF late
  <2>3. Alike(late.rt, rt')
    BY <1>4 DEF Alike
  <2>4. /\ file' \in Loops
        /\ \/ Carries(file', rt') /\ Quietly /\ results' = results
           \/ Wanted(file, rt) /\ Settles(loop, o, file', rt') /\ results' = Append(results, o)
    BY <1>4, <2>1, <2>2, <2>3, Now, LateOutcome
  <2>5. CASE Carries(file', rt') /\ Quietly /\ results' = results
    BY <1>1, <1>2, <2>4, <2>5, EndedCarries
  <2>6. CASE Wanted(file, rt) /\ Settles(loop, o, file', rt') /\ results' = Append(results, o)
    <3>1. /\ log' \in [Kinds \X Turns -> [open : BOOLEAN, got : Outcomes]]
          /\ Apart'
      BY <1>1, <1>2, EndedLog, EndedApart DEF Told
    <3>2. o \in Outcomes /\ IsResult(o) /\ Fresh(o)
      BY <1>2, <1>4, <2>6 DEF Told
    <3>3. History' /\ Proper
      BY <1>1, <2>6, <3>1, <3>2, Applied
    <3> QED BY <3>3 DEF Keeps
  <2> QED BY <2>4, <2>5, <2>6
<1> HIDE DEF late
<1> QED BY <1>3, <1>4 DEF TurnEnd, o, late

\* A run ends well or badly; what a user writes himself holds no result.
LEMMA RunEndKeeps ==
  ASSUME IInv, History, Imitated = {}
  PROVE  /\ RunEnds => Keeps
         /\ \A res \in Errors \cup {"missing"} : EndsBadly(res) => Keeps
<1>1. ASSUME NEW res \in Results \cup {"missing"}, NEW bad \in 0 .. 2, Ends(res, bad)
      PROVE  Keeps
  <2>1. TurnEnd(res, bad) /\ (run.of = 0 => res \notin Results)
    BY <1>1 DEF Ends, Results
  <2> QED BY <2>1, TurnEndKeeps DEF Words
<1>2. ASSUME NEW res \in Errors \cup {"missing"}, EndsBadly(res)
      PROVE  Keeps
  <2>1. TurnEnd(res, 0) /\ run.of # 0 /\ 0 \in 0 .. 2 /\ res \in Words
    BY <1>2 DEF EndsBadly, Words
  <2> QED BY <2>1, TurnEndKeeps
<1> QED BY <1>1, <1>2 DEF RunEnds

\* agent_end: the outcome that is noted is the run's.
LEMMA AgentEndKeeps ==
  ASSUME IInv, History, AgentEnd
  PROVE  Keeps
<1> DEFINE o == Outcome
           a == run.aborted
<1>1. /\ run.phase = "turned" /\ run' = [run EXCEPT !.phase = "ended"]
      /\ UNCHANGED <<file, log, sends, results>>
      /\ rt' = rt \/ rt' = [rt EXCEPT !.pending = o, !.aborted = a]
  BY DEF AgentEnd
<1>2. o \in Outcomes /\ o.res = run.res /\ o.of = run.of /\ o.kind = run.kind /\ o.send = run.send
  BY Now DEF Outcome, Outcomes, Runs
<1> HIDE DEF o, a
<1>3. RunKept
  BY <1>1, Now DEF RunKept, Busy, Runs
<1>4. CASE rt' = rt
  BY <1>1, <1>3, <1>4, Now, LesserSteps, KeepsQuiet
<1>5. CASE rt' = [rt EXCEPT !.pending = o, !.aborted = a]
  <2>1. rt'.awaiting = rt.awaiting /\ rt'.pausedPending = rt.pausedPending /\ rt'.pending = o
    BY <1>5, Now DEF Runtimes
  <2>2. /\ Coherent(file, rt') /\ (Wanted(file, rt') <=> Wanted(file, rt))
        /\ Counting(file, rt') <=> Counting(file, rt)
    BY <2>1 DEF History, Coherent, Wanted, Counting
  <2>3. Recorded' /\ Scored'
    BY <1>1, <2>2 DEF History, Recorded, Scored, GoalResults
  <2>4. Apart'
    BY <1>1, <1>3, ApartKept
  <2>5. Attributed'
    <3> SUFFICES ASSUME Wanted(file, rt)
                 PROVE  /\ \A k \in DOMAIN log :
                             k = <<file.kind, file.count>> /\ IsResult(log[k].got) => Fresh(log[k].got)
                        /\ IsResult(o) => Fresh(o)
                        /\ Busy' /\ run'.kind # "user" => Fresh(run')
      BY <1>1, <2>1, <2>2 DEF Attributed, Fresh
    <3>1. IsResult(o) => Fresh(o)
      <4>1. IsResult(o) => IsResult(run)
        BY <1>2 DEF IsResult
      <4>2. Busy
        BY <1>1 DEF Busy
      <4> QED BY <1>2, <4>1, <4>2 DEF History, Apart, Attributed, Fresh
    <3>2. Busy' /\ run'.kind # "user" => Fresh(run')
      BY <1>3 DEF RunKept, History, Attributed, Busy, Fresh
    <3> QED BY <3>1, <3>2 DEF History, Attributed
  <2> QED BY <1>1, <2>2, <2>3, <2>4, <2>5 DEF Keeps, History, Proper
<1> QED BY <1>1, <1>4, <1>5
-----------------------------------------------------------------------------
(***************************************************************************)
(* agent_settled, branch by branch.                                        *)
(***************************************************************************)
\* The settlement of a run takes nothing from the transcript and begins nothing.
Closes == RunKept /\ UNCHANGED <<log, sends>>

\* Settlements that find nothing to settle wait for no more than before.
LEMMA SettleQuietKeeps ==
  ASSUME IInv, History, Closes, SettleUnused \/ SettleDiscarded \/ SettleIdle
  PROVE  Keeps
<1> DEFINE c == ClearPending(rt)
           d == [c EXCEPT !.discard = FALSE]
           e == [c EXCEPT !.discard = FALSE, !.awaiting = FALSE, !.pausedPending = FALSE]
<1>1. UNCHANGED <<file, results>>
  BY DEF SettleUnused, SettleDiscarded, SettleIdle
<1>2. c \in Runtimes /\ Lesser(rt, c)
  BY Now, RuntimeSteps, LesserSteps
<1>3. \/ rt' = c \/ rt' = e \/ rt' = d \/ rt' = ScheduleIf(loop, d)
      \/ rt' = ClearPending(Awaits(rt)) \/ rt' = ScheduleIf(loop, c)
  <2> HIDE DEF c
  <2> QED BY DEF SettleUnused, SettleDiscarded, SettleIdle, c
<1> HIDE DEF c
<1>4. d \in Runtimes /\ Lesser(rt, d) /\ Lesser(rt, e)
  BY <1>2 DEF Runtimes, Lesser
<1> HIDE DEF d, e
<1>5. Lesser(rt, ScheduleIf(loop, d)) /\ Lesser(rt, ScheduleIf(loop, c)) /\ Lesser(rt, ClearPending(Awaits(rt)))
  <2>1. Lesser(d, ScheduleIf(loop, d)) /\ Lesser(c, ScheduleIf(loop, c)) /\ Lesser(rt, ClearPending(Awaits(rt)))
    BY <1>2, <1>4, Now, LesserSteps
  <2> QED BY <1>2, <1>4, <2>1 DEF Lesser
<1>6. Lesser(rt, rt')
  BY <1>2, <1>3, <1>4, <1>5
<1> QED BY <1>1, <1>6, KeepsQuiet DEF Closes

\* The outcome the runtime holds, applied late or not.
LEMMA SettleLate ==
  ASSUME IInv, History, Closes, NEW l \in Loops, NEW r \in Runtimes,
         l.n = loop.n, l.kind = loop.kind, l.count = loop.count, l.status # "completed",
         Coherent(l, r), ~r.awaiting, r.pending \in {rt.pending, NoOutcome},
         Wanted(l, r) => Wanted(loop, rt), Counting(l, r) => Counting(loop, rt),
         IsResult(rt.pending),
         NEW bad \in 0 .. 2, NEW late, late = ApplyLate(l, r, rt.pending, bad),
         file' = late.file, rt' = IF late.done THEN ClearPending(late.rt) ELSE late.rt,
         Score(late.got, rt.pending)
  PROVE  Keeps
<1> DEFINE o == rt.pending
<1>1. late.rt \in Runtimes
  BY LateRuntime
<1>2. Alike(late.rt, rt')
  BY <1>1, AlikeSteps DEF Alike
<1>3. o \in Outcomes /\ IsResult(o) /\ (Wanted(file, rt) => Fresh(o))
  BY Now DEF Runtimes, History, Attributed
<1>4. late = ApplyLate(l, r, o, bad) /\ Score(late.got, o)
  OBVIOUS
<1>5. r.pending \in {rt.pending, NoOutcome}
  OBVIOUS
<1> HIDE DEF o
<1>6. /\ file' \in Loops
      /\ \/ Carries(file', rt') /\ Quietly /\ results' = results
         \/ Wanted(file, rt) /\ Settles(loop, o, file', rt') /\ results' = Append(results, o)
  BY <1>2, <1>4, <1>5, LateOutcome
<1> QED BY <1>3, <1>6, LateKeeps DEF Closes

\* The settlement of a paused turn.
LEMMA SettlePausedKeeps ==
  ASSUME IInv, History, Closes, NEW bad \in 0 .. 2, SettlePaused(bad)
  PROVE  Keeps
<1> DEFINE late == ApplyLate(loop, rt, rt.pending, bad)
<1>1. loop.status = "paused" /\ ~rt.awaiting
  BY DEF SettlePaused
<1>2. CASE /\ IsResult(rt.pending) /\ file' = late.file /\ Score(late.got, rt.pending)
           /\ rt' = IF late.done THEN ClearPending(late.rt) ELSE late.rt
  <2>1. Coherent(loop, rt) /\ late = ApplyLate(loop, rt, rt.pending, bad) /\ rt.pending \in {rt.pending, NoOutcome}
    BY Read DEF History
  <2> HIDE DEF late
  <2> QED BY <1>1, <1>2, <2>1, Now, SettleLate
<1>3. CASE file' = Requeued(loop) /\ rt' = AfterRequeue(rt) /\ results' = results
  <2>1. Carries(file', rt') /\ file'.status # "completed"
    BY <1>1, <1>3, Now, RuntimeRest, RequeuedCarries
  <2>2. file' \in Loops
    BY <1>3, Now, RequeuedLoop DEF SameLoop
  <2> QED BY <1>3, <2>1, <2>2, KeepsCarried DEF Quietly, Closes
<1>4. CASE rt' = ClearPending(rt) /\ UNCHANGED <<file, results>>
  BY <1>4, Now, LesserSteps, KeepsQuiet DEF Closes
<1> HIDE DEF late
<1> QED BY <1>2, <1>3, <1>4 DEF SettlePaused, late

\* The settlement of a turn that was aborted while it ran.
LEMMA SettleAbortedKeeps ==
  ASSUME IInv, History, Closes, NEW bad \in 0 .. 2, SettleAborted(bad)
  PROVE  Keeps
<1> DEFINE why == rt.aborted
           p == Paused(loop, rt, why)
           r == AfterPause(rt)
           b == IF bad = 2 THEN 1 ELSE 0
           late == ApplyLate(p, r, rt.pending, b)
           g == Requeued(p)
<1>1. loop.status = "running" /\ why \in Whys /\ why # "unreadable" /\ b \in 0 .. 2
  BY Now DEF SettleAborted, Awaited, Runtimes, Aborts, Whys
<1>2. r \in Runtimes /\ ~r.awaiting /\ r.pending \in {rt.pending, NoOutcome} /\ Alike(r, r) /\ Alike(rt, rt)
  BY Now, RuntimeMoves, RuntimeRest DEF Alike
<1>3. /\ p \in Loops /\ p.n = loop.n /\ p.count = loop.count /\ p.full = loop.full
      /\ p.kind = loop.kind /\ p.status = "paused"
  <2> HIDE DEF why
  <2> QED BY <1>1, Now, PausedLoop, PausedRest DEF SameLoop
<1>4. Carries(p, r) /\ Carries(p, ClearPending(r))
  <2>1. Alike(AfterPause(rt), r) /\ Alike(AfterPause(rt), ClearPending(r))
    BY <1>2, AlikeSteps
  <2> HIDE DEF why, r
  <2> QED BY <1>1, <1>2, <2>1, Now, PausedCarries
<1> HIDE DEF why, p, r, b
<1>5. CASE UNCHANGED <<file, rt, results>>
  BY <1>5, Now, LesserSteps, KeepsQuiet DEF Closes
<1>6. CASE /\ IsResult(rt.pending) /\ file' = late.file /\ Score(late.got, rt.pending)
           /\ rt' = IF late.done THEN ClearPending(late.rt) ELSE late.rt
  <2>1. Coherent(p, r) /\ Wanted(loop, rt) /\ (Counting(p, r) => Counting(loop, rt))
    BY <1>1, <1>3, <1>4 DEF Carries, Wanted, Counting
  <2>2. late = ApplyLate(p, r, rt.pending, b) /\ p.status # "completed"
    BY <1>3
  <2> HIDE DEF late
  <2> QED BY <1>1, <1>2, <1>3, <1>6, <2>1, <2>2, SettleLate
<1>7. CASE file' = p /\ rt' = ClearPending(r) /\ results' = results
  BY <1>3, <1>4, <1>7, KeepsCarried DEF Quietly, Closes
<1>8. CASE file' = g /\ rt' = AfterRequeue(r) /\ results' = results
  <2>1. /\ g \in Loops /\ g.n = p.n /\ g.count = p.count /\ g.full = p.full /\ g.kind = p.kind
        /\ g.why = "none" /\ g.status = Again(p)
    BY <1>3, RequeuedLoop, RequeuedRest DEF SameLoop
  <2> HIDE DEF g
  <2>2. ~AfterRequeue(r).awaiting /\ AfterRequeue(r).pending = NoOutcome
    BY <1>2, RuntimeRest
  <2>3. p.kind \in Kinds /\ Coherent(loop, rt)
    BY <1>3, Read DEF Loops, History
  <2>4. Coherent(g, AfterRequeue(r))
    BY <1>1, <1>3, <2>1, <2>2, <2>3 DEF Coherent, Again, Kinds
  <2>5. Carries(file', rt')
    BY <1>1, <1>3, <1>8, <2>1, <2>2, <2>4, RunningCarries
  <2>6. Quietly
    BY <1>8, <2>1 DEF Quietly, Again
  <2> QED BY <1>8, <2>1, <2>5, <2>6, KeepsCarried DEF Closes
<1>9. \/ UNCHANGED <<file, rt, results>>
      \/ /\ IsResult(rt.pending) /\ file' = late.file /\ Score(late.got, rt.pending)
         /\ rt' = IF late.done THEN ClearPending(late.rt) ELSE late.rt
      \/ file' = p /\ rt' = ClearPending(r) /\ results' = results
      \/ file' = g /\ rt' = AfterRequeue(r) /\ results' = results
  <2>1. CASE bad = 1
    BY <2>1 DEF SettleAborted
  <2>2. CASE bad # 1 /\ IsResult(rt.pending)
    <3>1. LET m == ApplyLate(p, r, rt.pending, b)
          IN /\ file' = m.file /\ rt' = IF m.done THEN ClearPending(m.rt) ELSE m.rt
             /\ Score(m.got, rt.pending)
      <4> HIDE DEF late
      <4> QED BY <2>2, Zenon DEF SettleAborted, p, r, b, why
    <3> QED BY <2>2, <3>1 DEF late
  <2>3. CASE bad # 1 /\ ~IsResult(rt.pending)
    <3>1. /\ file' = IF bad = 2 THEN p ELSE g
          /\ rt' = IF bad = 2 THEN ClearPending(r) ELSE AfterRequeue(r)
          /\ results' = results
      BY <2>3 DEF SettleAborted, r, p, why
    <3> HIDE DEF g
    <3> QED BY <3>1
  <2> QED BY <2>1, <2>2, <2>3
<1> HIDE DEF late, g
<1> QED BY <1>5, <1>6, <1>7, <1>8, <1>9

\* A pause of the scheduler's.
LEMMA SchedulerPauseKeeps ==
  ASSUME IInv, History, Closes, file' = Paused(loop, rt, "scheduler_error"),
         rt' = ClearPending(AfterPause(rt)), results' = results
  PROVE  Keeps
<1>1. Alike(AfterPause(rt), rt') /\ Alike(rt, rt)
  BY Now, RuntimeMoves, AlikeSteps DEF Alike
<1>2. Carries(file', rt') /\ file'.status # "completed"
  BY <1>1, Now, PausedCarries
<1>3. file' \in Loops
  BY Now, PausedLoop DEF Whys, SameLoop
<1> QED BY <1>2, <1>3, KeepsCarried DEF Quietly, Closes

\* A turn tried again after a broken transport.
LEMMA SettleTransportKeeps ==
  ASSUME IInv, History, Closes, NEW ok \in BOOLEAN, SettleTransport(ok)
  PROVE  Keeps
<1>1. loop.status = "running" /\ results' = results
  BY DEF SettleTransport, Settling, Awaited
<1>2. CASE UNCHANGED file /\ (UNCHANGED rt \/ rt' = ClearPending(rt))
  BY <1>1, <1>2, Now, LesserSteps, KeepsQuiet DEF Closes
<1>3. CASE /\ file' = Paused(loop, rt, "scheduler_error")
           /\ rt' = ClearPending(AfterPause(rt))
  BY <1>1, <1>3, SchedulerPauseKeeps
<1>4. CASE /\ file' = [loop EXCEPT !.status = Again(loop), !.retry = TRUE, !.why = "none"]
           /\ rt' = AfterRetry([rt EXCEPT !.transport = @ + 1])
  <2> DEFINE s == Again(loop)
             n == rt.transport + 1
             q == [rt EXCEPT !.transport = n]
  <2>1. /\ s \in {"queued", "verifying"} /\ s \in Statuses /\ "none" \in Whys /\ n \in Nat
        /\ (s = "verifying" => loop.kind = "verification") /\ (s = "queued" => loop.kind = "goal")
    BY Now DEF Again, Statuses, Whys, Runtimes, Loops, Kinds
  <2>2. /\ file' = [loop EXCEPT !.status = s, !.retry = TRUE, !.why = "none"]
        /\ rt' = AfterRetry(q)
    BY <1>4, Zenon
  <2> HIDE DEF s, n
  <2>3. /\ file' \in Loops /\ file'.n = loop.n /\ file'.kind = loop.kind /\ file'.count = loop.count
        /\ file'.full = loop.full /\ file'.status = s /\ file'.why = "none"
    BY <2>1, <2>2, Now DEF Loops
  <2>4. q \in Runtimes /\ q.pending = rt.pending
    BY <2>1, Now DEF Runtimes
  <2> HIDE DEF q
  <2>5. ~rt'.awaiting /\ rt'.pending = NoOutcome
    BY <2>2, <2>4, RuntimeRest
  <2>6. Coherent(loop, rt)
    BY Read DEF History
  <2>7. Coherent(file', rt')
    BY <2>1, <2>3, <2>5, <2>6 DEF Coherent
  <2>8. Carries(file', rt')
    BY <1>1, <2>3, <2>5, <2>7, RunningCarries
  <2> QED BY <1>1, <2>1, <2>3, <2>8, KeepsCarried DEF Quietly, Closes
<1> QED BY <1>2, <1>3, <1>4 DEF SettleTransport

\* A turn that is given back is not counted any more.
LEMMA RewoundKeeps ==
  ASSUME IInv, History, Closes, loop.status = "running",
         file' = Rewound(loop), rt' = AfterRetry(rt), results' = results
  PROVE  Keeps
<1>1. /\ file'.n = loop.n /\ file'.full = loop.full /\ file'.kind = loop.kind
      /\ file'.streak = loop.streak
      /\ file'.recovery = loop.recovery /\ file'.retry = loop.retry
      /\ file'.why = "none" /\ file'.status = Again(loop)
      /\ \/ file'.count = loop.count /\ (loop.kind = "goal" => loop.streak = 1 \/ loop.count = 0)
         \/ file'.count + 1 = loop.count /\ loop.kind = "goal" /\ loop.streak # 1
  BY Now, RewoundRest
<1>2. rt'.pausedPending = rt.pausedPending /\ ~rt'.awaiting /\ rt'.pending = NoOutcome
  BY Now, RuntimeRest
<1>3. Coherent(loop, rt) /\ loop.kind \in Kinds
  BY Read, Now DEF History, Loops
<1>4. Coherent(file', rt') /\ file'.status # "completed" /\ ~Wanted(file', rt')
  BY <1>1, <1>2, <1>3 DEF Coherent, Again, Wanted, Kinds
<1>5. file' \in Loops
  BY Now, RewoundLoop
<1>6. Carries(file', rt')
  <2>1. CASE file'.count = loop.count
    <3>1. Counting(file', rt') => Counting(loop, rt)
      BY <1>1 DEF Counting, Wanted
    <3> QED BY <1>1, <1>2, <1>4, <2>1, <3>1, TurnCarries
  <2>2. CASE file'.count + 1 = loop.count /\ loop.kind = "goal" /\ loop.streak # 1
    <3>1. Counting(loop, rt) /\ ~Counting(file', rt')
      BY <1>1, <1>3, <1>4, <2>2 DEF Counting, Wanted, Coherent
    <3> QED BY <1>1, <1>2, <1>4, <2>2, <3>1, Read DEF Carries
  <2> QED BY <1>1, <2>1, <2>2
<1> QED BY <1>4, <1>5, <1>6, KeepsCarried DEF Quietly, Closes

\* A provider that is overloaded.
LEMMA SettleOverloadKeeps ==
  ASSUME IInv, History, Closes, NEW ok \in BOOLEAN, SettleOverload(ok)
  PROVE  Keeps
<1>1. loop.status = "running" /\ results' = results
  BY DEF SettleOverload, Settling, Awaited
<1>2. CASE file' = Rewound(loop) /\ rt' = AfterRetry(rt)
  BY <1>1, <1>2, RewoundKeeps
<1>3. CASE UNCHANGED <<file, rt>>
  BY <1>1, <1>3, Now, LesserSteps, KeepsQuiet DEF Closes
<1> QED BY <1>2, <1>3 DEF SettleOverload

\* A result settles the turn that waits for it; a reply without one keeps it.
LEMMA SettleResultKeeps ==
  ASSUME IInv, History, Closes, NEW ok \in BOOLEAN, SettleResult(ok)
  PROVE  Keeps
<1> DEFINE o == rt.pending
           a == Awaits(rt)
           q == [a EXCEPT !.transport = 0]
           f == ApplyResult(loop, o)
           g == ApplyMissing(loop)
<1>1. loop.status = "running" /\ o \in Outcomes
  BY Now DEF SettleResult, Settling, Awaited, Runtimes
<1>2. \/ IsResult(o) /\ file' = f /\ rt' = ScheduleIf(f, ClearPending(q)) /\ results' = Append(results, o)
      \/ file' = g /\ rt' = ScheduleIf(g, ClearPending(q)) /\ results' = results
      \/ rt' = [rt EXCEPT !.transport = 0] /\ UNCHANGED <<file, results>>
  <2>1. CASE IsResult(o)
    <3> HIDE DEF f, q
    <3> QED BY <2>1 DEF SettleResult, Score, f, q, a, o
  <2>2. CASE ~IsResult(o)
    <3> HIDE DEF g, q
    <3> QED BY <2>2 DEF SettleResult, Score, g, q, a, o
  <2> QED BY <2>1, <2>2
<1>3. q \in Runtimes /\ ~q.awaiting /\ q.pausedPending = rt.pausedPending
  <2>1. a \in Runtimes /\ ~a.awaiting /\ a.pausedPending = rt.pausedPending
    BY Now, RuntimeSteps, RuntimeRest
  <2> HIDE DEF a
  <2> QED BY <2>1, Values DEF Runtimes
<1> HIDE DEF q
<1>4. \A l : LET r == ScheduleIf(l, ClearPending(q))
             IN ~r.awaiting /\ r.pausedPending = rt.pausedPending /\ r.pending = NoOutcome
  <2>1. ClearPending(q) \in Runtimes /\ Alike(q, ClearPending(q)) /\ ClearPending(q).pending = NoOutcome
    BY <1>3, RuntimeSteps, AlikeSteps
  <2>2. \A l : Alike(ClearPending(q), ScheduleIf(l, ClearPending(q)))
    BY <2>1, AlikeSteps
  <2> QED BY <1>3, <2>1, <2>2 DEF Alike
<1>5. Coherent(loop, rt) /\ loop.kind \in Kinds
  BY Read, Now DEF History, Loops
<1>6. CASE IsResult(o) /\ file' = f /\ rt' = ScheduleIf(f, ClearPending(q)) /\ results' = Append(results, o)
  <2>1. Outcomed(loop, o, f)
    <3>1. loop.full => loop.kind = "goal"
      BY <1>5 DEF Coherent
    <3> QED BY <3>1, Now, ResultSettles
  <2> HIDE DEF f
  <2>2. ~rt'.awaiting /\ rt'.pausedPending = rt.pausedPending /\ rt'.pending = NoOutcome
    BY <1>4, <1>6
  <2>3. Settles(loop, o, file', rt') /\ file' \in Loops
    BY <1>1, <1>5, <1>6, <2>1, <2>2 DEF Outcomed, Settles, Coherent, Wanted, Counting
  <2>4. Wanted(file, rt)
    BY <1>1, Read DEF Wanted
  <2>5. Fresh(o)
    BY <1>6, <2>4 DEF History, Attributed
  <2> HIDE DEF o
  <2> QED BY <1>1, <1>6, <2>3, <2>4, <2>5, LateKeeps DEF Closes
<1>7. CASE file' = g /\ rt' = ScheduleIf(g, ClearPending(q)) /\ results' = results
  <2>1. /\ g \in Loops /\ g.n = loop.n /\ g.count = loop.count /\ g.full = loop.full
        /\ g.kind = loop.kind /\ g.recovery = loop.recovery
        /\ \/ g.status = "paused"
           \/ g.status = Again(loop) /\ g.why = "none"
    BY Now, MissingApplied, MissingRest DEF SameLoop
  <2> HIDE DEF g
  <2>2. ~rt'.awaiting /\ rt'.pausedPending = rt.pausedPending /\ rt'.pending = NoOutcome
    BY <1>4, <1>7
  <2>3. Coherent(file', rt') /\ file'.status # "completed"
    BY <1>1, <1>5, <1>7, <2>1, <2>2 DEF Coherent, Again, Kinds
  <2>4. Carries(file', rt')
    BY <1>1, <1>7, <2>1, <2>2, <2>3, RunningCarries
  <2> QED BY <1>7, <2>1, <2>3, <2>4, KeepsCarried DEF Quietly, Closes
<1>8. CASE rt' = [rt EXCEPT !.transport = 0] /\ UNCHANGED <<file, results>>
  <2>1. Lesser(rt, rt')
    BY <1>8, Now DEF Lesser, Runtimes
  <2> QED BY <1>8, <2>1, KeepsQuiet DEF Closes
<1> HIDE DEF f, g, o
<1> QED BY <1>2, <1>6, <1>7, <1>8

\* agent_settled as a whole.
LEMMA SettledKeeps ==
  ASSUME IInv, History, AgentSettled
  PROVE  Keeps
<1>1. Closes
  <2>1. run.phase = "ended" /\ run' = [run EXCEPT !.phase = "closing"] /\ UNCHANGED <<log, sends>>
    BY DEF AgentSettled
  <2> QED BY <2>1, Now DEF Closes, RunKept, Busy, Runs
<1>2. ASSUME NEW bad \in 0 .. 2, SettlePaused(bad) \/ SettleAborted(bad)
      PROVE  Keeps
  BY <1>1, <1>2, SettlePausedKeeps, SettleAbortedKeeps
<1>3. ASSUME NEW ok \in BOOLEAN, SettleTransport(ok) \/ SettleOverload(ok) \/ SettleResult(ok)
      PROVE  Keeps
  BY <1>1, <1>3, SettleTransportKeeps, SettleOverloadKeeps, SettleResultKeeps
<1> QED BY <1>1, <1>2, <1>3, SettleQuietKeeps DEF AgentSettled

\* The host's answer about a provider limit.
LEMMA LimitAnsweredKeeps ==
  ASSUME IInv, History, NEW route \in BOOLEAN, NEW ok \in BOOLEAN, LimitAnswered(route, ok)
  PROVE  Keeps
<1>1. Closes /\ results' = results
  <2>1. run.phase = "settling" /\ run' = [run EXCEPT !.phase = "closing"] /\ UNCHANGED <<log, sends, results>>
    BY DEF LimitAnswered
  <2> QED BY <2>1, Now DEF Closes, RunKept, Busy, Runs
<1>2. CASE UNCHANGED file /\ (rt' = Kept(rt) \/ rt' = rt \/ rt' = ClearPending(rt))
  BY <1>1, <1>2, Now, LesserSteps, KeepsQuiet DEF Closes
<1>3. CASE loop.status = "running" /\ file' = Rewound(loop) /\ rt' = AfterRetry(rt)
  BY <1>1, <1>3, RewoundKeeps
<1>4. CASE file' = Paused(loop, rt, "scheduler_error") /\ rt' = ClearPending(AfterPause(rt))
  BY <1>1, <1>4, SchedulerPauseKeeps
<1> QED BY <1>2, <1>3, <1>4 DEF LimitAnswered
-----------------------------------------------------------------------------
(***************************************************************************)
(* The host, the user's own turns and the restarts.                        *)
(***************************************************************************)
\* Steps of the host that leave the loop alone.
LEMMA HostKeeps ==
  ASSUME IInv, History, LimitAsked \/ RunCloses \/ \E why \in {"abort", "hang"} : HostAborts(why)
  PROVE  Keeps
<1>1. UNCHANGED <<file, rt, log, sends, results>>
  BY DEF LimitAsked, RunCloses, HostAborts
<1>2. RunKept
  <2>1. CASE LimitAsked \/ RunCloses
    BY <2>1, Now DEF LimitAsked, RunCloses, RunKept, Busy, Runs, NoRun
  <2>2. ASSUME NEW why \in {"abort", "hang"}, HostAborts(why)
        PROVE  RunKept
    BY <2>2, AbortedSame DEF HostAborts, Aborts
  <2> QED BY <2>1, <2>2
<1> QED BY <1>1, <1>2, Now, LesserSteps, KeepsQuiet

\* A turn of the user's own begins: no prompt before it is answered any more.
LEMMA UserTurnKeeps ==
  ASSUME IInv, History, UserTurn
  PROVE  Keeps
<1>1. /\ UNCHANGED <<file, rt, results>> /\ run' = NewRun(0, "user") /\ sends' = sends + 1
      /\ log' = [k \in DOMAIN log |-> [log[k] EXCEPT !.open = FALSE]]
  BY DEF UserTurn
<1>2. run'.of = 0 /\ run'.kind = "user" /\ run'.res = "none"
  BY <1>1 DEF NewRun, NoRun
<1>3. log \in [Kinds \X Turns -> [open : BOOLEAN, got : Outcomes]] /\ sends \in Nat
  BY DEF History, Recorded, IInv, Typed
<1>4. \A k \in DOMAIN log :
        log'[k] \in [open : BOOLEAN, got : Outcomes] /\ ~log'[k].open /\ log'[k].got = log[k].got
  <2> SUFFICES ASSUME NEW k \in DOMAIN log
               PROVE  log'[k] \in [open : BOOLEAN, got : Outcomes] /\ ~log'[k].open /\ log'[k].got = log[k].got
    OBVIOUS
  <2> DEFINE e == log[k]
  <2>1. e \in [open : BOOLEAN, got : Outcomes] /\ log'[k] = [e EXCEPT !.open = FALSE]
    BY <1>1, <1>3
  <2> HIDE DEF e
  <2>2. log'[k] \in [open : BOOLEAN, got : Outcomes] /\ ~log'[k].open /\ log'[k].got = e.got
    BY <2>1
  <2> QED BY <2>2 DEF e
<1>5. DOMAIN log' = DOMAIN log /\ log' \in [Kinds \X Turns -> [open : BOOLEAN, got : Outcomes]]
  <2>1. DOMAIN log' = DOMAIN log /\ DOMAIN log = Kinds \X Turns
    BY <1>1, <1>3
  <2>2. log' = [k \in Kinds \X Turns |-> log'[k]]
    BY <1>1, <2>1
  <2> QED BY <1>4, <2>1, <2>2
<1>6. \A x \in Outcomes : IsResult(x) => x.send \in Nat
  BY NoResult DEF Outcomes
<1>7. Recorded' /\ Coherent(file', rt') /\ Apart'
  BY <1>1, <1>2, <1>4, <1>5 DEF History, Recorded, Apart, IsResult, Results
<1>8. Scored'
  <2>1. \A i \in DOMAIN results : results[i].send <= sends + 1
    BY <1>3, <1>6 DEF History, Recorded, Scored
  <2> QED BY <1>1, <2>1 DEF History, Scored, GoalResults
<1>9. Attributed'
  <2>1. \A x \in Outcomes : IsResult(x) /\ Fresh(x) => x.send <= sends + 1
    BY <1>3, <1>6 DEF Fresh
  <2>2. \A x \in Outcomes : IsResult(x) /\ Fresh(x) => Fresh(x)'
    BY <1>1, <2>1 DEF Fresh
  <2> SUFFICES ASSUME Wanted(file, rt)
               PROVE  /\ \A k \in DOMAIN log :
                           k = <<file.kind, file.count>> /\ IsResult(log[k].got) => Fresh(log[k].got)'
                      /\ IsResult(rt.pending) => Fresh(rt.pending)'
    <3>1. Wanted(file, rt)' <=> Wanted(file, rt)
      BY <1>1
    <3>2. \A k \in DOMAIN log : log'[k].got = log[k].got
      BY <1>4
    <3> QED BY <1>1, <1>2, <1>5, <3>1, <3>2 DEF Attributed, Fresh
  <2>3. ASSUME NEW k \in DOMAIN log, k = <<file.kind, file.count>>, IsResult(log[k].got)
        PROVE  Fresh(log[k].got)'
    <3> DEFINE x == log[k].got
    <3>1. x \in Outcomes
      BY <1>3
    <3>2. Fresh(x) /\ IsResult(x)
      BY <2>3 DEF History, Attributed
    <3>3. log'[k].got = x
      BY <1>4
    <3> HIDE DEF x
    <3>4. x.of = file.n /\ x.kind = file.kind /\ x.send <= sends + 1 /\ \A i \in DOMAIN results : results[i].send # x.send
      BY <2>1, <3>1, <3>2 DEF Fresh
    <3> QED BY <1>1, <3>3, <3>4 DEF Fresh
  <2>4. ASSUME IsResult(rt.pending)
        PROVE  Fresh(rt.pending)'
    <3>1. rt.pending \in Outcomes /\ Fresh(rt.pending)
      BY <2>4, Now DEF Runtimes, History, Attributed
    <3>2. rt.pending.send <= sends + 1
      BY <2>1, <2>4, <3>1
    <3> QED BY <1>1, <3>1, <3>2 DEF Fresh
  <2> QED BY <2>3, <2>4
<1> QED BY <1>1, <1>7, <1>8, <1>9 DEF Keeps, History, Proper

\* The runtime a restart makes waits for what the loop has to recover, or the old one for.
LEMMA NextRuntimeRest ==
  ASSUME rt \in Runtimes, NEW l \in Loops, NEW how, NEW q, q = NextRuntime(l, how)
  PROVE  /\ ~q.awaiting
         /\ q.pausedPending => rt.pausedPending \/ (Interrupted(l, how) /\ Restarted(l, how).recovery)
         /\ q.pending \in {rt.pending, NoOutcome}
<1> DEFINE b == how = "crash" /\ Interrupted(l, how) /\ Restarted(l, how).recovery
           r == [NewRuntime EXCEPT !.pausedPending = b]
           h == [r EXCEPT !.pausedPending = rt.pausedPending, !.pending = rt.pending,
                          !.aborted = rt.aborted, !.discard = rt.discard,
                          !.transport = rt.transport]
<1>1. b \in BOOLEAN /\ (b => Interrupted(l, how) /\ Restarted(l, how).recovery)
  OBVIOUS
<1>2. q = ScheduleIf(Restarted(l, how), IF how # "reload" THEN r ELSE h)
  BY Zenon DEF NextRuntime, b, r, h
<1> HIDE DEF b
<1>3. r \in Runtimes /\ r.pausedPending = b /\ ~r.awaiting /\ r.pending = NoOutcome
  <2>1. r \in Runtimes
    BY <1>1, NewRuntimeTyped, RuntimeSteps
  <2> QED BY <2>1 DEF NewRuntime
<1> HIDE DEF r
<1>4. h \in Runtimes /\ h.pausedPending = rt.pausedPending /\ ~h.awaiting /\ h.pending = rt.pending
  BY <1>3 DEF Runtimes
<1> HIDE DEF h
<1>5. \A x : Alike(r, ScheduleIf(x, r)) /\ Alike(h, ScheduleIf(x, h))
  BY <1>3, <1>4, AlikeSteps
<1> QED BY <1>1, <1>2, <1>3, <1>4, <1>5 DEF Alike

\* A restart: a turn that ran is one to recover and to try again.
LEMMA RestartKeeps ==
  ASSUME IInv, History, NEW how, NEW ok \in BOOLEAN, Restart(how, ok)
  PROVE  Keeps
<1>1. RunKept /\ UNCHANGED <<log, sends, results>>
  BY DEF Restart, RunKept, NoRun
<1>2. CASE ~ok
  <2>1. file' = file /\ rt' = NewRuntime
    BY <1>2 DEF Restart
  <2> QED BY <1>1, <2>1, Now, LesserSteps, KeepsQuiet
<1>3. CASE ok
  <2> DEFINE f == Restarted(loop, how)
             q == NextRuntime(loop, how)
  <2>1. file' = f /\ rt' = q
    BY <1>3 DEF Restart
  <2>2. /\ ~q.awaiting
        /\ q.pausedPending => rt.pausedPending \/ (Interrupted(loop, how) /\ f.recovery)
        /\ q.pending \in {rt.pending, NoOutcome}
    BY Now, NextRuntimeRest
  <2>3. SameLoop(loop, f) /\ (Interrupted(loop, how) => f.status = "paused")
    BY Now, RestartedLoop
  <2>4. \/ f = loop /\ loop.status # "running"
        \/ /\ f.n = loop.n /\ f.count = loop.count /\ f.full = loop.full /\ f.kind = loop.kind
           /\ f.streak = loop.streak /\ f.status = "paused" /\ f.why = "session_end"
           /\ f.recovery <=> loop.recovery \/ loop.status = "running"
           /\ f.retry <=> loop.retry \/ loop.status = "running"
    BY Now, RestartedRest
  <2> HIDE DEF f, q
  <2>5. Coherent(loop, rt)
    BY Read DEF History
  <2>6. Coherent(f, q)
    BY <2>2, <2>4, <2>5 DEF Coherent
  <2>7. (Wanted(f, q) => Wanted(loop, rt)) /\ (Counting(f, q) => Counting(loop, rt))
    BY <2>2, <2>4 DEF Wanted, Counting
  <2>8. Carries(f, q)
    BY <2>2, <2>4, <2>6, <2>7, TurnCarries
  <2>9. Quietly
    BY <2>1, <2>4, HydratedLoop, Now DEF Quietly, loop, IInv, Typed
  <2> QED BY <1>1, <2>1, <2>3, <2>8, <2>9, KeepsCarried DEF SameLoop
<1> QED BY <1>2, <1>3
-----------------------------------------------------------------------------
(***************************************************************************)
(* The commands.                                                           *)
(***************************************************************************)
\* A new loop begins with no result, and waits for none.
LEMMA StartKeeps ==
  ASSUME IInv, History, NEW max \in Budgets, NEW full \in Modes, NEW ok \in BOOLEAN,
         Start(max, full, ok)
  PROVE  Keeps
<1>1. CASE ~ok
  <2>1. UNCHANGED <<file, rt, run, log, sends, results>>
    BY <1>1 DEF Start
  <2> QED BY <2>1, Now, SameRun, LesserSteps, KeepsQuiet
<1>2. CASE ok
  <2> DEFINE replacing == loop.status # "none" /\ ~Terminal(loop)
             c == ClearPending(ClearTimer(rt))
             d == c.discard \/ (replacing /\ Expected)
             a == AbortRun("abort")
             n == file.n + 1
  <2>1. /\ file' = [NoLoop EXCEPT !.status = "queued", !.max = max, !.full = full, !.n = n]
        /\ results' = <<>> /\ log' = log /\ sends' = sends
        /\ run' = IF ~Busy THEN run
                  ELSE IF replacing THEN [a EXCEPT !.stale = TRUE]
                  ELSE [run EXCEPT !.stale = TRUE]
    BY <1>2 DEF Start, NewLoop
  <2>2. rt' = [c EXCEPT !.awaiting = FALSE, !.pausedPending = FALSE, !.inFlight = FALSE,
                        !.transport = 0, !.timer = TRUE, !.discard = d]
    BY <1>2, Zenon DEF Start
  <2>3. ~rt'.awaiting /\ ~rt'.pausedPending
    <3>1. c \in Runtimes
      BY Now, RuntimeSteps
    <3> HIDE DEF c, d
    <3> QED BY <2>2, <3>1 DEF Runtimes
  <2>4. /\ file'.status = "queued" /\ file'.kind = "goal" /\ file'.count = 0 /\ file'.why = "none"
        /\ ~file'.recovery /\ ~file'.retry /\ file'.streak = 0
    <3> HIDE DEF n
    <3> QED BY <2>1 DEF NoLoop
  <2>5. RunKept
    <3>1. CASE ~Busy
      BY <2>1, <3>1 DEF RunKept, Busy
    <3>2. CASE Busy
      <4>1. a \in Runs /\ a.of = run.of /\ a.kind = run.kind /\ a.send = run.send /\ a.res = run.res
        BY Now, Values, AbortedRun DEF AbortRun, Runs
      <4> HIDE DEF a
      <4>2. run' = [a EXCEPT !.stale = TRUE] \/ run' = [run EXCEPT !.stale = TRUE]
        BY <2>1, <3>2
      <4> QED BY <3>2, <4>1, <4>2, Now DEF RunKept, Runs
    <3> QED BY <3>1, <3>2
  <2> HIDE DEF c, d, a, n, replacing
  <2>6. Coherent(file', rt') /\ ~Wanted(file', rt') /\ ~Counting(file', rt')
    BY <2>3, <2>4 DEF Coherent, Wanted, Counting
  <2>7. Recorded' /\ Apart'
    BY <2>1, <2>5, ApartKept DEF History, Recorded
  <2>8. Scored'
    <3>1. DOMAIN results' = {}
      BY <2>1
    <3>2. GoalResults' = {}
      BY <3>1 DEF GoalResults
    <3>3. Cardinality(GoalResults') = 0
      BY <3>2, FS_EmptySet
    <3> QED BY <2>4, <2>6, <3>1, <3>3 DEF Scored
  <2>9. Attributed'
    BY <2>6 DEF Attributed
  <2> QED BY <2>4, <2>6, <2>7, <2>8, <2>9 DEF Keeps, History, Proper
<1> QED BY <1>1, <1>2

\* A loop the user ends waits for nothing; only the user's word completes it here.
LEMMA EndKeeps ==
  ASSUME IInv, History, NEW ok \in BOOLEAN, Stop(ok) \/ Complete(ok)
  PROVE  History' /\ (~Complete(TRUE) => Proper)
<1> DEFINE c == ClearPending(ClearTimer(rt))
           d == c.discard \/ Expected
<1>1. UNCHANGED <<log, sends, results>>
  BY DEF Stop, Complete
<1>2. CASE ~ok
  <2>1. UNCHANGED <<file, rt, run>>
    BY <1>2 DEF Stop, Complete
  <2> QED BY <1>1, <2>1, Now, SameRun, LesserSteps, KeepsQuiet DEF Keeps
<1>3. CASE ok
  <2>1. PICK s \in {"stopped", "completed"} :
          /\ file' = [loop EXCEPT !.status = s, !.why = "none", !.recovery = FALSE]
          /\ s = "completed" => Complete(TRUE)
    BY <1>3 DEF Stop, Complete
  <2>2. /\ file' \in Loops /\ file'.n = loop.n /\ file'.kind = loop.kind /\ file'.count = loop.count
        /\ file'.full = loop.full /\ file'.status = s /\ file'.why = "none" /\ ~file'.recovery
        /\ file'.retry = loop.retry /\ file'.streak = loop.streak
    BY <2>1, Now, Values DEF Loops, Statuses
  <2>3. ~rt'.awaiting /\ ~rt'.pausedPending /\ rt'.pending = NoOutcome
    <3>1. c \in Runtimes /\ c.pending = NoOutcome
      BY Now, RuntimeSteps, AlikeSteps
    <3>2. \/ rt' = [c EXCEPT !.awaiting = FALSE, !.pausedPending = FALSE, !.discard = d]
          \/ rt' = [c EXCEPT !.awaiting = FALSE, !.pausedPending = FALSE]
      <4>1. CASE Stop(ok)
        BY <1>3, <4>1, Zenon DEF Stop
      <4>2. CASE Complete(ok)
        BY <1>3, <4>2, Zenon DEF Complete
      <4> QED BY <4>1, <4>2
    <3> HIDE DEF c, d
    <3> QED BY <3>1, <3>2 DEF Runtimes
  <2>4. RunKept
    BY <1>3, Values, SameRun, AbortedSame DEF Stop, Complete
  <2>5. Coherent(file', rt')
    BY <2>2, <2>3, Read DEF History, Coherent
  <2>6. ~Wanted(file', rt') /\ (Counting(file', rt') => Counting(loop, rt))
    BY <2>2, <2>3 DEF Wanted, Counting
  <2>7. Carries(file', rt')
    BY <2>2, <2>3, <2>5, <2>6, TurnCarries
  <2>8. History'
    BY <1>1, <2>2, <2>4, <2>7, Carried
  <2> QED BY <2>1, <2>2, <2>8 DEF Proper
<1> QED BY <1>2, <1>3

\* A resume takes the result that is there, or sends the turn it stands at again.
LEMMA ResumeKeeps ==
  ASSUME IInv, History, NEW max \in Budgets, NEW ok \in BOOLEAN, Resume(max, ok)
  PROVE  Keeps
<1> DEFINE l == [loop EXCEPT !.max = max]
           m == [l EXCEPT !.recovery = FALSE]
           o == LateResult(l, rt)
           applied == ApplyResult(m, o)
           p == [rt EXCEPT !.pausedPending = FALSE]
           b == [rt EXCEPT !.pausedPending = TRUE]
<1>1. loop.status \in {"paused", "blocked"} /\ RunKept /\ UNCHANGED <<log, sends>>
  BY SameRun DEF Resume
<1>2. /\ l \in Loops /\ l.n = loop.n /\ l.kind = loop.kind /\ l.count = loop.count
      /\ l.full = loop.full /\ l.status = loop.status /\ l.why = loop.why
      /\ l.recovery = loop.recovery /\ l.retry = loop.retry /\ l.streak = loop.streak
  BY Now, GoalAssumption DEF Loops
<1>3. Coherent(loop, rt) /\ ~rt.awaiting /\ loop.kind \in Kinds
  BY <1>1, Read, Now DEF History, Coherent, Loops
<1>4. p \in Runtimes /\ ~p.awaiting /\ ~p.pausedPending /\ p.pending = rt.pending
  BY <1>3, Now DEF Runtimes
<1>5. b \in Runtimes /\ ~b.awaiting /\ b.pausedPending /\ b.pending = rt.pending
  BY <1>3, Now DEF Runtimes
<1>6. \/ /\ IsResult(o) /\ file' = applied /\ rt' = ScheduleIf(applied, p)
         /\ results' = Append(results, o)
      \/ IsResult(o) /\ rt' = b /\ UNCHANGED <<file, results>>
      \/ (file' = l \/ file' = file) /\ UNCHANGED <<rt, results>>
      \/ rt' = p /\ UNCHANGED <<file, results>>
      \/ ok /\ ~ResumeRefused(l) /\ ResumeSends(l, ok) /\ results' = results
  <2>1. CASE ResumeRecovers(l, ok)
    <3> HIDE DEF l, p, b
    <3> QED BY <2>1 DEF ResumeRecovers, Score, applied, m, o, p, b
  <2>2. CASE ~ok /\ ResumeSends(l, ok) /\ results' = results
    BY <2>2 DEF ResumeSends
  <2>3. \/ ResumeRecovers(l, ok)
        \/ ~ResumeRefused(l) /\ ResumeSends(l, ok) /\ results' = results
        \/ file' = (IF ok THEN l ELSE file) /\ UNCHANGED <<rt, results>>
    BY DEF Resume
  <2> HIDE DEF l, applied, p, b, o
  <2> QED BY <2>1, <2>2, <2>3
<1> HIDE DEF l, p, b
<1>7. CASE /\ IsResult(o) /\ file' = applied /\ rt' = ScheduleIf(applied, p)
           /\ results' = Append(results, o)
  <2>1. m \in Loops /\ m.n = l.n /\ m.count = l.count /\ m.full = l.full /\ m.kind = l.kind /\ ~m.recovery
    BY <1>2 DEF Loops
  <2> HIDE DEF m
  <2>2. Outcomed(m, o, applied)
    <3>1. m.full => m.kind = "goal"
      BY <1>2, <1>3, <2>1 DEF Coherent
    <3>2. applied = ApplyResult(m, o)
      OBVIOUS
    <3> HIDE DEF applied, o
    <3> QED BY <2>1, <3>1, <3>2, ResultSettles
  <2>3. o \in Outcomes /\ Wanted(file, rt) /\ Fresh(o)
    BY <1>2, <1>7, LateResultFresh
  <2> HIDE DEF applied, o
  <2>4. ~rt'.awaiting /\ ~rt'.pausedPending
    BY <1>4, <1>7, AlikeSteps DEF Alike
  <2>5. Settles(loop, o, file', rt') /\ file' \in Loops
    BY <1>2, <1>7, <2>1, <2>2, <2>4 DEF Outcomed, Settles, Coherent, Wanted, Counting
  <2> QED BY <1>1, <1>7, <2>3, <2>5, LateKeeps
<1>8. CASE IsResult(o) /\ rt' = b /\ UNCHANGED <<file, results>>
  <2>1. Wanted(loop, rt)
    BY <1>2, <1>8, LateResultFresh, Read
  <2>2. Coherent(file, rt') /\ (Counting(file, rt') => Counting(loop, rt))
    BY <1>1, <1>5, <1>8, <2>1, Read DEF History, Coherent, Counting
  <2>3. Carries(file', rt')
    BY <1>5, <1>8, <2>1, <2>2, Read, TurnCarries
  <2> QED BY <1>1, <1>8, <2>3, KeepsCarried DEF Quietly, IInv, Typed
<1>9. CASE (file' = l \/ file' = file) /\ UNCHANGED <<rt, results>>
  <2>1. CASE file' = file
    BY <1>1, <1>9, <2>1, Now, LesserSteps, KeepsQuiet
  <2>2. CASE file' = l
    <3>1. /\ Coherent(l, rt) /\ (Wanted(l, rt) <=> Wanted(loop, rt))
          /\ Counting(l, rt) <=> Counting(loop, rt)
      BY <1>2, <1>3 DEF Coherent, Wanted, Counting
    <3>2. Carries(file', rt')
      BY <1>2, <1>9, <2>2, <3>1, TurnCarries
    <3>3. Quietly
      BY <1>1, <1>2, <2>2 DEF Quietly
    <3> QED BY <1>1, <1>2, <1>9, <2>2, <3>2, <3>3, KeepsCarried
  <2> QED BY <1>9, <2>1, <2>2
<1>10. CASE rt' = p /\ UNCHANGED <<file, results>>
  <2>1. Lesser(rt, rt')
    BY <1>4, <1>10 DEF Lesser
  <2> QED BY <1>1, <1>10, <2>1, KeepsQuiet
<1>11. CASE ok /\ ~ResumeRefused(l) /\ ResumeSends(l, ok) /\ results' = results
  <2> DEFINE s == IF Verifying(l) THEN "verifying" ELSE "queued"
             k == IF l.full THEN "goal" ELSE l.kind
             u == IF BudgetSpent(l) /\ ~l.retry /\ ~Verifying(l) THEN 1 ELSE 0
  <2>1. /\ s \in Statuses /\ u \in Nat /\ "none" \in Whys
        /\ s \in {"verifying", "queued"} /\ k = loop.kind
        /\ s = "verifying" => loop.kind = "verification"
        /\ s = "queued" => loop.kind = "goal"
    BY <1>2, <1>3 DEF Statuses, Whys, Verifying, Coherent, Kinds
  <2>2. u = 1 => l.why = "unreadable"
    BY <1>11 DEF ResumeRefused
  <2>3. file' = [l EXCEPT !.status = s, !.kind = k, !.why = "none", !.streak = u, !.recovery = FALSE]
    BY <1>11, Zenon DEF ResumeSends
  <2>4. rt' = Schedule(p)
    BY <1>11 DEF ResumeSends, p
  <2> HIDE DEF s, k, u
  <2>5. /\ file' \in Loops /\ file'.n = loop.n /\ file'.kind = loop.kind /\ file'.count = loop.count
        /\ file'.full = loop.full /\ file'.status = s /\ file'.why = "none" /\ file'.streak = u
        /\ ~file'.recovery /\ file'.retry = loop.retry
    BY <1>2, <1>3, <2>1, <2>3 DEF Loops
  <2>6. ~rt'.awaiting /\ ~rt'.pausedPending /\ rt'.pending \in {rt.pending, NoOutcome}
    BY <1>4, <2>4, AlikeSteps DEF Alike
  <2>7. Coherent(file', rt')
    BY <1>3, <2>1, <2>5, <2>6 DEF Coherent
  <2>8. ~Wanted(file', rt') /\ (Counting(file', rt') => Counting(loop, rt))
    BY <1>2, <2>1, <2>2, <2>5, <2>6 DEF Wanted, Counting
  <2>9. Carries(file', rt')
    BY <2>5, <2>6, <2>7, <2>8, TurnCarries
  <2>10. Quietly
    BY <2>1, <2>5 DEF Quietly
  <2> QED BY <1>1, <1>11, <2>5, <2>9, <2>10, KeepsCarried
<1> HIDE DEF applied, o
<1> QED BY <1>6, <1>7, <1>8, <1>9, <1>10, <1>11
-----------------------------------------------------------------------------
\* What the results say, as long as no counted prompt was lost.
HInv == IInv /\ (~spent.lost => History)

\* What the bound says of a prompt that was lost.
LEMMA LostCounted ==
  ASSUME IInv, NEW e, NEW ok \in BOOLEAN, NEW lost \in BOOLEAN, Count(e, ok, lost)
  PROVE  spent'.lost <=> spent.lost \/ lost
<1> DEFINE b == spent.lost \/ lost
           x == spent.events + e
           f == IF ok THEN spent.fails ELSE spent.fails + 1
<1>1. spent' = [events |-> x, fails |-> f, lost |-> b]
  <2>1. spent' = [events |-> spent.events + e, lost |-> spent.lost \/ lost,
                  fails |-> IF ok THEN spent.fails ELSE spent.fails + 1]
    BY DEF Count
  <2> QED BY <2>1, Zenon
<1> HIDE DEF b, x, f
<1>2. spent'.lost = b
  BY <1>1
<1> QED BY <1>2 DEF b

\* The steps that lose a prompt.
Loses == DiesBeforeSend \/ \E ok \in BOOLEAN : DeliverThrows(FALSE, ok)

\* They are counted, and complete nothing.
LEMMA Losing ==
  ASSUME IInv, Loses
  PROVE  spent'.lost /\ file'.status # "completed"
<1>1. Ready /\ loop \in Loops /\ loop.count <= loop.max
  BY Now DEF Loses, DiesBeforeSend, DeliverThrows
<1> DEFINE l == Sent(loop)
<1>2. l \in Loops /\ l.status = "running"
  BY <1>1, SentLoop DEF Ready
<1> HIDE DEF l
<1>3. CASE DiesBeforeSend
  <2>1. Count(1, TRUE, TRUE) /\ file' = Restarted(l, "crash")
    BY <1>3 DEF DiesBeforeSend, l
  <2>2. Interrupted(l, "crash")
    BY <1>2 DEF Interrupted
  <2> QED BY <1>2, <2>1, <2>2, LostCounted, RestartedLoop
<1>4. ASSUME NEW ok \in BOOLEAN, DeliverThrows(FALSE, ok)
      PROVE  spent'.lost /\ file'.status # "completed"
  <2> DEFINE r == ClearTimer(AfterSend(Finally(rt)))
             p == Paused(l, r, "unknown_delivery")
  <2>1. Count(1, ok, TRUE) /\ (file' = p \/ file' = l)
    BY <1>4 DEF DeliverThrows, l
  <2>2. p.status = "paused"
    BY <1>2, PausedRest
  <2> HIDE DEF p
  <2> QED BY <1>2, <2>1, <2>2, LostCounted
<1> QED BY <1>3, <1>4 DEF Loses

\* No other step changes what the bound says of a lost prompt.
LEMMA LostStays ==
  ASSUME IInv, [Next]_vars
  PROVE  (spent.lost => spent'.lost) /\ (spent'.lost => spent.lost \/ Loses)
<1> DEFINE same == spent'.lost <=> spent.lost
<1>1. \A ok \in BOOLEAN : Write(ok) \/ Happens(ok) => same
  BY LostCounted DEF Write, Happens
<1>2. \A bad \in 0 .. 2 : Write(bad = 0) => same
  BY <1>1
<1>3. \A ok \in BOOLEAN : Count(1, ok, FALSE) => same
  BY LostCounted
<1> HIDE DEF same
<1>4. spent' = spent => same
  BY DEF same
<1>5. CASE UNCHANGED vars
  BY <1>4, <1>5 DEF vars, same
<1>6. CASE Command
  BY <1>1, <1>6 DEF Command, Start, Pause, Stop, Complete, Resume, same
<1>7. CASE Tick \/ Prepared
  <2>1. CASE Tick
    BY <1>1, <1>4, <2>1 DEF Tick, PauseAtLimit, same
  <2>2. CASE PrepareDeclined \/ StalePrepareEnds \/ Deliver \/ DeliverUnwritten \/ Abandon
    BY <1>1, <1>4, <2>2 DEF PrepareDeclined, StalePrepareEnds, Deliver, DeliverUnwritten, Abandon,
                            PauseAtLimit, same
  <2>3. ASSUME NEW ok \in BOOLEAN, PrepareThrows(ok) \/ DeliverThrows(TRUE, ok)
        PROVE  same
    BY <1>1, <1>3, <2>3 DEF PrepareThrows, DeliverThrows
  <2>4. CASE Loses
    BY <2>4, Losing
  <2> QED BY <1>7, <2>1, <2>2, <2>3, <2>4 DEF Prepared, Loses, same
<1>8. CASE RunEnds \/ UserTurn
  BY <1>1, <1>2, <1>8 DEF RunEnds, Ends, UserTurn, same
<1>9. CASE Faults
  <2>1. ASSUME \/ \E res \in Errors \cup {"missing"} : EndsBadly(res)
               \/ \E why \in {"abort", "hang"} : HostAborts(why)
               \/ \E how \in {"crash", "close", "reload"}, ok \in BOOLEAN : Restart(how, ok)
        PROVE  same
    BY <1>1, <2>1 DEF EndsBadly, HostAborts, Restart
  <2>2. CASE Loses
    BY <2>2, Losing
  <2> QED BY <1>9, <2>1, <2>2 DEF Faults, Loses, same
<1>10. CASE RunSteps
  <2>1. CASE AgentEnd \/ LimitAsked \/ RunCloses \/ SettleUnused \/ SettleDiscarded \/ SettleIdle
    BY <1>4, <2>1 DEF AgentEnd, LimitAsked, RunCloses, SettleUnused, SettleDiscarded, SettleIdle, same
  <2>2. ASSUME NEW bad \in 0 .. 2, SettlePaused(bad) \/ SettleAborted(bad)
        PROVE  same
    BY <1>2, <2>2 DEF SettlePaused, SettleAborted
  <2>3. ASSUME NEW ok \in BOOLEAN,
               SettleTransport(ok) \/ SettleOverload(ok) \/ SettleResult(ok) \/ \E route \in BOOLEAN : LimitAnswered(route, ok)
        PROVE  same
    BY <1>1, <2>3 DEF SettleTransport, SettleOverload, SettleResult, LimitAnswered
  <2> QED BY <1>10, <2>1, <2>2, <2>3 DEF RunSteps, AgentSettled, same
<1>11. CASE Recovers
  BY <1>1, <1>4, <1>11 DEF Recovers, Watchdog, TurnTimeout, Compacted, same
<1> QED BY <1>5, <1>6, <1>7, <1>8, <1>9, <1>10, <1>11 DEF Next

\* A command keeps the history; where it completes the loop, the user says so.
LEMMA CommandKeeps ==
  ASSUME IInv, History, Command
  PROVE  History' /\ (~Complete(TRUE) => Proper)
<1>1. PICK ok \in BOOLEAN :
        \/ \E max \in Budgets : (\E full \in Modes : Start(max, full, ok)) \/ Resume(max, ok)
        \/ Pause(ok) \/ Stop(ok) \/ Complete(ok)
  BY DEF Command
<1>2. CASE \E max \in Budgets : (\E full \in Modes : Start(max, full, ok)) \/ Resume(max, ok)
  BY <1>2, StartKeeps, ResumeKeeps DEF Keeps
<1>3. CASE Pause(ok)
  BY <1>3, TimeoutKeeps DEF Keeps
<1>4. CASE Stop(ok) \/ Complete(ok)
  BY <1>4, EndKeeps
<1> QED BY <1>1, <1>2, <1>3, <1>4

\* Every step keeps it.
LEMMA HistoryKept ==
  ASSUME Imitated = {}, IInv, History, [Next]_vars, ~Loses
  PROVE  History' /\ (~Complete(TRUE) => Proper)
<1>1. CASE UNCHANGED vars
  <2>1. file' = file /\ rt' = rt /\ run' = run /\ UNCHANGED <<log, sends, results>>
    BY <1>1 DEF vars
  <2> QED BY <2>1, Now, SameRun, LesserSteps, KeepsQuiet DEF Keeps
<1>2. CASE Command
  BY <1>2, CommandKeeps
<1>3. CASE Tick
  BY <1>3, TickKeeps DEF Keeps
<1>4. CASE Prepared
  <2>1. ~\E ok \in BOOLEAN : DeliverThrows(FALSE, ok)
    BY DEF Loses
  <2>2. \/ PrepareDeclined \/ StalePrepareEnds \/ \E ok \in BOOLEAN : PrepareThrows(ok)
        \/ Abandon \/ DeliverUnwritten
        \/ Deliver \/ \E ok \in BOOLEAN : DeliverThrows(TRUE, ok)
    BY <1>4, <2>1 DEF Prepared
  <2>3. CASE PrepareDeclined \/ StalePrepareEnds \/ \E ok \in BOOLEAN : PrepareThrows(ok)
    BY <2>3, PrepareKeeps DEF Keeps
  <2>4. CASE Abandon \/ DeliverUnwritten
    BY <2>4, AbandonKeeps DEF Keeps
  <2>5. CASE Deliver \/ \E ok \in BOOLEAN : DeliverThrows(TRUE, ok)
    BY <2>5, DeliverKeeps DEF Keeps
  <2> QED BY <2>2, <2>3, <2>4, <2>5
<1>5. CASE RunEnds
  BY <1>5, RunEndKeeps DEF Keeps
<1>6. CASE RunSteps
  BY <1>6, AgentEndKeeps, SettledKeeps, HostKeeps, LimitAnsweredKeeps DEF RunSteps, Keeps
<1>7. CASE Recovers
  BY <1>7, RecoverKeeps, TimeoutKeeps DEF Recovers, Keeps
<1>8. CASE UserTurn
  BY <1>8, UserTurnKeeps DEF Keeps
<1>9. CASE Faults
  <2>1. ~DiesBeforeSend
    BY DEF Loses
  <2> QED BY <1>9, <2>1, RunEndKeeps, HostKeeps, RestartKeeps DEF Faults, Keeps
<1> QED BY <1>1, <1>2, <1>3, <1>4, <1>5, <1>6, <1>7, <1>8, <1>9 DEF Next

\* It holds at first: nothing was sent, and nothing is wanted.
LEMMA InitHistory == Init => HInv
<1> SUFFICES ASSUME Init PROVE HInv
  OBVIOUS
<1>1. IInv
  BY InitIInv
<1>2. /\ file.status = "none" /\ file.kind = "goal" /\ ~file.recovery /\ ~file.retry /\ file.streak = 0
      /\ file.why = "none" /\ ~rt.awaiting /\ ~rt.pausedPending /\ file.count = 0
  BY DEF Init, NoLoop, NewRuntime
<1>3. Coherent(file, rt) /\ ~Wanted(file, rt) /\ ~Counting(file, rt)
  BY <1>2 DEF Coherent, Wanted, Counting
<1>4. results = <<>> /\ DOMAIN results = {}
  BY DEF Init
<1>5. Recorded
  <2>1. Unsent \in [open : BOOLEAN, got : Outcomes]
    BY Values DEF Unsent
  <2> QED BY <1>4, <2>1 DEF Init, Recorded
<1>6. Scored
  <2>1. GoalResults = {}
    BY <1>4 DEF GoalResults
  <2>2. Cardinality(GoalResults) = 0
    BY <2>1, FS_EmptySet
  <2> QED BY <1>2, <1>3, <1>4, <2>2 DEF Scored
<1>7. Apart
  BY DEF Init, Apart, Busy, NoRun
<1> QED BY <1>1, <1>3, <1>5, <1>6, <1>7 DEF HInv, History, Attributed

\* Every step keeps the invariant.
LEMMA NextHistory == Imitated = {} /\ HInv /\ [Next]_vars => HInv'
BY NextIInv, LostStays, Losing, HistoryKept DEF HInv

\* However a turn is paused, aborted, retried, given back or recovered from the
\* transcript, a result is counted once, for the loop it is of, and no turn counts for
\* two: as long as no counted prompt was lost, and where the model writes no result
\* into the turns of the user.
THEOREM ResultsAreCounted == Imitated = {} => (Spec => []ResultsCounted)
<1> SUFFICES ASSUME Imitated = {} PROVE Spec => []ResultsCounted
  OBVIOUS
<1>1. HInv => ResultsCounted
  <2> SUFFICES ASSUME HInv PROVE ResultsCounted
    OBVIOUS
  <2>1. TypeOK
    BY Now DEF HInv, IInv, Typed, TypeOK, Loops, Statuses, Runs
  <2>2. file.count <= file.max
    BY DEF HInv, IInv, WithinBudget
  <2>3. ~spent.lost => OwnResults
    BY DEF HInv, History, Scored, OwnResults, GoalResults
  <2> QED BY <2>1, <2>2, <2>3 DEF ResultsCounted
<1>2. HInv /\ [Next]_vars => HInv'
  BY NextHistory
<1> QED BY <1>1, <1>2, InitHistory, PTL DEF Spec

\* "completed" is never the word of the turn that did the work: a loop that the user
\* does not close is completed by the result of a verification turn, under the same
\* assumptions.
THEOREM CompletionsVerified == Imitated = {} => (Spec => CompletionVerified)
<1> SUFFICES ASSUME Imitated = {} PROVE Spec => CompletionVerified
  OBVIOUS
<1> DEFINE A == file'.status = "completed" /\ file.status # "completed"
                /\ ~spent.lost /\ ~Complete(TRUE)
                  => /\ Len(results') > Len(results)
                     /\ results'[Len(results')].kind = "verification"
                     /\ results'[Len(results')].res = "verified"
<1>1. HInv /\ [Next]_vars => A
  <2> SUFFICES ASSUME HInv, [Next]_vars, ~spent.lost, ~Complete(TRUE),
                      file'.status = "completed", file.status # "completed"
               PROVE  A
    OBVIOUS
  <2>1. CASE ~Loses
    BY <2>1, HistoryKept DEF HInv, Proper
  <2>2. CASE Loses
    BY <2>2, Losing DEF HInv
  <2> QED BY <2>1, <2>2
<1>2. HInv /\ [Next]_vars => HInv'
  BY NextHistory
<1> QED BY <1>1, <1>2, InitHistory, PTL DEF Spec, CompletionVerified
=============================================================================
