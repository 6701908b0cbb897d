--------------------------- MODULE ResendProofs ---------------------------
(***************************************************************************)
(* Proofs about what a restart may not send again.                         *)
(*                                                                         *)
(* RestartResume, for any number of backends, tasks and attempts: no task  *)
(* is resent without an attempt in the budget file.                        *)
(*                                                                         *)
(* BotCodeRelay, for any number of requests, instructions, crashes, faults *)
(* and queued prompts: a request prompts Code once and is reported once,   *)
(* an instruction is sent again only after a crash, what is delivered is   *)
(* what the Bot was told or says that the user stopped it, and what is     *)
(* settled stays settled.                                                  *)
(***************************************************************************)
EXTENDS RestartResume, BotCodeRelay, FiniteSetTheorems, TLAPS

-----------------------------------------------------------------------------
(* The resume of tasks after a restart                                     *)

Statuses == {"settled", "working", "orphaned"}
Counts   == [Task -> 0 .. MaxAttempts]

\* The types, one group of variables each.
PhaseTyped  == phase \in [Backend -> Phases]
TaskTyped   == status \in [Task -> Statuses] /\ lease \in [Task -> Backend \cup {None}] /\ missed \subseteq Task
TimerTyped  == timers \in [Backend -> SUBSET Task]
StepTyped   == step \in [Backend -> Steps] /\ target \in [Backend -> Task \cup {None}]
ReadTyped   == read \in [Backend -> Counts] /\ section \in Backend \cup {None}
BudgetTyped == budget \in Counts /\ old \subseteq Task /\ intact \in BOOLEAN
ResentTyped == resent \in [Task -> Nat]
Typed == PhaseTyped /\ TaskTyped /\ TimerTyped /\ StepTyped /\ ReadTyped /\ BudgetTyped /\ ResentTyped

\* The backends that are about to send a prompt to t.
Sending(t) == {b \in Backend : At(b, "prompt") /\ target[b] = t}

\* Only a running backend resumes, under the lock while it has the file, and for a task.
Placed ==
  \A b \in Backend :
     /\ step[b] # "idle" => Running(b) /\ target[b] \in Task
     /\ step[b] \in {"read", "write"} => section = b
     /\ step[b] \in {"write", "prompt"} => intact

\* What a backend is about to write back is the file as it still is, but for records
\* past their window; those of the task it resumes are exact.
ReadExact ==
  \A b \in Backend : step[b] = "write" =>
     /\ \A t \in Task : read[b][t] = budget[t] \/ (t \in old /\ read[b][t] = 0)
     /\ target[b] \in old => read[b][target[b]] = 0

\* The record of a task that is about to be resent is not past its window.
SendingFresh == \A b \in Backend : step[b] = "prompt" => target[b] \notin old

\* Every prompt sent, or about to be sent, has an attempt of its own in the file.
Budgeted == \A t \in Task : /\ IsFiniteSet(Sending(t))
                            /\ resent[t] + Cardinality(Sending(t)) <= budget[t]

IInv == Typed /\ Placed /\ ReadExact /\ SendingFresh /\ Budgeted
-----------------------------------------------------------------------------
LEMMA TypedMeans == IInv => ResendsBudgeted
<1> SUFFICES ASSUME IInv PROVE ResendsBudgeted
  OBVIOUS
<1> USE AttemptsAssumption DEF IInv
<1>1. ASSUME NEW t \in Task
      PROVE  /\ resent[t] \in 0 .. MaxAttempts
             /\ resent[t] + Cardinality({b \in Backend : At(b, "prompt") /\ target[b] = t}) <= budget[t]
  <2>1. Cardinality(Sending(t)) \in Nat
    BY FS_CardinalityType DEF Budgeted
  <2>2. resent[t] \in Nat /\ budget[t] \in 0 .. MaxAttempts
    BY DEF Typed, ResentTyped, BudgetTyped, Counts
  <2>3. resent[t] + Cardinality(Sending(t)) <= budget[t]
    BY DEF Budgeted
  <2>4. resent[t] \in 0 .. MaxAttempts
    BY <2>1, <2>2, <2>3
  <2> QED BY <2>3, <2>4 DEF Sending
<1>2. resent \in [Task -> 0 .. MaxAttempts]
  BY <1>1 DEF Typed, ResentTyped
<1>3. TypeOK
  BY <1>2 DEF TypeOK, Typed, PhaseTyped, TaskTyped, TimerTyped, StepTyped, ReadTyped, BudgetTyped,
     Counts, Statuses
<1> QED BY <1>1, <1>3 DEF ResendsBudgeted

LEMMA InitInv == Init => IInv
<1> SUFFICES ASSUME Init PROVE IInv
  OBVIOUS
<1> USE AttemptsAssumption DEF Init
<1>1. Typed
  BY DEF Typed, PhaseTyped, TaskTyped, TimerTyped, StepTyped, ReadTyped, BudgetTyped, ResentTyped,
     Counts, Statuses, Phases, Steps
<1>2. Placed /\ ReadExact /\ SendingFresh
  BY DEF Placed, ReadExact, SendingFresh
<1>3. Budgeted
  <2>1. ASSUME NEW t \in Task
        PROVE  IsFiniteSet(Sending(t)) /\ resent[t] + Cardinality(Sending(t)) <= budget[t]
    <3>1. Sending(t) = {}
      BY DEF Sending, At
    <3>2. IsFiniteSet(Sending(t)) /\ Cardinality(Sending(t)) = 0
      BY <3>1, FS_EmptySet, Zenon
    <3>3. resent[t] = 0 /\ budget[t] = 0
      OBVIOUS
    <3> QED BY <3>2, <3>3
  <2> QED BY <2>1 DEF Budgeted
<1> QED BY <1>1, <1>2, <1>3 DEF IInv

\* A set of backends that does not grow keeps the budget.
LEMMA FewerSending ==
  ASSUME Typed, Budgeted, NEW t \in Task, Sending(t)' \subseteq Sending(t),
         resent'[t] = resent[t], budget'[t] = budget[t]
  PROVE  IsFiniteSet(Sending(t)') /\ resent'[t] + Cardinality(Sending(t)') <= budget'[t]
<1>1. IsFiniteSet(Sending(t)) /\ resent[t] + Cardinality(Sending(t)) <= budget[t]
  BY DEF Budgeted
<1>2. IsFiniteSet(Sending(t)') /\ Cardinality(Sending(t)') <= Cardinality(Sending(t))
  BY <1>1, FS_Subset
<1>3. Cardinality(Sending(t)) \in Nat /\ Cardinality(Sending(t)') \in Nat
  BY <1>1, <1>2, FS_CardinalityType
<1>4. resent[t] \in Nat /\ budget[t] \in Nat
  BY AttemptsAssumption DEF Typed, ResentTyped, BudgetTyped, Counts
<1> QED BY <1>1, <1>2, <1>3, <1>4

LEMMA NoneSending ==
  ASSUME NEW t \in Task, Sending(t)' = {}, resent'[t] = 0, budget'[t] \in Nat
  PROVE  IsFiniteSet(Sending(t)') /\ resent'[t] + Cardinality(Sending(t)') <= budget'[t]
BY FS_EmptySet

\* Of a running backend only the step counts.
LEMMA SendingIs ==
  ASSUME Placed, NEW t \in Task
  PROVE  Sending(t) = {b \in Backend : step[b] = "prompt" /\ target[b] = t}
BY DEF Sending, Placed, At

LEMMA SendingIsNext ==
  ASSUME Placed', NEW t \in Task
  PROVE  Sending(t)' = {b \in Backend : step'[b] = "prompt" /\ target'[b] = t}
BY DEF Sending, Placed, At, Running

\* A step that no resume takes part in, and that ends no process.
LEMMA Aside ==
  ASSUME IInv, PhaseTyped', TaskTyped', TimerTyped', UNCHANGED <<step, target, budgetVars>>,
         \A b \in Backend : Running(b) => Running(b)'
  PROVE  IInv'
<1> USE DEF IInv, budgetVars
<1>1. Typed'
  BY DEF Typed, StepTyped, ReadTyped, BudgetTyped, ResentTyped
<1>2. Placed'
  BY DEF Placed
<1>3. ReadExact' /\ SendingFresh'
  BY DEF ReadExact, SendingFresh
<1>4. Budgeted'
  <2>1. ASSUME NEW t \in Task PROVE Sending(t)' = Sending(t)
    BY <1>2, SendingIs, SendingIsNext
  <2> QED BY <2>1 DEF Budgeted
<1> QED BY <1>1, <1>2, <1>3, <1>4

\* Starting, stopping, registering and reconciling.
LEMMA LifeInv ==
  ASSUME IInv, NEW b \in Backend,
         Start(b) \/ Stop(b) \/ Register(b) \/ Reconcile(b) \/ RuntimeReconcile(b)
  PROVE  IInv'
<1> USE DEF IInv, Typed
<1>1. UNCHANGED <<step, target, budgetVars>>
  BY DEF Start, Stop, Register, Reconcile, RuntimeReconcile
<1>2. PhaseTyped' /\ \A c \in Backend : Running(c) => Running(c)'
  BY DEF PhaseTyped, Phases, Running, Becomes, Start, Stop, Register, Reconcile, RuntimeReconcile
<1>3. TaskTyped'
  BY DEF TaskTyped, Statuses, Patch, Start, Stop, Register, Reconcile, RuntimeReconcile, turnVars
<1>4. TimerTyped'
  BY DEF TimerTyped, Offer, PersistedOrphans, Orphans, Start, Stop, Register, Reconcile,
     RuntimeReconcile
<1> QED BY <1>1, <1>2, <1>3, <1>4, Aside

\* Turns that the user starts or stops, and turns that end.
LEMMA TurnInv ==
  ASSUME IInv, NEW t \in Task,
         (\E b \in Backend : UserPrompt(b, t) \/ UserStop(b, t)) \/ TurnEnds(t) \/ LeaseExpires(t)
  PROVE  IInv'
<1> USE DEF IInv, Typed
<1>1. UNCHANGED <<phase, timers, step, target, budgetVars>>
  BY DEF UserPrompt, UserStop, TurnEnds, LeaseExpires
<1>2. TaskTyped'
  BY DEF TaskTyped, Statuses, UserPrompt, UserStop, TurnEnds, LeaseExpires, StartTurn
<1>3. PhaseTyped' /\ TimerTyped' /\ \A b \in Backend : Running(b) => Running(b)'
  BY <1>1 DEF PhaseTyped, TimerTyped, Running
<1> QED BY <1>1, <1>2, <1>3, Aside

\* A process that ends takes its resume and its hold on the lock with it.
LEMMA DieInv ==
  ASSUME IInv, NEW b \in Backend, Die(b)
  PROVE  IInv'
<1> USE DEF IInv, Die, Finish, Goto, Becomes, turnVars
<1>1. Typed'
  BY AttemptsAssumption, NoneAssumption
     DEF Typed, PhaseTyped, TaskTyped, TimerTyped, StepTyped, ReadTyped, BudgetTyped, ResentTyped,
     Counts, Phases, Steps
<1>2. Placed'
  BY DEF Placed, Running, Typed, PhaseTyped, StepTyped
<1>3. ReadExact' /\ SendingFresh'
  BY DEF ReadExact, SendingFresh, Typed, StepTyped, ReadTyped
<1>4. Budgeted'
  <2>1. ASSUME NEW t \in Task PROVE Sending(t)' \subseteq Sending(t)
    BY <1>2, SendingIs, SendingIsNext DEF Typed, StepTyped
  <2> QED BY <2>1, FewerSending DEF Budgeted
<1> QED BY <1>1, <1>2, <1>3, <1>4

\* The steps of a resume that leave the file as it is and send nothing.
LEMMA QuietInv ==
  ASSUME IInv, NEW b \in Backend,
         \/ \E t \in Task : ResumeOrphanedTask(b, t)
         \/ TakeLock(b) \/ LockBusy(b) \/ ReadAttempts(b) \/ ClaimFails(b) \/ PromptFails(b)
  PROVE  IInv'
<1> USE DEF IInv, Typed
<1>1. UNCHANGED <<phase, turnVars, budget, old, intact, resent>>
  BY DEF ResumeOrphanedTask, TakeLock, LockBusy, ReadAttempts, ClaimFails, PromptFails, budgetVars
<1>2. PhaseTyped' /\ TaskTyped' /\ BudgetTyped' /\ ResentTyped'
  BY <1>1 DEF turnVars, PhaseTyped, TaskTyped, BudgetTyped, ResentTyped
<1>3. TimerTyped' /\ StepTyped'
  BY DEF TimerTyped, StepTyped, Steps, ResumeOrphanedTask, TakeLock, LockBusy, ReadAttempts,
     ClaimFails, PromptFails, Finish, Goto, budgetVars
<1>4. ReadTyped'
  BY AttemptsAssumption DEF ReadTyped, BudgetTyped, Counts, ResumeOrphanedTask, TakeLock,
     LockBusy, ReadAttempts, ClaimFails, PromptFails, budgetVars
<1>5. Placed'
  BY <1>1, NoneAssumption
     DEF Placed, ResumeOrphanedTask, TakeLock, LockBusy, ReadAttempts, ClaimFails, PromptFails,
     Finish, Goto, At, Idle, Running, SectionFree, StepTyped, budgetVars
<1>6. ASSUME NEW c \in Backend, step'[c] = "prompt" \/ (step'[c] = "write" /\ ~ReadAttempts(b))
      PROVE  step'[c] = step[c] /\ target'[c] = target[c]
  BY <1>6 DEF ResumeOrphanedTask, TakeLock, LockBusy, ReadAttempts, ClaimFails,
     PromptFails, Finish, Goto, StepTyped, Steps, budgetVars
<1>7. SendingFresh'
  BY <1>1, <1>6 DEF SendingFresh
<1>8. ReadExact'
  <2>1. CASE ReadAttempts(b)
    <3>1. ASSUME NEW c \in Backend, step'[c] = "write" PROVE c = b
      BY <2>1, <3>1 DEF ReadAttempts, Placed, StepTyped, Goto, At
    <3>2. read'[b] = [t \in Task |-> IF t \in old THEN 0 ELSE budget[t]] /\ target'[b] \in Task
      BY <2>1 DEF ReadAttempts, ReadTyped, Placed, At
    <3> QED BY <1>1, <3>1, <3>2 DEF ReadExact
  <2>2. CASE ~ReadAttempts(b)
    <3>1. ASSUME NEW c \in Backend, step'[c] = "write" PROVE read'[c] = read[c]
      BY <2>2, <3>1
         DEF ResumeOrphanedTask, TakeLock, LockBusy, ClaimFails, PromptFails, Finish, Goto,
         StepTyped, ReadTyped, Steps, budgetVars
    <3> QED BY <1>1, <1>6, <2>2, <3>1 DEF ReadExact
  <2> QED BY <2>1, <2>2
<1>9. Budgeted'
  <2>1. ASSUME NEW t \in Task PROVE Sending(t)' \subseteq Sending(t)
    BY <1>5, <1>6, SendingIs, SendingIsNext
  <2> QED BY <1>1, <2>1, FewerSending DEF Budgeted
<1> QED BY <1>2, <1>3, <1>4, <1>5, <1>7, <1>8, <1>9

\* A file that cannot be interpreted is set aside while nobody writes or sends.
LEMMA SetAsideInv ==
  ASSUME IInv, NEW b \in Backend, SetAside(b)
  PROVE  IInv'
<1> USE DEF IInv, SetAside, Finish, Goto, turnVars
<1>1. Typed'
  BY AttemptsAssumption
     DEF Typed, PhaseTyped, TaskTyped, TimerTyped, StepTyped, ReadTyped, BudgetTyped, ResentTyped,
     Counts, Steps
<1>2. ASSUME NEW c \in Backend
      PROVE  step'[c] \notin {"write", "prompt"}
  BY DEF Placed, Typed, StepTyped
<1>3. Placed'
  BY <1>2 DEF Placed, Running, At, Typed, StepTyped
<1>4. ReadExact' /\ SendingFresh'
  BY <1>2 DEF ReadExact, SendingFresh
<1>5. Budgeted'
  <2>1. ASSUME NEW t \in Task PROVE Sending(t)' = {} /\ resent'[t] = 0 /\ budget'[t] = 0
    BY <1>2, <1>3, SendingIsNext
  <2> QED BY <2>1, NoneSending DEF Budgeted
<1> QED BY <1>1, <1>3, <1>4, <1>5

\* The attempt is in the file before the prompt is due.
LEMMA WriteInv ==
  ASSUME IInv, NEW b \in Backend, WriteAttempts(b)
  PROVE  IInv'
<1> USE DEF IInv
<1> DEFINE t == target[b]
           granted == AttemptsLeft(read[b][t])
           dropped == {u \in old : read[b][u] = 0}
<1>1. /\ step[b] = "write" /\ Running(b) /\ section = b /\ intact /\ t \in Task
      /\ section' = None
      /\ UNCHANGED <<phase, turnVars, timers, intact>>
  BY DEF WriteAttempts, At, Placed
<1>2. /\ budget' = IF granted THEN [read[b] EXCEPT ![t] = Spent(@)] ELSE read[b]
      /\ old' = old \ dropped
      /\ resent' = [u \in Task |-> IF u \in dropped THEN 0 ELSE resent[u]]
      /\ read' = [read EXCEPT ![b] = [u \in Task |-> 0]]
  BY DEF WriteAttempts
<1>3. /\ step' = [step EXCEPT ![b] = IF granted THEN "prompt" ELSE "idle"]
      /\ target' = IF granted THEN target ELSE [target EXCEPT ![b] = None]
  BY DEF WriteAttempts, Goto, Finish
<1>4. read[b] \in Counts /\ read[b][t] \in 0 .. MaxAttempts
  BY <1>1 DEF Typed, ReadTyped, Counts
<1>5. Typed'
  <2>1. budget' \in Counts
    BY <1>1, <1>2, <1>4, AttemptsAssumption DEF Counts, AttemptsLeft, Spent
  <2>2. read' \in [Backend -> Counts] /\ resent' \in [Task -> Nat]
    BY <1>2, AttemptsAssumption DEF Typed, ReadTyped, ResentTyped, Counts
  <2>3. StepTyped'
    BY <1>3 DEF Typed, StepTyped, Steps
  <2> QED BY <1>1, <1>2, <2>1, <2>2, <2>3
          DEF turnVars, Typed, PhaseTyped, TaskTyped, TimerTyped, ReadTyped, BudgetTyped, ResentTyped
<1>6. ASSUME NEW c \in Backend, c # b
      PROVE  step'[c] = step[c] /\ target'[c] = target[c] /\ step[c] \notin {"read", "write"}
  BY <1>1, <1>3, <1>6 DEF Typed, StepTyped, Placed
<1>7. /\ step'[b] = IF granted THEN "prompt" ELSE "idle"
      /\ granted => target'[b] = t
  BY <1>3 DEF Typed, StepTyped
<1>8. Placed'
  BY <1>1, <1>6, <1>7 DEF Placed, Running
<1>9. ReadExact'
  BY <1>6, <1>7 DEF ReadExact
<1>10. SendingFresh'
  <2>1. t \in old => t \in dropped
    BY <1>1 DEF ReadExact
  <2> QED BY <1>2, <1>6, <1>7, <2>1 DEF SendingFresh
<1>11. ASSUME NEW u \in Task
       PROVE  IsFiniteSet(Sending(u)') /\ resent'[u] + Cardinality(Sending(u)') <= budget'[u]
  <2>1. Sending(u) = {c \in Backend : step[c] = "prompt" /\ target[c] = u}
    BY SendingIs
  <2>2. Sending(u)' = {c \in Backend : step'[c] = "prompt" /\ target'[c] = u}
    BY <1>8, SendingIsNext
  <2>3. Sending(u)' = IF granted /\ u = t THEN Sending(u) \cup {b} ELSE Sending(u)
    BY <1>1, <1>6, <1>7, <2>1, <2>2
  <2>4. b \notin Sending(u)
    BY <1>1, <2>1
  <2>5. IsFiniteSet(Sending(u)) /\ resent[u] + Cardinality(Sending(u)) <= budget[u]
    BY DEF Budgeted
  <2>6. u \in dropped => Sending(u) = {}
    BY <2>1 DEF SendingFresh
  <2>7. Cardinality(Sending(u)) \in Nat /\ resent[u] \in Nat /\ budget[u] \in Nat /\ read[b][u] \in Nat
    BY <1>4, <2>5, FS_CardinalityType, AttemptsAssumption
       DEF Typed, ResentTyped, BudgetTyped, Counts
  <2>8. resent'[u] + Cardinality(Sending(u)) <= read[b][u]
    <3>1. CASE u \in dropped
      BY <1>2, <2>6, <2>7, <3>1, FS_EmptySet
    <3>2. CASE u \notin dropped
      BY <1>1, <1>2, <2>5, <3>2 DEF ReadExact
    <3> QED BY <3>1, <3>2
  <2>9. resent'[u] \in Nat
    BY <1>2, <2>7
  <2>10. CASE granted /\ u = t
    <3>1. budget'[u] = read[b][u] + 1
      BY <1>2, <1>4, <2>10 DEF Counts, Spent
    <3>2. IsFiniteSet(Sending(u)') /\ Cardinality(Sending(u)') = Cardinality(Sending(u)) + 1
      BY <2>3, <2>4, <2>5, <2>10, FS_AddElement
    <3> QED BY <2>7, <2>8, <2>9, <3>1, <3>2
  <2>11. CASE ~(granted /\ u = t)
    <3>1. budget'[u] = read[b][u]
      BY <1>2, <1>4, <2>11 DEF Counts
    <3> QED BY <2>3, <2>5, <2>8, <2>11, <3>1
  <2> QED BY <2>10, <2>11
<1> QED BY <1>5, <1>8, <1>9, <1>10, <1>11 DEF Budgeted

\* A prompt that is sent uses the attempt that was recorded for it.
LEMMA PromptInv ==
  ASSUME IInv, NEW b \in Backend, PromptTask(b)
  PROVE  IInv'
<1> USE DEF IInv
<1> DEFINE t == target[b]
<1>1. /\ step[b] = "prompt" /\ t \in Task
      /\ resent' = [resent EXCEPT ![t] = @ + 1]
      /\ step' = [step EXCEPT ![b] = "idle"]
      /\ target' = [target EXCEPT ![b] = None]
      /\ UNCHANGED <<phase, timers, read, section, budget, old, intact>>
  BY DEF PromptTask, Finish, Goto, At, Placed
<1>2. Typed'
  <2>1. TaskTyped'
    BY <1>1 DEF PromptTask, StartTurn, Typed, TaskTyped, Statuses
  <2> QED BY <1>1, <2>1
          DEF Typed, PhaseTyped, TimerTyped, StepTyped, Steps, ReadTyped, BudgetTyped, ResentTyped
<1>3. ASSUME NEW c \in Backend
      PROVE  IF c = b THEN step'[c] = "idle" ELSE step'[c] = step[c] /\ target'[c] = target[c]
  BY <1>1 DEF Typed, StepTyped
<1>4. Placed'
  BY <1>1, <1>3 DEF Placed, Running
<1>5. ReadExact' /\ SendingFresh'
  BY <1>1, <1>3 DEF ReadExact, SendingFresh
<1>6. ASSUME NEW u \in Task
      PROVE  IsFiniteSet(Sending(u)') /\ resent'[u] + Cardinality(Sending(u)') <= budget'[u]
  <2>1. Sending(u) = {c \in Backend : step[c] = "prompt" /\ target[c] = u}
    BY SendingIs
  <2>2. Sending(u)' = {c \in Backend : step'[c] = "prompt" /\ target'[c] = u}
    BY <1>4, SendingIsNext
  <2>3. Sending(u)' = Sending(u) \ {b}
    BY <1>3, <2>1, <2>2
  <2>4. CASE u # t
    <3>1. resent'[u] = resent[u] /\ budget'[u] = budget[u]
      BY <1>1, <2>4 DEF Typed, ResentTyped
    <3> QED BY <2>3, <3>1, FewerSending
  <2>5. CASE u = t
    <3>1. b \in Sending(u)
      BY <1>1, <2>1, <2>5
    <3>2. IsFiniteSet(Sending(u)) /\ resent[u] + Cardinality(Sending(u)) <= budget[u]
      BY DEF Budgeted
    <3>3. IsFiniteSet(Sending(u)') /\ Cardinality(Sending(u)') = Cardinality(Sending(u)) - 1
      BY <2>3, <3>1, <3>2, FS_RemoveElement
    <3>4. resent[u] \in Nat /\ budget[u] \in Nat /\ Cardinality(Sending(u)) \in Nat
      BY <3>2, FS_CardinalityType, AttemptsAssumption DEF Typed, ResentTyped, BudgetTyped, Counts
    <3>5. resent'[u] = resent[u] + 1 /\ budget'[u] = budget[u]
      BY <1>1, <2>5 DEF Typed, ResentTyped
    <3> QED BY <3>2, <3>3, <3>4, <3>5
  <2> QED BY <2>4, <2>5
<1> QED BY <1>2, <1>4, <1>5, <1>6 DEF Budgeted

\* Time and damage.
LEMMA EnvironmentInv ==
  ASSUME IInv, (\E t \in Task : WindowPasses(t)) \/ CorruptBudget
  PROVE  IInv'
<1> USE DEF IInv
<1>1. /\ UNCHANGED <<phase, turnVars, timers, step, target, read, section, budget, resent>>
      /\ old \subseteq old' /\ old' \subseteq Task
      /\ \A b \in Backend : target[b] \notin old' \ old
      /\ intact' # intact => \A b \in Backend : step[b] = "idle"
      /\ intact' \in BOOLEAN
  BY DEF WindowPasses, CorruptBudget, Typed, BudgetTyped
<1>2. Typed'
  BY <1>1 DEF turnVars, Typed, PhaseTyped, TaskTyped, TimerTyped, StepTyped, ReadTyped, BudgetTyped, ResentTyped
<1>3. Placed'
  BY <1>1 DEF Placed, Running
<1>4. ReadExact' /\ SendingFresh'
  BY <1>1 DEF ReadExact, SendingFresh
<1>5. Budgeted'
  <2>1. ASSUME NEW t \in Task PROVE Sending(t)' = Sending(t)
    BY <1>1, <1>3, SendingIs, SendingIsNext
  <2> QED BY <1>1, <2>1 DEF Budgeted
<1> QED BY <1>2, <1>3, <1>4, <1>5

LEMMA InvStep == IInv /\ [Next]_vars => IInv'
<1> SUFFICES ASSUME IInv, [Next]_vars PROVE IInv'
  OBVIOUS
<1>1. ASSUME NEW b \in Backend, Start(b) \/ Stop(b) \/ Die(b) \/ BackendStep(b) PROVE IInv'
  BY <1>1, LifeInv, DieInv, QuietInv, SetAsideInv, WriteInv, PromptInv DEF BackendStep, ResumeStep
<1>2. ASSUME NEW b \in Backend, NEW t \in Task, UserPrompt(b, t) \/ UserStop(b, t) PROVE IInv'
  BY <1>2, TurnInv
<1>3. ASSUME NEW t \in Task, TurnEnds(t) \/ LeaseExpires(t) \/ WindowPasses(t) PROVE IInv'
  BY <1>3, TurnInv, EnvironmentInv
<1>4. CASE CorruptBudget
  BY <1>4, EnvironmentInv
<1>5. CASE UNCHANGED vars
  <2>1. PhaseTyped' /\ TaskTyped' /\ TimerTyped' /\ \A b \in Backend : Running(b) => Running(b)'
    BY <1>5 DEF vars, turnVars, IInv, Typed, PhaseTyped, TaskTyped, TimerTyped, Running
  <2> QED BY <1>5, <2>1, Aside DEF vars
<1> QED BY <1>1, <1>2, <1>3, <1>4, <1>5 DEF Next

LEMMA SpecInv == Spec => []IInv
BY InitInv, InvStep, PTL DEF Spec

\* restart-resume.mjs, "Never resend without recording the retry budget first": every
\* prompt that a resume has sent, or is about to send, has an attempt of its own in the
\* file, however the backends interleave, stop, crash and find the file damaged; and the
\* count in the file never passes RESTART_RESUME_MAX_ATTEMPTS.
THEOREM EveryResendBudgeted == Spec => []ResendsBudgeted
BY SpecInv, TypedMeans, PTL
-----------------------------------------------------------------------------
(* The relay of Bot Code requests                                          *)

RequestRec == [state : States, stopped : BOOLEAN, task : BOOLEAN,
               supervision : BOOLEAN, result : Outcomes]

\* The types of what a request's own invariant speaks of, and the others'.
RequestTyped ==
  /\ rec \in [Requests -> RequestRec]
  /\ told \in [Requests -> Outcomes] /\ copy \in [Requests -> Outcomes]
  /\ lock \subseteq Requests
  /\ launch \in [Requests -> {"no", "creating", "linked", "running"}]
  /\ scan \in [Requests -> {"idle", "todo", "capturing", "aborting", "sending", "sent",
                            "deliver", "reporting", "confirming"}]
  /\ capture \in [Requests -> {"no", "scan", "complete"}]
  /\ due \subseteq Launched
  /\ stopping \in [Requests -> {"no", "stop", "cancel"}]
  /\ prompts \in [Requests -> Nat] /\ reports \in [Requests -> Nat]
  /\ crashes \in Nat
CodeTyped ==
  /\ answered \subseteq Launched
  /\ chain \in [Launched -> Seq(Requests \cup {User})]
  /\ enabled \in BOOLEAN /\ current \subseteq Launched
  /\ botLock \in Requests \cup {NoRequest}
  /\ crashes \in 0..MaxCrashes /\ faults \in 0..MaxFaults

\* Only a request that creates or adopts a task is launched, stopped or captured.
OfBot(q) ==
  \/ launch[q] # "no" \/ capture[q] # "no" \/ stopping[q] = "stop"
  \/ rec[q].stopped \/ rec[q].supervision
  => q \in Launched

\* A launch holds the request lock, and has not prompted the task yet.
LaunchHolds(q) ==
  launch[q] # "no" =>
    /\ q \in lock /\ capture[q] = "no" /\ scan[q] # "aborting"
    /\ ~rec[q].supervision /\ prompts[q] = 0
    /\ rec[q].state = IF launch[q] = "running" THEN "running" ELSE "starting"

\* A capture holds the request lock; only a task of the user's can be taken back under it.
CaptureHolds(q) ==
  capture[q] # "no" =>
    /\ q \in lock /\ scan[q] # "aborting"
    /\ rec[q].state = "running" \/ (rec[q].state = "cancelled" /\ rec[q].supervision)

\* So does the tick that prompts the task, or aborts it.
ScanHolds(q) ==
  /\ scan[q] \in {"sending", "sent"} =>
       q \in Interventions /\ q \in lock /\ rec[q].state = "starting"
  /\ scan[q] = "aborting" => q \in lock

\* A request is launched once, from a file that is written for the first time.
LaunchedOnce(q) ==
  q \in Launched =>
    /\ prompts[q] <= 1 /\ reports[q] <= 1
    /\ rec[q].state = "none" => prompts[q] = 0 /\ ~rec[q].supervision
    /\ rec[q].state # "queued"

\* An instruction that is not settled has been sent at most once per crash.
SentPerCrash(q) ==
  q \in Interventions =>
    /\ rec[q].state \notin {"running", "ready"}
    /\ prompts[q] <= 1 + crashes
    /\ rec[q].state \in {"none", "queued", "starting"} /\ scan[q] # "sent" => prompts[q] <= crashes

\* What is reported and delivered is a result, after a stop the stop.
ResultTold(q) ==
  /\ told[q] = "none" => reports[q] = 0
  /\ rec[q].state = "ready" => rec[q].result # "none"
  /\ scan[q] = "reporting" => copy[q] # "none"
  /\ rec[q].state = "delivered" /\ rec[q].stopped => rec[q].result = "stopped"

\* From its report on a result is the one that is reported, unless a stop lands; what has
\* been reported is not launched or captured again, and only that is delivered.
Agrees(q, result) == rec[q].stopped \/ rec[q].state = "cancelled" \/ rec[q].result = result
ReportHolds(q) ==
  /\ told[q] # "none" \/ scan[q] \in {"reporting", "confirming"} =>
       /\ q \in Launched /\ launch[q] = "no" /\ capture[q] = "no"
       /\ rec[q].state \in {"ready", "delivered", "cancelled"}
  /\ told[q] # "none" => Agrees(q, told[q])
  /\ scan[q] = "reporting" => Agrees(q, copy[q])
  /\ scan[q] = "confirming" => told[q] # "none"
  /\ rec[q].state = "delivered" /\ q \in Launched => told[q] # "none"

RequestInv(q) ==
  /\ OfBot(q) /\ LaunchHolds(q) /\ CaptureHolds(q) /\ ScanHolds(q)
  /\ LaunchedOnce(q) /\ SentPerCrash(q)
  /\ ResultTold(q) /\ ReportHolds(q)
RelayInv == RequestTyped /\ CodeTyped /\ \A q \in Requests : RequestInv(q)

\* A settled request that no late capture of a task of the user's can bring back.
Kept(q) == Final(q) /\ ~(rec[q].supervision /\ capture[q] # "no")

USE DEF fileVars, taskVars, lockVars, scanVars, restVars

LEMMA RequestFacts ==
  /\ Requests = Launched \cup Interventions /\ Launched \cap Interventions = {}
  /\ MaxCrashes \in Nat /\ MaxFaults \in Nat
  /\ States = {"none", "queued", "starting", "running", "ready", "delivered", "cancelled"}
  /\ Outcomes = {"none", "done", "failed", "stopped"}
  /\ \A r \in Requests : Code(r) \in Launched
BY RelayAssumption DEF Requests, States, Outcomes, Code

LEMMA RelayTyped == RequestTyped /\ CodeTyped => RelayTypeOK
BY DEF RequestTyped, CodeTyped, RelayTypeOK, RequestRec

LEMMA RelayInitInv == RelayInit => RelayInv
<1> SUFFICES ASSUME RelayInit PROVE RelayInv
  OBVIOUS
<1>1. RequestTyped
  BY RequestFacts DEF RelayInit, RequestTyped, RequestRec
<1>2. CodeTyped
  <2>1. <<>> \in Seq(Requests \cup {User}) /\ <<User>> \in Seq(Requests \cup {User})
    OBVIOUS
  <2>2. chain \in [Launched -> Seq(Requests \cup {User})]
    BY <2>1, Zenon DEF RelayInit
  <2>3. /\ answered \subseteq Launched /\ enabled \in BOOLEAN /\ current \subseteq Launched
        /\ botLock \in Requests \cup {NoRequest}
    BY DEF RelayInit
  <2>4. crashes \in 0..MaxCrashes /\ faults \in 0..MaxFaults
    BY RequestFacts DEF RelayInit
  <2> QED
    BY <2>2, <2>3, <2>4 DEF CodeTyped
<1>3. ASSUME NEW q \in Requests PROVE RequestInv(q)
  BY RequestFacts DEF RelayInit, RequestInv, OfBot, LaunchHolds, CaptureHolds, ScanHolds,
     LaunchedOnce, SentPerCrash, ResultTold, ReportHolds, Agrees
<1> QED
  BY <1>1, <1>2, <1>3 DEF RelayInv

\* A prompt joins a chain of prompts.
LEMMA SendPromptTyped ==
  ASSUME chain \in [Launched -> Seq(Requests \cup {User})], NEW r \in Requests, SendPrompt(r)
  PROVE  chain' \in [Launched -> Seq(Requests \cup {User})]
<1>1. Code(r) \in Launched
  BY RequestFacts
<1>2. chain[Code(r)] \in Seq(Requests \cup {User})
  BY <1>1
<1>3. Append(chain[Code(r)], r) \in Seq(Requests \cup {User})
  BY <1>2
<1> QED
  BY <1>3 DEF SendPrompt

\* The abort of a turn empties it.
LEMMA AbortTurnTyped ==
  ASSUME chain \in [Launched -> Seq(Requests \cup {User})], answered \subseteq Launched,
         NEW t \in Launched, AbortTurn(t) \/ UNCHANGED <<chain, answered>>
  PROVE  chain' \in [Launched -> Seq(Requests \cup {User})] /\ answered' \subseteq Launched
<1>1. <<>> \in Seq(Requests \cup {User})
  OBVIOUS
<1>2. CASE AbortTurn(t)
  <2>1. chain' \in [Launched -> Seq(Requests \cup {User})]
    BY <1>1, <1>2, Zenon DEF AbortTurn
  <2>2. answered' \subseteq Launched
    BY <1>2 DEF AbortTurn
  <2> QED
    BY <2>1, <2>2
<1>3. CASE UNCHANGED <<chain, answered>>
  BY <1>3
<1> QED
  BY <1>2, <1>3

LEMMA LaunchBeginsKeeps ==
  ASSUME RelayInv, NEW r \in Requests, LaunchBegins(r)
  PROVE  RelayInv'
<1>1. RequestTyped'
  <2>1. rec' \in [Requests -> RequestRec]
    <3>1. rec[r] \in RequestRec
      BY DEF RelayInv, RequestTyped
    <3>2. [rec[r] EXCEPT !.state = "starting"] \in RequestRec
      BY <3>1, RequestFacts DEF RequestRec
    <3> QED
      BY <3>2 DEF RelayInv, RequestTyped, LaunchBegins, Save
  <2>2. scan' \in [Requests -> {"idle", "todo", "capturing", "aborting", "sending", "sent",
                                "deliver", "reporting", "confirming"}]
    BY SMTT(30) DEF RelayInv, RequestTyped, LaunchBegins, Save, Locked
  <2>3. /\ told' \in [Requests -> Outcomes] /\ lock' \subseteq Requests
        /\ launch' \in [Requests -> {"no", "creating", "linked", "running"}]
        /\ capture' \in [Requests -> {"no", "scan", "complete"}]
    BY SMTT(30) DEF RelayInv, RequestTyped, LaunchBegins, Save, Locked
  <2>4. copy' \in [Requests -> Outcomes]
    BY RequestFacts DEF RelayInv, RequestTyped, LaunchBegins
  <2>5. /\ due' \subseteq Launched
        /\ stopping' \in [Requests -> {"no", "stop", "cancel"}]
        /\ prompts' \in [Requests -> Nat] /\ reports' \in [Requests -> Nat]
        /\ crashes' \in Nat
    BY RequestFacts, SMTT(30) DEF RelayInv, RequestTyped, RequestInv, OfBot, LaunchBegins,
       Save, Locked
  <2> QED
    BY <2>1, <2>2, <2>3, <2>4, <2>5 DEF RequestTyped
<1>2. CodeTyped'
  BY RequestFacts DEF RelayInv, CodeTyped, LaunchBegins
<1>3. RequestInv(r)'
  <2>1. /\ rec'[r].state = "starting" /\ UNCHANGED <<capture, stopping, scan, prompts, reports, told, crashes>>
        /\ rec'[r].supervision = rec[r].supervision /\ rec'[r].stopped = rec[r].stopped
        /\ launch'[r] = "creating" /\ lock' = lock \cup {r} /\ UNCHANGED copy
    BY DEF RelayInv, RequestTyped, RequestRec, LaunchBegins, Save
  <2>2. r \in Launched /\ rec[r].state = "none" /\ r \notin lock
    BY DEF LaunchBegins, Locked
  <2> QED
    BY <2>1, <2>2, RequestFacts, SMTT(30)
       DEF RelayInv, RequestTyped, RequestInv, OfBot, LaunchHolds, CaptureHolds, ScanHolds,
          LaunchedOnce, SentPerCrash, ResultTold, ReportHolds, Agrees
<1>4. ASSUME NEW q \in Requests, q # r PROVE RequestInv(q)'
  BY <1>4, RequestFacts, SMTT(30) DEF RelayInv, RequestTyped, RequestRec, RequestInv, OfBot,
     LaunchHolds, CaptureHolds, ScanHolds, LaunchedOnce, SentPerCrash, ResultTold, ReportHolds,
     Agrees, LaunchBegins, Save, Locked
<1> QED
  BY <1>1, <1>2, <1>3, <1>4 DEF RelayInv

LEMMA LaunchLinksKeeps ==
  ASSUME RelayInv, NEW r \in Requests, LaunchLinks(r)
  PROVE  RelayInv'
<1>1. RequestTyped'
  <2>1. rec' \in [Requests -> RequestRec]
    <3>1. rec[r] \in RequestRec
      BY DEF RelayInv, RequestTyped
    <3>2. [rec[r] EXCEPT !.task = TRUE] \in RequestRec
      BY <3>1, RequestFacts DEF RequestRec
    <3> QED
      BY <3>2 DEF RelayInv, RequestTyped, LaunchLinks
  <2>2. scan' \in [Requests -> {"idle", "todo", "capturing", "aborting", "sending", "sent",
                                "deliver", "reporting", "confirming"}]
    BY SMTT(30) DEF RelayInv, RequestTyped, LaunchLinks
  <2>3. /\ told' \in [Requests -> Outcomes] /\ lock' \subseteq Requests
        /\ launch' \in [Requests -> {"no", "creating", "linked", "running"}]
        /\ capture' \in [Requests -> {"no", "scan", "complete"}]
    BY SMTT(30) DEF RelayInv, RequestTyped, LaunchLinks
  <2>4. copy' \in [Requests -> Outcomes]
    BY RequestFacts DEF RelayInv, RequestTyped, LaunchLinks
  <2>5. /\ due' \subseteq Launched
        /\ stopping' \in [Requests -> {"no", "stop", "cancel"}]
        /\ prompts' \in [Requests -> Nat] /\ reports' \in [Requests -> Nat]
        /\ crashes' \in Nat
    BY RequestFacts, SMTT(30) DEF RelayInv, RequestTyped, RequestInv, OfBot, LaunchLinks
  <2> QED
    BY <2>1, <2>2, <2>3, <2>4, <2>5 DEF RequestTyped
<1>2. CodeTyped'
  BY RequestFacts DEF RelayInv, CodeTyped, LaunchLinks
<1>3. RequestInv(r)'
  BY RequestFacts, SMTT(30) DEF RelayInv, RequestTyped, RequestRec, RequestInv, OfBot,
     LaunchHolds, CaptureHolds, ScanHolds, LaunchedOnce, SentPerCrash, ResultTold, ReportHolds,
     Agrees, LaunchLinks
<1>4. ASSUME NEW q \in Requests, q # r PROVE RequestInv(q)'
  BY <1>4, RequestFacts, SMTT(30) DEF RelayInv, RequestTyped, RequestRec, RequestInv, OfBot,
     LaunchHolds, CaptureHolds, ScanHolds, LaunchedOnce, SentPerCrash, ResultTold, ReportHolds,
     Agrees, LaunchLinks
<1> QED
  BY <1>1, <1>2, <1>3, <1>4 DEF RelayInv

LEMMA LaunchRunsKeeps ==
  ASSUME RelayInv, NEW r \in Requests, LaunchRuns(r)
  PROVE  RelayInv'
<1>1. RequestTyped'
  BY RequestFacts DEF RequestTyped, RequestRec, RelayInv, LaunchRuns, Save
<1>2. CodeTyped'
  BY RequestFacts DEF RelayInv, CodeTyped, LaunchRuns
<1>3. RequestInv(r)'
  BY RequestFacts, SMTT(30) DEF RelayInv, RequestTyped, RequestRec, RequestInv, OfBot,
     LaunchHolds, CaptureHolds, ScanHolds, LaunchedOnce, SentPerCrash, ResultTold, ReportHolds,
     Agrees, LaunchRuns, Save
<1>4. ASSUME NEW q \in Requests, q # r PROVE RequestInv(q)'
  BY <1>4, RequestFacts, SMTT(30) DEF RelayInv, RequestTyped, RequestRec, RequestInv, OfBot,
     LaunchHolds, CaptureHolds, ScanHolds, LaunchedOnce, SentPerCrash, ResultTold, ReportHolds,
     Agrees, LaunchRuns, Save
<1> QED
  BY <1>1, <1>2, <1>3, <1>4 DEF RelayInv

LEMMA LaunchSendsKeeps ==
  ASSUME RelayInv, NEW r \in Requests, LaunchSends(r)
  PROVE  RelayInv'
<1>1. RequestTyped'
  BY RequestFacts DEF RequestTyped, RequestRec, RelayInv, LaunchSends, SendPrompt, Code
<1>2. CodeTyped'
  <2>1. chain' \in [Launched -> Seq(Requests \cup {User})]
    BY SendPromptTyped DEF RelayInv, CodeTyped, LaunchSends
  <2> QED
    BY <2>1 DEF RelayInv, CodeTyped, LaunchSends
<1>3. RequestInv(r)'
  BY RequestFacts, SMTT(30) DEF RelayInv, RequestTyped, RequestRec, RequestInv, OfBot,
     LaunchHolds, CaptureHolds, ScanHolds, LaunchedOnce, SentPerCrash, ResultTold, ReportHolds,
     Agrees, LaunchSends, SendPrompt, Code
<1>4. ASSUME NEW q \in Requests, q # r PROVE RequestInv(q)'
  BY <1>4, RequestFacts, SMTT(30) DEF RelayInv, RequestTyped, RequestRec, RequestInv, OfBot,
     LaunchHolds, CaptureHolds, ScanHolds, LaunchedOnce, SentPerCrash, ResultTold, ReportHolds,
     Agrees, LaunchSends, SendPrompt, Code
<1> QED
  BY <1>1, <1>2, <1>3, <1>4 DEF RelayInv

LEMMA LaunchFailsKeeps ==
  ASSUME RelayInv, NEW r \in Requests, LaunchFails(r)
  PROVE  RelayInv'
<1>1. RequestTyped'
  BY RequestFacts DEF RequestTyped, RequestRec, RelayInv, LaunchFails, SaveResult
<1>2. CodeTyped'
  BY RequestFacts DEF RelayInv, CodeTyped, LaunchFails
<1>3. RequestInv(r)'
  BY RequestFacts, SMTT(30) DEF RelayInv, RequestTyped, RequestRec, RequestInv, OfBot,
     LaunchHolds, CaptureHolds, ScanHolds, LaunchedOnce, SentPerCrash, ResultTold, ReportHolds,
     Agrees, LaunchFails, SaveResult
<1>4. ASSUME NEW q \in Requests, q # r PROVE RequestInv(q)'
  BY <1>4, RequestFacts, SMTT(30) DEF RelayInv, RequestTyped, RequestRec, RequestInv, OfBot,
     LaunchHolds, CaptureHolds, ScanHolds, LaunchedOnce, SentPerCrash, ResultTold, ReportHolds,
     Agrees, LaunchFails, SaveResult
<1> QED
  BY <1>1, <1>2, <1>3, <1>4 DEF RelayInv

LEMMA AdoptKeeps ==
  ASSUME RelayInv, NEW r \in Requests, Adopt(r)
  PROVE  RelayInv'
<1>1. RequestTyped'
  <2>1. rec' \in [Requests -> RequestRec]
    <3>1. rec[r] \in RequestRec
      BY DEF RelayInv, RequestTyped
    <3>2. [rec[r] EXCEPT !.state = "running", !.task = TRUE, !.supervision = TRUE] \in RequestRec
      BY <3>1, RequestFacts DEF RequestRec
    <3> QED
      BY <3>2 DEF RelayInv, RequestTyped, Adopt
  <2>2. scan' \in [Requests -> {"idle", "todo", "capturing", "aborting", "sending", "sent",
                                "deliver", "reporting", "confirming"}]
    BY SMTT(30) DEF RelayInv, RequestTyped, Adopt
  <2>3. /\ told' \in [Requests -> Outcomes] /\ lock' \subseteq Requests
        /\ launch' \in [Requests -> {"no", "creating", "linked", "running"}]
        /\ capture' \in [Requests -> {"no", "scan", "complete"}]
    BY SMTT(30) DEF RelayInv, RequestTyped, Adopt
  <2>4. copy' \in [Requests -> Outcomes]
    BY RequestFacts DEF RelayInv, RequestTyped, Adopt
  <2>5. /\ due' \subseteq Launched
        /\ stopping' \in [Requests -> {"no", "stop", "cancel"}]
        /\ prompts' \in [Requests -> Nat] /\ reports' \in [Requests -> Nat]
        /\ crashes' \in Nat
    BY RequestFacts, SMTT(30) DEF RelayInv, RequestTyped, RequestInv, OfBot, Adopt
  <2> QED
    BY <2>1, <2>2, <2>3, <2>4, <2>5 DEF RequestTyped
<1>2. CodeTyped'
  BY RequestFacts DEF RelayInv, CodeTyped, Adopt
<1>3. RequestInv(r)'
  BY RequestFacts, SMTT(30) DEF RelayInv, RequestTyped, RequestRec, RequestInv, OfBot,
     LaunchHolds, CaptureHolds, ScanHolds, LaunchedOnce, SentPerCrash, ResultTold, ReportHolds,
     Agrees, Adopt
<1>4. ASSUME NEW q \in Requests, q # r PROVE RequestInv(q)'
  BY <1>4, RequestFacts, SMTT(30) DEF RelayInv, RequestTyped, RequestRec, RequestInv, OfBot,
     LaunchHolds, CaptureHolds, ScanHolds, LaunchedOnce, SentPerCrash, ResultTold, ReportHolds,
     Agrees, Adopt
<1> QED
  BY <1>1, <1>2, <1>3, <1>4 DEF RelayInv

LEMMA ReleaseKeeps ==
  ASSUME RelayInv, NEW r \in Requests, Release(r)
  PROVE  RelayInv'
<1>1. RequestTyped'
  BY RequestFacts DEF RequestTyped, RequestRec, RelayInv, Release, Save, Active, Final
<1>2. CodeTyped'
  BY RequestFacts DEF RelayInv, CodeTyped, Release
<1>3. RequestInv(r)'
  BY RequestFacts, SMTT(30) DEF RelayInv, RequestTyped, RequestRec, RequestInv, OfBot,
     LaunchHolds, CaptureHolds, ScanHolds, LaunchedOnce, SentPerCrash, ResultTold, ReportHolds,
     Agrees, Release, Save, Active, Final
<1>4. ASSUME NEW q \in Requests, q # r PROVE RequestInv(q)'
  BY <1>4, RequestFacts, SMTT(30) DEF RelayInv, RequestTyped, RequestRec, RequestInv, OfBot,
     LaunchHolds, CaptureHolds, ScanHolds, LaunchedOnce, SentPerCrash, ResultTold, ReportHolds,
     Agrees, Release, Save, Active, Final
<1> QED
  BY <1>1, <1>2, <1>3, <1>4 DEF RelayInv

LEMMA QueuePromptKeeps ==
  ASSUME RelayInv, NEW r \in Requests, QueuePrompt(r)
  PROVE  RelayInv'
<1>1. RequestTyped'
  <2>1. rec' \in [Requests -> RequestRec]
    <3>1. rec[r] \in RequestRec
      BY DEF RelayInv, RequestTyped
    <3>2. [rec[r] EXCEPT !.state = "queued", !.task = TRUE] \in RequestRec
      BY <3>1, RequestFacts DEF RequestRec
    <3> QED
      BY <3>2 DEF RelayInv, RequestTyped, QueuePrompt
  <2>2. scan' \in [Requests -> {"idle", "todo", "capturing", "aborting", "sending", "sent",
                                "deliver", "reporting", "confirming"}]
    BY SMTT(30) DEF RelayInv, RequestTyped, QueuePrompt, Code
  <2>3. /\ told' \in [Requests -> Outcomes] /\ lock' \subseteq Requests
        /\ launch' \in [Requests -> {"no", "creating", "linked", "running"}]
        /\ capture' \in [Requests -> {"no", "scan", "complete"}]
    BY SMTT(30) DEF RelayInv, RequestTyped, QueuePrompt, Code
  <2>4. copy' \in [Requests -> Outcomes]
    BY RequestFacts DEF RelayInv, RequestTyped, QueuePrompt
  <2>5. /\ due' \subseteq Launched
        /\ stopping' \in [Requests -> {"no", "stop", "cancel"}]
        /\ prompts' \in [Requests -> Nat] /\ reports' \in [Requests -> Nat]
        /\ crashes' \in Nat
    BY RequestFacts, SMTT(30) DEF RelayInv, RequestTyped, RequestInv, OfBot, QueuePrompt, Code
  <2> QED
    BY <2>1, <2>2, <2>3, <2>4, <2>5 DEF RequestTyped
<1>2. CodeTyped'
  BY RequestFacts DEF RelayInv, CodeTyped, QueuePrompt
<1>3. RequestInv(r)'
  BY RequestFacts, SMTT(30) DEF RelayInv, RequestTyped, RequestRec, RequestInv, OfBot,
     LaunchHolds, CaptureHolds, ScanHolds, LaunchedOnce, SentPerCrash, ResultTold, ReportHolds,
     Agrees, QueuePrompt, Code
<1>4. ASSUME NEW q \in Requests, q # r PROVE RequestInv(q)'
  BY <1>4, RequestFacts, SMTT(30) DEF RelayInv, RequestTyped, RequestRec, RequestInv, OfBot,
     LaunchHolds, CaptureHolds, ScanHolds, LaunchedOnce, SentPerCrash, ResultTold, ReportHolds,
     Agrees, QueuePrompt, Code
<1> QED
  BY <1>1, <1>2, <1>3, <1>4 DEF RelayInv

LEMMA CapturedKeeps ==
  ASSUME RelayInv, NEW r \in Requests, Captured(r)
  PROVE  RelayInv'
<1>1. RequestTyped'
  BY RequestFacts DEF RequestTyped, RequestRec, RelayInv, Captured, SaveResult, Outcome
<1>2. CodeTyped'
  BY RequestFacts DEF RelayInv, CodeTyped, Captured
<1>3. RequestInv(r)'
  <2>1. Outcome(r) \in Outcomes \ {"none"}
    BY RequestFacts DEF Outcome
  <2>2. /\ rec'[r].state = "ready" /\ rec'[r].result # "none"
        /\ rec'[r].stopped = rec[r].stopped /\ rec'[r].supervision = rec[r].supervision
    BY <2>1, RequestFacts DEF RelayInv, RequestTyped, RequestRec, Captured, SaveResult
  <2>3. /\ r \in Launched /\ r \notin Interventions /\ launch[r] = "no"
        /\ scan[r] \notin {"aborting", "sending", "sent"}
    BY RequestFacts DEF RelayInv, RequestInv, OfBot, LaunchHolds, CaptureHolds, ScanHolds, Captured
  <2> QED
    BY <2>2, <2>3, RequestFacts, SMTT(30)
       DEF RelayInv, RequestTyped, RequestInv, OfBot, LaunchHolds, CaptureHolds, ScanHolds,
          LaunchedOnce, SentPerCrash, ResultTold, ReportHolds, Agrees, Captured
<1>4. ASSUME NEW q \in Requests, q # r PROVE RequestInv(q)'
  BY <1>4, RequestFacts, SMTT(30) DEF RelayInv, RequestTyped, RequestRec, RequestInv, OfBot,
     LaunchHolds, CaptureHolds, ScanHolds, LaunchedOnce, SentPerCrash, ResultTold, ReportHolds,
     Agrees, Captured, SaveResult, Outcome
<1> QED
  BY <1>1, <1>2, <1>3, <1>4 DEF RelayInv

LEMMA CompleteKeeps ==
  ASSUME RelayInv, NEW r \in Requests, Complete(r)
  PROVE  RelayInv'
<1>1. RequestTyped'
  <2>1. rec' \in [Requests -> RequestRec]
    <3>1. CASE UNCHANGED rec
      BY <3>1 DEF RelayInv, RequestTyped
    <3>2. CASE SaveResult(r, "ready", "stopped")
      BY <3>2, RequestFacts DEF RelayInv, RequestTyped, RequestRec, SaveResult
    <3> QED
      BY <3>1, <3>2 DEF Complete
  <2>2. scan' \in [Requests -> {"idle", "todo", "capturing", "aborting", "sending", "sent",
                                "deliver", "reporting", "confirming"}]
    BY SMTT(30) DEF RelayInv, RequestTyped, Complete, Locked, SaveResult
  <2>3. /\ told' \in [Requests -> Outcomes] /\ lock' \subseteq Requests
        /\ launch' \in [Requests -> {"no", "creating", "linked", "running"}]
        /\ capture' \in [Requests -> {"no", "scan", "complete"}]
    BY SMTT(30) DEF RelayInv, RequestTyped, Complete, Locked, SaveResult
  <2>4. copy' \in [Requests -> Outcomes]
    BY RequestFacts DEF RelayInv, RequestTyped, Complete
  <2>5. /\ due' \subseteq Launched
        /\ stopping' \in [Requests -> {"no", "stop", "cancel"}]
        /\ prompts' \in [Requests -> Nat] /\ reports' \in [Requests -> Nat]
        /\ crashes' \in Nat
    BY RequestFacts, SMTT(30) DEF RelayInv, RequestTyped, RequestInv, OfBot, Complete, Locked,
       SaveResult
  <2> QED
    BY <2>1, <2>2, <2>3, <2>4, <2>5 DEF RequestTyped
<1>2. CodeTyped'
  BY RequestFacts DEF RelayInv, CodeTyped, Complete
<1>3. RequestInv(r)'
  BY RequestFacts, SMTT(30) DEF RelayInv, RequestTyped, RequestRec, RequestInv, OfBot,
     LaunchHolds, CaptureHolds, ScanHolds, LaunchedOnce, SentPerCrash, ResultTold, ReportHolds,
     Agrees, Complete, Locked, SaveResult
<1>4. ASSUME NEW q \in Requests, q # r PROVE RequestInv(q)'
  BY <1>4, RequestFacts, SMTT(30) DEF RelayInv, RequestTyped, RequestRec, RequestInv, OfBot,
     LaunchHolds, CaptureHolds, ScanHolds, LaunchedOnce, SentPerCrash, ResultTold, ReportHolds,
     Agrees, Complete, Locked, SaveResult
<1> QED
  BY <1>1, <1>2, <1>3, <1>4 DEF RelayInv

LEMMA StopRequestKeeps ==
  ASSUME RelayInv, NEW r \in Requests, StopRequest(r)
  PROVE  RelayInv'
<1>1. RequestTyped'
  <2>1. rec' \in [Requests -> RequestRec]
    <3>1. rec[r] \in RequestRec
      BY DEF RelayInv, RequestTyped
    <3>2. [rec[r] EXCEPT !.stopped = TRUE,
                 !.result = IF rec[r].state = "ready" THEN "stopped" ELSE @,
                 !.state = IF rec[r].task THEN @ ELSE "cancelled"] \in RequestRec
      BY <3>1, RequestFacts DEF RequestRec
    <3> QED
      BY <3>2 DEF RelayInv, RequestTyped, StopRequest
  <2>2. scan' \in [Requests -> {"idle", "todo", "capturing", "aborting", "sending", "sent",
                                "deliver", "reporting", "confirming"}]
    BY SMTT(30) DEF RelayInv, RequestTyped, StopRequest, Active, Final, Locked
  <2>3. /\ told' \in [Requests -> Outcomes] /\ lock' \subseteq Requests
        /\ launch' \in [Requests -> {"no", "creating", "linked", "running"}]
        /\ capture' \in [Requests -> {"no", "scan", "complete"}]
    BY SMTT(30) DEF RelayInv, RequestTyped, StopRequest, Active, Final, Locked
  <2>4. copy' \in [Requests -> Outcomes]
    BY RequestFacts DEF RelayInv, RequestTyped, StopRequest
  <2>5. /\ due' \subseteq Launched
        /\ stopping' \in [Requests -> {"no", "stop", "cancel"}]
        /\ prompts' \in [Requests -> Nat] /\ reports' \in [Requests -> Nat]
        /\ crashes' \in Nat
    BY RequestFacts, SMTT(30) DEF RelayInv, RequestTyped, RequestInv, OfBot, StopRequest,
       Active, Final, Locked
  <2> QED
    BY <2>1, <2>2, <2>3, <2>4, <2>5 DEF RequestTyped
<1>2. CodeTyped'
  BY RequestFacts DEF RelayInv, CodeTyped, StopRequest
<1>3. RequestInv(r)'
  BY RequestFacts, SMTT(30) DEF RelayInv, RequestTyped, RequestRec, RequestInv, OfBot,
     LaunchHolds, CaptureHolds, ScanHolds, LaunchedOnce, SentPerCrash, ResultTold, ReportHolds,
     Agrees, StopRequest, Active, Final, Locked
<1>4. ASSUME NEW q \in Requests, q # r PROVE RequestInv(q)'
  BY <1>4, RequestFacts, SMTT(30) DEF RelayInv, RequestTyped, RequestRec, RequestInv, OfBot,
     LaunchHolds, CaptureHolds, ScanHolds, LaunchedOnce, SentPerCrash, ResultTold, ReportHolds,
     Agrees, StopRequest, Active, Final, Locked
<1> QED
  BY <1>1, <1>2, <1>3, <1>4 DEF RelayInv

LEMMA CancelKeeps ==
  ASSUME RelayInv, NEW r \in Requests, Cancel(r)
  PROVE  RelayInv'
<1>1. RequestTyped'
  BY RequestFacts DEF RequestTyped, RequestRec, RelayInv, Cancel, Active, Final, Locked, Save
<1>2. CodeTyped'
  BY RequestFacts DEF RelayInv, CodeTyped, Cancel
<1>3. RequestInv(r)'
  BY RequestFacts, SMTT(30) DEF RelayInv, RequestTyped, RequestRec, RequestInv, OfBot,
     LaunchHolds, CaptureHolds, ScanHolds, LaunchedOnce, SentPerCrash, ResultTold, ReportHolds,
     Agrees, Cancel, Active, Final, Locked, Save
<1>4. ASSUME NEW q \in Requests, q # r PROVE RequestInv(q)'
  BY <1>4, RequestFacts, SMTT(30) DEF RelayInv, RequestTyped, RequestRec, RequestInv, OfBot,
     LaunchHolds, CaptureHolds, ScanHolds, LaunchedOnce, SentPerCrash, ResultTold, ReportHolds,
     Agrees, Cancel, Active, Final, Locked, Save
<1> QED
  BY <1>1, <1>2, <1>3, <1>4 DEF RelayInv

LEMMA StopAbortsKeeps ==
  ASSUME RelayInv, NEW r \in Requests, StopAborts(r)
  PROVE  RelayInv'
<1>1. RequestTyped'
  <2>1. rec' \in [Requests -> RequestRec]
    BY RequestFacts, SMTT(30) DEF RelayInv, RequestTyped, RequestRec, StopAborts, AbortTurn
  <2>2. scan' \in [Requests -> {"idle", "todo", "capturing", "aborting", "sending", "sent",
                                "deliver", "reporting", "confirming"}]
    BY SMTT(30) DEF RelayInv, RequestTyped, StopAborts, AbortTurn
  <2>3. /\ told' \in [Requests -> Outcomes] /\ lock' \subseteq Requests
        /\ launch' \in [Requests -> {"no", "creating", "linked", "running"}]
        /\ capture' \in [Requests -> {"no", "scan", "complete"}]
    BY SMTT(30) DEF RelayInv, RequestTyped, StopAborts, AbortTurn
  <2>4. copy' \in [Requests -> Outcomes]
    BY RequestFacts DEF RelayInv, RequestTyped, StopAborts
  <2>5. /\ due' \subseteq Launched
        /\ stopping' \in [Requests -> {"no", "stop", "cancel"}]
        /\ prompts' \in [Requests -> Nat] /\ reports' \in [Requests -> Nat]
        /\ crashes' \in Nat
    BY RequestFacts, SMTT(30) DEF RelayInv, RequestTyped, RequestInv, OfBot, StopAborts,
       AbortTurn
  <2> QED
    BY <2>1, <2>2, <2>3, <2>4, <2>5 DEF RequestTyped
<1>2. CodeTyped'
  <2>1. Code(r) \in Launched
    BY RequestFacts
  <2>2. chain' \in [Launched -> Seq(Requests \cup {User})] /\ answered' \subseteq Launched
    BY <2>1, AbortTurnTyped DEF RelayInv, CodeTyped, StopAborts
  <2> QED
    BY <2>2 DEF RelayInv, CodeTyped, StopAborts
<1>3. RequestInv(r)'
  BY RequestFacts, SMTT(30) DEF RelayInv, RequestTyped, RequestRec, RequestInv, OfBot,
     LaunchHolds, CaptureHolds, ScanHolds, LaunchedOnce, SentPerCrash, ResultTold, ReportHolds,
     Agrees, StopAborts, AbortTurn
<1>4. ASSUME NEW q \in Requests, q # r PROVE RequestInv(q)'
  BY <1>4, RequestFacts, SMTT(30) DEF RelayInv, RequestTyped, RequestRec, RequestInv, OfBot,
     LaunchHolds, CaptureHolds, ScanHolds, LaunchedOnce, SentPerCrash, ResultTold, ReportHolds,
     Agrees, StopAborts, AbortTurn
<1> QED
  BY <1>1, <1>2, <1>3, <1>4 DEF RelayInv

LEMMA SupersedeKeeps ==
  ASSUME RelayInv, NEW r \in Requests, Supersede(r)
  PROVE  RelayInv'
<1>1. RequestTyped'
  BY RequestFacts DEF RequestTyped, RequestRec, RelayInv, Supersede, Active, Final
<1>2. CodeTyped'
  BY RequestFacts DEF RelayInv, CodeTyped, Supersede
<1>3. RequestInv(r)'
  BY RequestFacts, SMTT(30) DEF RelayInv, RequestTyped, RequestRec, RequestInv, OfBot,
     LaunchHolds, CaptureHolds, ScanHolds, LaunchedOnce, SentPerCrash, ResultTold, ReportHolds,
     Agrees, Supersede, Active, Final
<1>4. ASSUME NEW q \in Requests, q # r PROVE RequestInv(q)'
  BY <1>4, RequestFacts, SMTT(30) DEF RelayInv, RequestTyped, RequestRec, RequestInv, OfBot,
     LaunchHolds, CaptureHolds, ScanHolds, LaunchedOnce, SentPerCrash, ResultTold, ReportHolds,
     Agrees, Supersede, Active, Final
<1> QED
  BY <1>1, <1>2, <1>3, <1>4 DEF RelayInv

LEMMA DisableKeeps ==
  ASSUME RelayInv, Disable
  PROVE  RelayInv'
<1>1. RequestTyped'
  BY DEF RelayInv, RequestTyped, Disable
<1>2. CodeTyped'
  BY DEF RelayInv, CodeTyped, Disable
<1>3. ASSUME NEW q \in Requests PROVE RequestInv(q)'
  BY DEF RelayInv, RequestInv, OfBot, LaunchHolds, CaptureHolds, ScanHolds, LaunchedOnce,
     SentPerCrash, ResultTold, ReportHolds, Agrees, Disable
<1> QED
  BY <1>1, <1>2, <1>3 DEF RelayInv

LEMMA ScanSupersededKeeps ==
  ASSUME RelayInv, NEW r \in Requests, ScanSuperseded(r)
  PROVE  RelayInv'
<1>1. RequestTyped'
  <2>1. rec' \in [Requests -> RequestRec]
    BY RequestFacts, SMTT(30) DEF RelayInv, RequestTyped, RequestRec, ScanSuperseded, Locked,
       Active, Final, Save, ScanTo
  <2>2. scan' \in [Requests -> {"idle", "todo", "capturing", "aborting", "sending", "sent",
                                "deliver", "reporting", "confirming"}]
    BY SMTT(30) DEF RelayInv, RequestTyped, ScanSuperseded, Locked, Active, Final, Save, ScanTo
  <2>3. /\ told' \in [Requests -> Outcomes] /\ lock' \subseteq Requests
        /\ launch' \in [Requests -> {"no", "creating", "linked", "running"}]
        /\ capture' \in [Requests -> {"no", "scan", "complete"}]
    BY SMTT(30) DEF RelayInv, RequestTyped, ScanSuperseded, Locked, Active, Final, Save, ScanTo
  <2>4. copy' \in [Requests -> Outcomes]
    BY RequestFacts DEF RelayInv, RequestTyped, ScanSuperseded
  <2>5. /\ due' \subseteq Launched
        /\ stopping' \in [Requests -> {"no", "stop", "cancel"}]
        /\ prompts' \in [Requests -> Nat] /\ reports' \in [Requests -> Nat]
        /\ crashes' \in Nat
    BY RequestFacts, SMTT(30) DEF RelayInv, RequestTyped, RequestInv, OfBot, ScanSuperseded,
       Locked, Active, Final, Save, ScanTo
  <2> QED
    BY <2>1, <2>2, <2>3, <2>4, <2>5 DEF RequestTyped
<1>2. CodeTyped'
  BY RequestFacts DEF RelayInv, CodeTyped, ScanSuperseded
<1>3. RequestInv(r)'
  BY RequestFacts, SMTT(30) DEF RelayInv, RequestTyped, RequestRec, RequestInv, OfBot,
     LaunchHolds, CaptureHolds, ScanHolds, LaunchedOnce, SentPerCrash, ResultTold, ReportHolds,
     Agrees, ScanSuperseded, Locked, Active, Final, Save, ScanTo
<1>4. ASSUME NEW q \in Requests, q # r PROVE RequestInv(q)'
  BY <1>4, RequestFacts, SMTT(30) DEF RelayInv, RequestTyped, RequestRec, RequestInv, OfBot,
     LaunchHolds, CaptureHolds, ScanHolds, LaunchedOnce, SentPerCrash, ResultTold, ReportHolds,
     Agrees, ScanSuperseded, Locked, Active, Final, Save, ScanTo
<1> QED
  BY <1>1, <1>2, <1>3, <1>4 DEF RelayInv

LEMMA ScanAbortsKeeps ==
  ASSUME RelayInv, NEW r \in Requests, ScanAborts(r)
  PROVE  RelayInv'
<1>1. RequestTyped'
  BY RequestFacts DEF RequestTyped, RequestRec, RelayInv, ScanAborts, AbortTurn, Code, ScanTo
<1>2. CodeTyped'
  <2>1. Code(r) \in Launched
    BY RequestFacts
  <2>2. chain' \in [Launched -> Seq(Requests \cup {User})] /\ answered' \subseteq Launched
    BY <2>1, AbortTurnTyped DEF RelayInv, CodeTyped, ScanAborts
  <2> QED
    BY <2>2 DEF RelayInv, CodeTyped, ScanAborts
<1>3. RequestInv(r)'
  BY RequestFacts, SMTT(30) DEF RelayInv, RequestTyped, RequestRec, RequestInv, OfBot,
     LaunchHolds, CaptureHolds, ScanHolds, LaunchedOnce, SentPerCrash, ResultTold, ReportHolds,
     Agrees, ScanAborts, AbortTurn, Code, ScanTo
<1>4. ASSUME NEW q \in Requests, q # r PROVE RequestInv(q)'
  BY <1>4, RequestFacts, SMTT(30) DEF RelayInv, RequestTyped, RequestRec, RequestInv, OfBot,
     LaunchHolds, CaptureHolds, ScanHolds, LaunchedOnce, SentPerCrash, ResultTold, ReportHolds,
     Agrees, ScanAborts, AbortTurn, Code, ScanTo
<1> QED
  BY <1>1, <1>2, <1>3, <1>4 DEF RelayInv

LEMMA ScanRequestKeeps ==
  ASSUME RelayInv, NEW r \in Requests, ScanRequest(r)
  PROVE  RelayInv'
<1>1. RequestTyped'
  <2>1. rec' \in [Requests -> RequestRec]
    BY RequestFacts, SMTT(30) DEF RelayInv, RequestTyped, RequestRec, ScanRequest, Locked,
       ScanInterrupted, ScanEnded, ScanPasses, SaveResult, ScanTo
  <2>2. scan' \in [Requests -> {"idle", "todo", "capturing", "aborting", "sending", "sent",
                                "deliver", "reporting", "confirming"}]
    BY SMTT(30) DEF RelayInv, RequestTyped, ScanRequest, Locked, ScanInterrupted, ScanEnded,
       ScanPasses, SaveResult, ScanTo
  <2>3. /\ told' \in [Requests -> Outcomes] /\ lock' \subseteq Requests
        /\ launch' \in [Requests -> {"no", "creating", "linked", "running"}]
        /\ capture' \in [Requests -> {"no", "scan", "complete"}]
    BY SMTT(30) DEF RelayInv, RequestTyped, ScanRequest, Locked, ScanInterrupted, ScanEnded,
       ScanPasses, SaveResult, ScanTo
  <2>4. copy' \in [Requests -> Outcomes]
    BY RequestFacts DEF RelayInv, RequestTyped, ScanRequest
  <2>5. /\ due' \subseteq Launched
        /\ stopping' \in [Requests -> {"no", "stop", "cancel"}]
        /\ prompts' \in [Requests -> Nat] /\ reports' \in [Requests -> Nat]
        /\ crashes' \in Nat
    BY RequestFacts, SMTT(30) DEF RelayInv, RequestTyped, RequestInv, OfBot, ScanRequest,
       Locked, ScanInterrupted, ScanEnded, ScanPasses, SaveResult, ScanTo
  <2> QED
    BY <2>1, <2>2, <2>3, <2>4, <2>5 DEF RequestTyped
<1>2. CodeTyped'
  BY RequestFacts DEF RelayInv, CodeTyped, ScanRequest
<1>3. RequestInv(r)'
  BY RequestFacts, SMTT(30) DEF RelayInv, RequestTyped, RequestRec, RequestInv, OfBot,
     LaunchHolds, CaptureHolds, ScanHolds, LaunchedOnce, SentPerCrash, ResultTold, ReportHolds,
     Agrees, ScanRequest, Locked, ScanInterrupted, ScanEnded, ScanPasses, SaveResult, ScanTo
<1>4. ASSUME NEW q \in Requests, q # r PROVE RequestInv(q)'
  BY <1>4, RequestFacts, SMTT(30) DEF RelayInv, RequestTyped, RequestRec, RequestInv, OfBot,
     LaunchHolds, CaptureHolds, ScanHolds, LaunchedOnce, SentPerCrash, ResultTold, ReportHolds,
     Agrees, ScanRequest, Locked, ScanInterrupted, ScanEnded, ScanPasses, SaveResult, ScanTo
<1> QED
  BY <1>1, <1>2, <1>3, <1>4 DEF RelayInv

LEMMA DispatchKeeps ==
  ASSUME RelayInv, NEW r \in Requests, Dispatch(r)
  PROVE  RelayInv'
<1>1. RequestTyped'
  <2>1. rec' \in [Requests -> RequestRec]
    BY RequestFacts, SMTT(30) DEF RelayInv, RequestTyped, RequestRec, Dispatch, Locked, Active,
       Final, Dispatchable, Save, ScanTo
  <2>2. scan' \in [Requests -> {"idle", "todo", "capturing", "aborting", "sending", "sent",
                                "deliver", "reporting", "confirming"}]
    BY SMTT(30) DEF RelayInv, RequestTyped, Dispatch, Locked, Active, Final, Dispatchable,
       Save, ScanTo
  <2>3. /\ told' \in [Requests -> Outcomes] /\ lock' \subseteq Requests
        /\ launch' \in [Requests -> {"no", "creating", "linked", "running"}]
        /\ capture' \in [Requests -> {"no", "scan", "complete"}]
    BY SMTT(30) DEF RelayInv, RequestTyped, Dispatch, Locked, Active, Final, Dispatchable,
       Save, ScanTo
  <2>4. copy' \in [Requests -> Outcomes]
    BY RequestFacts DEF RelayInv, RequestTyped, Dispatch
  <2>5. /\ due' \subseteq Launched
        /\ stopping' \in [Requests -> {"no", "stop", "cancel"}]
        /\ prompts' \in [Requests -> Nat] /\ reports' \in [Requests -> Nat]
        /\ crashes' \in Nat
    BY RequestFacts, SMTT(30) DEF RelayInv, RequestTyped, RequestInv, OfBot, Dispatch, Locked,
       Active, Final, Dispatchable, Save, ScanTo
  <2> QED
    BY <2>1, <2>2, <2>3, <2>4, <2>5 DEF RequestTyped
<1>2. CodeTyped'
  BY RequestFacts DEF RelayInv, CodeTyped, Dispatch
<1>3. RequestInv(r)'
  BY RequestFacts, SMTT(30) DEF RelayInv, RequestTyped, RequestRec, RequestInv, OfBot,
     LaunchHolds, CaptureHolds, ScanHolds, LaunchedOnce, SentPerCrash, ResultTold, ReportHolds,
     Agrees, Dispatch, Locked, Active, Final, Dispatchable, Save, ScanTo
<1>4. ASSUME NEW q \in Requests, q # r PROVE RequestInv(q)'
  BY <1>4, RequestFacts, SMTT(30) DEF RelayInv, RequestTyped, RequestRec, RequestInv, OfBot,
     LaunchHolds, CaptureHolds, ScanHolds, LaunchedOnce, SentPerCrash, ResultTold, ReportHolds,
     Agrees, Dispatch, Locked, Active, Final, Dispatchable, Save, ScanTo
<1> QED
  BY <1>1, <1>2, <1>3, <1>4 DEF RelayInv

LEMMA DispatchSendsKeeps ==
  ASSUME RelayInv, NEW r \in Requests, DispatchSends(r)
  PROVE  RelayInv'
<1>1. RequestTyped'
  BY RequestFacts DEF RequestTyped, RequestRec, RelayInv, DispatchSends, SendPrompt, Code,
     ScanTo
<1>2. CodeTyped'
  <2>1. chain' \in [Launched -> Seq(Requests \cup {User})]
    BY SendPromptTyped DEF RelayInv, CodeTyped, DispatchSends
  <2> QED
    BY <2>1 DEF RelayInv, CodeTyped, DispatchSends
<1>3. RequestInv(r)'
  BY RequestFacts, SMTT(30) DEF RelayInv, RequestTyped, RequestRec, RequestInv, OfBot,
     LaunchHolds, CaptureHolds, ScanHolds, LaunchedOnce, SentPerCrash, ResultTold, ReportHolds,
     Agrees, DispatchSends, SendPrompt, Code, ScanTo
<1>4. ASSUME NEW q \in Requests, q # r PROVE RequestInv(q)'
  BY <1>4, RequestFacts, SMTT(30) DEF RelayInv, RequestTyped, RequestRec, RequestInv, OfBot,
     LaunchHolds, CaptureHolds, ScanHolds, LaunchedOnce, SentPerCrash, ResultTold, ReportHolds,
     Agrees, DispatchSends, SendPrompt, Code, ScanTo
<1> QED
  BY <1>1, <1>2, <1>3, <1>4 DEF RelayInv

LEMMA DispatchEndsKeeps ==
  ASSUME RelayInv, NEW r \in Requests, DispatchEnds(r)
  PROVE  RelayInv'
<1>1. RequestTyped'
  <2>1. rec' \in [Requests -> RequestRec]
    <3>1. rec[r] \in RequestRec
      BY DEF RelayInv, RequestTyped
    <3>2. [rec[r] EXCEPT !.state = DispatchResult(scan[r] = "sent")] \in RequestRec
      BY <3>1, RequestFacts DEF RequestRec, DispatchResult
    <3> QED
      BY <3>2 DEF RelayInv, RequestTyped, DispatchEnds, Save
  <2>2. scan' \in [Requests -> {"idle", "todo", "capturing", "aborting", "sending", "sent",
                                "deliver", "reporting", "confirming"}]
    BY SMTT(30) DEF RelayInv, RequestTyped, DispatchEnds, Fault, Save, ScanTo, DispatchResult
  <2>3. /\ told' \in [Requests -> Outcomes] /\ lock' \subseteq Requests
        /\ launch' \in [Requests -> {"no", "creating", "linked", "running"}]
        /\ capture' \in [Requests -> {"no", "scan", "complete"}]
    BY SMTT(30) DEF RelayInv, RequestTyped, DispatchEnds, Fault, Save, ScanTo, DispatchResult
  <2>4. copy' \in [Requests -> Outcomes]
    BY RequestFacts DEF RelayInv, RequestTyped, DispatchEnds
  <2>5. /\ due' \subseteq Launched
        /\ stopping' \in [Requests -> {"no", "stop", "cancel"}]
        /\ prompts' \in [Requests -> Nat] /\ reports' \in [Requests -> Nat]
        /\ crashes' \in Nat
    BY RequestFacts, SMTT(30) DEF RelayInv, RequestTyped, RequestInv, OfBot, DispatchEnds,
       Fault, Save, ScanTo, DispatchResult
  <2> QED
    BY <2>1, <2>2, <2>3, <2>4, <2>5 DEF RequestTyped
<1>2. CodeTyped'
  BY RequestFacts DEF RelayInv, CodeTyped, DispatchEnds, Fault
<1>3. RequestInv(r)'
  BY RequestFacts, SMTT(30) DEF RelayInv, RequestTyped, RequestRec, RequestInv, OfBot,
     LaunchHolds, CaptureHolds, ScanHolds, LaunchedOnce, SentPerCrash, ResultTold, ReportHolds,
     Agrees, DispatchEnds, Fault, Save, ScanTo, DispatchResult
<1>4. ASSUME NEW q \in Requests, q # r PROVE RequestInv(q)'
  BY <1>4, RequestFacts, SMTT(30) DEF RelayInv, RequestTyped, RequestRec, RequestInv, OfBot,
     LaunchHolds, CaptureHolds, ScanHolds, LaunchedOnce, SentPerCrash, ResultTold, ReportHolds,
     Agrees, DispatchEnds, Fault, Save, ScanTo, DispatchResult
<1> QED
  BY <1>1, <1>2, <1>3, <1>4 DEF RelayInv

LEMMA DeliveryRefusedKeeps ==
  ASSUME RelayInv, NEW r \in Requests, DeliveryRefused(r)
  PROVE  RelayInv'
<1>1. RequestTyped'
  <2>1. rec' \in [Requests -> RequestRec]
    BY RequestFacts, SMTT(30) DEF RelayInv, RequestTyped, RequestRec, DeliveryRefused, Fault,
       ScanTo, Deliverable
  <2>2. scan' \in [Requests -> {"idle", "todo", "capturing", "aborting", "sending", "sent",
                                "deliver", "reporting", "confirming"}]
    BY SMTT(30) DEF RelayInv, RequestTyped, DeliveryRefused, Fault, ScanTo, Deliverable
  <2>3. /\ told' \in [Requests -> Outcomes] /\ lock' \subseteq Requests
        /\ launch' \in [Requests -> {"no", "creating", "linked", "running"}]
        /\ capture' \in [Requests -> {"no", "scan", "complete"}]
    BY SMTT(30) DEF RelayInv, RequestTyped, DeliveryRefused, Fault, ScanTo, Deliverable
  <2>4. copy' \in [Requests -> Outcomes]
    BY RequestFacts DEF RelayInv, RequestTyped, DeliveryRefused
  <2>5. /\ due' \subseteq Launched
        /\ stopping' \in [Requests -> {"no", "stop", "cancel"}]
        /\ prompts' \in [Requests -> Nat] /\ reports' \in [Requests -> Nat]
        /\ crashes' \in Nat
    BY RequestFacts, SMTT(30) DEF RelayInv, RequestTyped, RequestInv, OfBot, DeliveryRefused,
       Fault, ScanTo, Deliverable
  <2> QED
    BY <2>1, <2>2, <2>3, <2>4, <2>5 DEF RequestTyped
<1>2. CodeTyped'
  BY RequestFacts DEF RelayInv, CodeTyped, DeliveryRefused, Fault
<1>3. RequestInv(r)'
  BY RequestFacts, SMTT(30) DEF RelayInv, RequestTyped, RequestRec, RequestInv, OfBot,
     LaunchHolds, CaptureHolds, ScanHolds, LaunchedOnce, SentPerCrash, ResultTold, ReportHolds,
     Agrees, DeliveryRefused, Fault, ScanTo, Deliverable
<1>4. ASSUME NEW q \in Requests, q # r PROVE RequestInv(q)'
  BY <1>4, RequestFacts, SMTT(30) DEF RelayInv, RequestTyped, RequestRec, RequestInv, OfBot,
     LaunchHolds, CaptureHolds, ScanHolds, LaunchedOnce, SentPerCrash, ResultTold, ReportHolds,
     Agrees, DeliveryRefused, Fault, ScanTo, Deliverable
<1> QED
  BY <1>1, <1>2, <1>3, <1>4 DEF RelayInv

LEMMA DeliveryBeginsKeeps ==
  ASSUME RelayInv, NEW r \in Requests, DeliveryBegins(r)
  PROVE  RelayInv'
<1>1. RequestTyped'
  BY RequestFacts DEF RequestTyped, RequestRec, RelayInv, DeliveryBegins, Deliverable, ScanTo
<1>2. CodeTyped'
  BY RequestFacts DEF RelayInv, CodeTyped, DeliveryBegins
<1>3. RequestInv(r)'
  BY RequestFacts, SMTT(30) DEF RelayInv, RequestTyped, RequestRec, RequestInv, OfBot,
     LaunchHolds, CaptureHolds, ScanHolds, LaunchedOnce, SentPerCrash, ResultTold, ReportHolds,
     Agrees, DeliveryBegins, Deliverable, ScanTo
<1>4. ASSUME NEW q \in Requests, q # r PROVE RequestInv(q)'
  BY <1>4, RequestFacts, SMTT(30) DEF RelayInv, RequestTyped, RequestRec, RequestInv, OfBot,
     LaunchHolds, CaptureHolds, ScanHolds, LaunchedOnce, SentPerCrash, ResultTold, ReportHolds,
     Agrees, DeliveryBegins, Deliverable, ScanTo
<1> QED
  BY <1>1, <1>2, <1>3, <1>4 DEF RelayInv

LEMMA ReportKeeps ==
  ASSUME RelayInv, NEW r \in Requests, Report(r)
  PROVE  RelayInv'
<1>1. RequestTyped'
  BY RequestFacts DEF RequestTyped, RequestRec, RelayInv, Report, HasReport, ScanTo
<1>2. CodeTyped'
  BY RequestFacts DEF RelayInv, CodeTyped, Report
<1>3. RequestInv(r)'
  BY RequestFacts, SMTT(30) DEF RelayInv, RequestTyped, RequestRec, RequestInv, OfBot,
     LaunchHolds, CaptureHolds, ScanHolds, LaunchedOnce, SentPerCrash, ResultTold, ReportHolds,
     Agrees, Report, HasReport, ScanTo
<1>4. ASSUME NEW q \in Requests, q # r PROVE RequestInv(q)'
  BY <1>4, RequestFacts, SMTT(30) DEF RelayInv, RequestTyped, RequestRec, RequestInv, OfBot,
     LaunchHolds, CaptureHolds, ScanHolds, LaunchedOnce, SentPerCrash, ResultTold, ReportHolds,
     Agrees, Report, HasReport, ScanTo
<1> QED
  BY <1>1, <1>2, <1>3, <1>4 DEF RelayInv

LEMMA ReportFailsKeeps ==
  ASSUME RelayInv, NEW r \in Requests, ReportFails(r)
  PROVE  RelayInv'
<1>1. RequestTyped'
  BY RequestFacts DEF RequestTyped, RequestRec, RelayInv, ReportFails, Fault, ScanTo
<1>2. CodeTyped'
  BY RequestFacts DEF RelayInv, CodeTyped, ReportFails, Fault
<1>3. RequestInv(r)'
  BY RequestFacts, SMTT(30) DEF RelayInv, RequestTyped, RequestRec, RequestInv, OfBot,
     LaunchHolds, CaptureHolds, ScanHolds, LaunchedOnce, SentPerCrash, ResultTold, ReportHolds,
     Agrees, ReportFails, Fault, ScanTo
<1>4. ASSUME NEW q \in Requests, q # r PROVE RequestInv(q)'
  BY <1>4, RequestFacts, SMTT(30) DEF RelayInv, RequestTyped, RequestRec, RequestInv, OfBot,
     LaunchHolds, CaptureHolds, ScanHolds, LaunchedOnce, SentPerCrash, ResultTold, ReportHolds,
     Agrees, ReportFails, Fault, ScanTo
<1> QED
  BY <1>1, <1>2, <1>3, <1>4 DEF RelayInv

LEMMA ConfirmKeeps ==
  ASSUME RelayInv, NEW r \in Requests, Confirm(r)
  PROVE  RelayInv'
<1>1. RequestTyped'
  <2>1. rec' \in [Requests -> RequestRec]
    <3>1. rec[r] \in RequestRec
      BY DEF RelayInv, RequestTyped
    <3>2. Confirmed(r) \in RequestRec
      BY <3>1, RequestFacts DEF RequestRec, Confirmed
    <3> QED
      BY <3>2 DEF RelayInv, RequestTyped, Confirm
  <2>2. scan' \in [Requests -> {"idle", "todo", "capturing", "aborting", "sending", "sent",
                                "deliver", "reporting", "confirming"}]
    BY SMTT(30) DEF RelayInv, RequestTyped, Confirm, Locked, Confirmed, Final, ScanTo
  <2>3. /\ told' \in [Requests -> Outcomes] /\ lock' \subseteq Requests
        /\ launch' \in [Requests -> {"no", "creating", "linked", "running"}]
        /\ capture' \in [Requests -> {"no", "scan", "complete"}]
    BY SMTT(30) DEF RelayInv, RequestTyped, Confirm, ScanTo
  <2>4. copy' \in [Requests -> Outcomes]
    BY RequestFacts DEF RelayInv, RequestTyped, Confirm
  <2>5. /\ due' \subseteq Launched
        /\ stopping' \in [Requests -> {"no", "stop", "cancel"}]
        /\ prompts' \in [Requests -> Nat] /\ reports' \in [Requests -> Nat]
        /\ crashes' \in Nat
    BY RequestFacts, SMTT(30) DEF RelayInv, RequestTyped, RequestInv, OfBot, Confirm, Locked,
       Confirmed, Final, ScanTo
  <2> QED
    BY <2>1, <2>2, <2>3, <2>4, <2>5 DEF RequestTyped
<1>2. CodeTyped'
  BY RequestFacts DEF RelayInv, CodeTyped, Confirm
<1>3. RequestInv(r)'
  BY RequestFacts, SMTT(30) DEF RelayInv, RequestTyped, RequestRec, RequestInv, OfBot,
     LaunchHolds, CaptureHolds, ScanHolds, LaunchedOnce, SentPerCrash, ResultTold, ReportHolds,
     Agrees, Confirm, Locked, Confirmed, Final, ScanTo
<1>4. ASSUME NEW q \in Requests, q # r PROVE RequestInv(q)'
  BY <1>4, RequestFacts, SMTT(30) DEF RelayInv, RequestTyped, RequestRec, RequestInv, OfBot,
     LaunchHolds, CaptureHolds, ScanHolds, LaunchedOnce, SentPerCrash, ResultTold, ReportHolds,
     Agrees, Confirm, Locked, Confirmed, Final, ScanTo
<1> QED
  BY <1>1, <1>2, <1>3, <1>4 DEF RelayInv

LEMMA LockTimesOutKeeps ==
  ASSUME RelayInv, NEW r \in Requests, LockTimesOut(r)
  PROVE  RelayInv'
<1>1. RequestTyped'
  BY RequestFacts DEF RequestTyped, RequestRec, RelayInv, LockTimesOut, Locked, ScanTo
<1>2. CodeTyped'
  BY RequestFacts DEF RelayInv, CodeTyped, LockTimesOut
<1>3. RequestInv(r)'
  BY RequestFacts, SMTT(30) DEF RelayInv, RequestTyped, RequestRec, RequestInv, OfBot,
     LaunchHolds, CaptureHolds, ScanHolds, LaunchedOnce, SentPerCrash, ResultTold, ReportHolds,
     Agrees, LockTimesOut, Locked, ScanTo
<1>4. ASSUME NEW q \in Requests, q # r PROVE RequestInv(q)'
  BY <1>4, RequestFacts, SMTT(30) DEF RelayInv, RequestTyped, RequestRec, RequestInv, OfBot,
     LaunchHolds, CaptureHolds, ScanHolds, LaunchedOnce, SentPerCrash, ResultTold, ReportHolds,
     Agrees, LockTimesOut, Locked, ScanTo
<1> QED
  BY <1>1, <1>2, <1>3, <1>4 DEF RelayInv

LEMMA CodeTurnEndsKeeps ==
  ASSUME RelayInv, NEW t \in Launched, CodeTurnEnds(t)
  PROVE  RelayInv'
<1>1. RequestTyped'
  BY RequestFacts DEF RelayInv, RequestTyped, CodeTurnEnds
<1>2. CodeTyped'
  <2>1. chain[t] \in Seq(Requests \cup {User}) /\ chain[t] # <<>>
    BY DEF RelayInv, CodeTyped, CodeTurnEnds
  <2>2. Tail(chain[t]) \in Seq(Requests \cup {User})
    BY <2>1
  <2>3. chain' \in [Launched -> Seq(Requests \cup {User})]
    BY <2>2 DEF RelayInv, CodeTyped, CodeTurnEnds
  <2> QED
    BY <2>3 DEF RelayInv, CodeTyped, CodeTurnEnds
<1>3. ASSUME NEW q \in Requests PROVE RequestInv(q)'
  BY DEF RelayInv, RequestInv, OfBot, LaunchHolds, CaptureHolds, ScanHolds, LaunchedOnce,
     SentPerCrash, ResultTold, ReportHolds, Agrees, CodeTurnEnds
<1> QED
  BY <1>1, <1>2, <1>3 DEF RelayInv

LEMMA UserPromptsKeeps ==
  ASSUME RelayInv, NEW t \in Launched, UserPrompts(t)
  PROVE  RelayInv'
<1>1. RequestTyped'
  BY DEF RelayInv, RequestTyped, UserPrompts
<1>2. CodeTyped'
  <2>1. <<User>> \in Seq(Requests \cup {User})
    OBVIOUS
  <2>2. chain' \in [Launched -> Seq(Requests \cup {User})]
    BY <2>1 DEF RelayInv, CodeTyped, UserPrompts
  <2> QED
    BY <2>2 DEF RelayInv, CodeTyped, UserPrompts
<1>3. ASSUME NEW q \in Requests PROVE RequestInv(q)'
  BY DEF RelayInv, RequestInv, OfBot, LaunchHolds, CaptureHolds, ScanHolds, LaunchedOnce,
     SentPerCrash, ResultTold, ReportHolds, Agrees, UserPrompts
<1> QED
  BY <1>1, <1>2, <1>3 DEF RelayInv

LEMMA TickBeginsKeeps ==
  ASSUME RelayInv, TickBegins
  PROVE  RelayInv'
<1>1. RequestTyped'
  BY DEF RelayInv, RequestTyped, TickBegins
<1>2. CodeTyped'
  BY DEF RelayInv, CodeTyped, TickBegins
<1>3. ASSUME NEW q \in Requests PROVE RequestInv(q)'
  BY DEF RelayInv, RequestInv, OfBot, LaunchHolds, CaptureHolds, ScanHolds, LaunchedOnce,
     SentPerCrash, ResultTold, ReportHolds, Agrees, TickBegins
<1> QED
  BY <1>1, <1>2, <1>3 DEF RelayInv

\* After a crash nobody holds a lock, and an instruction may be sent once more.
LEMMA RelayCrashKeeps ==
  ASSUME RelayInv, Crash
  PROVE  RelayInv'
<1>1. RequestTyped'
  BY RequestFacts DEF RelayInv, RequestTyped, Crash
<1>2. CodeTyped'
  <2>1. <<>> \in Seq(Requests \cup {User})
    OBVIOUS
  <2>2. chain' \in [Launched -> Seq(Requests \cup {User})]
    BY <2>1, Zenon DEF Crash
  <2>3. /\ answered' \subseteq Launched /\ enabled' \in BOOLEAN /\ current' \subseteq Launched
        /\ botLock' \in Requests \cup {NoRequest}
    BY DEF RelayInv, CodeTyped, Crash
  <2>4. crashes' \in 0..MaxCrashes /\ faults' \in 0..MaxFaults
    BY RequestFacts DEF RelayInv, CodeTyped, Crash
  <2> QED
    BY <2>2, <2>3, <2>4 DEF CodeTyped
<1>3. ASSUME NEW q \in Requests PROVE RequestInv(q)'
  BY RequestFacts DEF RelayInv, RequestTyped, RequestInv, OfBot, LaunchHolds, CaptureHolds,
     ScanHolds,
     LaunchedOnce, SentPerCrash, ResultTold, ReportHolds, Agrees, Crash
<1> QED
  BY <1>1, <1>2, <1>3 DEF RelayInv

LEMMA RelayStutter ==
  ASSUME RelayInv, UNCHANGED relayVars
  PROVE  RelayInv'
BY DEF RelayInv, RequestTyped, CodeTyped, RequestInv, OfBot, LaunchHolds, CaptureHolds, ScanHolds,
   LaunchedOnce, SentPerCrash, ResultTold, ReportHolds, Agrees, relayVars, Final

LEMMA RelayStepInv == RelayInv /\ [RelayNext]_relayVars => RelayInv'
<1> SUFFICES ASSUME RelayInv, [RelayNext]_relayVars PROVE RelayInv'
  OBVIOUS
<1>1. CASE TickBegins \/ Disable
  BY <1>1, TickBeginsKeeps, DisableKeeps
<1>2. CASE Crash
  BY <1>2, RelayCrashKeeps
<1>3. ASSUME NEW t \in Launched, UserPrompts(t) \/ CodeTurnEnds(t) PROVE RelayInv'
  BY <1>3, UserPromptsKeeps, CodeTurnEndsKeeps
<1>4. ASSUME NEW r \in Requests, LaunchStep(r) PROVE RelayInv'
  BY <1>4, LaunchLinksKeeps, LaunchRunsKeeps, LaunchSendsKeeps, LaunchFailsKeeps DEF LaunchStep
<1>5. ASSUME NEW r \in Requests, ScanStep(r) PROVE RelayInv'
  BY <1>5, ScanSupersededKeeps, ScanAbortsKeeps, ScanRequestKeeps, DispatchKeeps,
     DispatchSendsKeeps,
     DispatchEndsKeeps, DeliveryRefusedKeeps, DeliveryBeginsKeeps, ReportKeeps, ReportFailsKeeps,
     ConfirmKeeps, LockTimesOutKeeps DEF ScanStep
<1>6. ASSUME NEW r \in Requests,
             \/ LaunchBegins(r) \/ Adopt(r) \/ Release(r) \/ QueuePrompt(r) \/ Captured(r)
             \/ Complete(r) \/ StopRequest(r) \/ Cancel(r) \/ StopAborts(r) \/ Supersede(r)
      PROVE  RelayInv'
  BY <1>6, LaunchBeginsKeeps, AdoptKeeps, ReleaseKeeps, QueuePromptKeeps, CapturedKeeps,
     CompleteKeeps,
     StopRequestKeeps, CancelKeeps, StopAbortsKeeps, SupersedeKeeps
<1>7. CASE UNCHANGED relayVars
  BY <1>7, RelayStutter
<1> QED
  BY <1>1, <1>2, <1>3, <1>4, <1>5, <1>6, <1>7 DEF RelayNext

LEMMA RelaySpecInv == RelaySpec => []RelayInv
BY RelayInitInv, RelayStepInv, PTL DEF RelaySpec

\* A Bot's request is delivered only once its report has been answered, with the result
\* that was reported; after a stop of the user it says so (markUserStoppedResult, and the
\* second read of the row before it is marked delivered).
THEOREM DeliveriesTold == RelaySpec => []DeliveredAsTold
<1>1. RelayInv => DeliveredAsTold
  BY RequestFacts
     DEF RelayInv, RequestInv, ResultTold, ReportHolds, Agrees, DeliveredAsTold
<1> QED
  BY <1>1, RelaySpecInv, PTL

\* A Bot's request prompts Code once over all restarts and is reported once; an
\* instruction of the user is sent again only after a crash (hasBotCodeReport,
\* codeDispatchResultState, the request's file written before its task is prompted).
THEOREM NothingIsSentTwice == RelaySpec => []NothingSentTwice
<1>1. RelayInv => NothingSentTwice
  BY RelayTyped, RequestFacts DEF RelayInv, RequestInv, LaunchedOnce, SentPerCrash, NothingSentTwice
<1> QED
  BY <1>1, RelaySpecInv, PTL

\* A step leaves a settled request settled.
LEMMA SettledStays ==
  ASSUME RelayInv, [RelayNext]_relayVars, NEW q \in Requests, Kept(q)
  PROVE  rec'[q].state = rec[q].state
<1>1. ASSUME NEW r \in Requests, LaunchBegins(r) PROVE rec'[q].state = rec[q].state
  BY <1>1, RequestFacts DEF Kept, Final, RelayInv, RequestTyped, RequestRec, RequestInv,
     LaunchHolds, CaptureHolds, ScanHolds, LaunchBegins, Save, Locked
<1>2. ASSUME NEW r \in Requests, LaunchLinks(r) PROVE rec'[q].state = rec[q].state
  BY <1>2, RequestFacts DEF Kept, Final, RelayInv, RequestTyped, RequestRec, RequestInv,
     LaunchHolds, CaptureHolds, ScanHolds, LaunchLinks
<1>3. ASSUME NEW r \in Requests, LaunchRuns(r) PROVE rec'[q].state = rec[q].state
  BY <1>3, RequestFacts DEF Kept, Final, RelayInv, RequestTyped, RequestRec, RequestInv,
     LaunchHolds, CaptureHolds, ScanHolds, LaunchRuns, Save
<1>4. ASSUME NEW r \in Requests, LaunchSends(r) PROVE rec'[q].state = rec[q].state
  BY <1>4, RequestFacts DEF Kept, Final, RelayInv, RequestTyped, RequestRec, RequestInv,
     LaunchHolds, CaptureHolds, ScanHolds, LaunchSends, SendPrompt, Code
<1>5. ASSUME NEW r \in Requests, LaunchFails(r) PROVE rec'[q].state = rec[q].state
  BY <1>5, RequestFacts DEF Kept, Final, RelayInv, RequestTyped, RequestRec, RequestInv,
     LaunchHolds, CaptureHolds, ScanHolds, LaunchFails, SaveResult
<1>6. ASSUME NEW r \in Requests, Adopt(r) PROVE rec'[q].state = rec[q].state
  BY <1>6, RequestFacts DEF Kept, Final, RelayInv, RequestTyped, RequestRec, RequestInv,
     LaunchHolds, CaptureHolds, ScanHolds, Adopt
<1>7. ASSUME NEW r \in Requests, Release(r) PROVE rec'[q].state = rec[q].state
  BY <1>7, RequestFacts DEF Kept, Final, RelayInv, RequestTyped, RequestRec, RequestInv,
     LaunchHolds, CaptureHolds, ScanHolds, Release, Save, Active
<1>8. ASSUME NEW r \in Requests, QueuePrompt(r) PROVE rec'[q].state = rec[q].state
  BY <1>8, RequestFacts DEF Kept, Final, RelayInv, RequestTyped, RequestRec, RequestInv,
     LaunchHolds, CaptureHolds, ScanHolds, QueuePrompt, Code
<1>9. ASSUME NEW r \in Requests, Captured(r) PROVE rec'[q].state = rec[q].state
  BY <1>9, RequestFacts DEF Kept, Final, RelayInv, RequestTyped, RequestRec, RequestInv,
     LaunchHolds, CaptureHolds, ScanHolds, Captured, SaveResult
<1>10. ASSUME NEW r \in Requests, Complete(r) PROVE rec'[q].state = rec[q].state
  BY <1>10, RequestFacts DEF Kept, Final, RelayInv, RequestTyped, RequestRec, RequestInv,
     LaunchHolds, CaptureHolds, ScanHolds, Complete, Locked, SaveResult
<1>11. ASSUME NEW r \in Requests, StopRequest(r) PROVE rec'[q].state = rec[q].state
  BY <1>11, RequestFacts DEF Kept, Final, RelayInv, RequestTyped, RequestRec, RequestInv,
     LaunchHolds, CaptureHolds, ScanHolds, StopRequest, Active, Locked
<1>12. ASSUME NEW r \in Requests, Cancel(r) PROVE rec'[q].state = rec[q].state
  BY <1>12, RequestFacts DEF Kept, Final, RelayInv, RequestTyped, RequestRec, RequestInv,
     LaunchHolds, CaptureHolds, ScanHolds, Cancel, Active, Locked, Save
<1>13. ASSUME NEW r \in Requests, StopAborts(r) PROVE rec'[q].state = rec[q].state
  BY <1>13, RequestFacts DEF Kept, Final, RelayInv, RequestTyped, RequestRec, RequestInv,
     LaunchHolds, CaptureHolds, ScanHolds, StopAborts, AbortTurn
<1>14. ASSUME NEW r \in Requests, Supersede(r) PROVE rec'[q].state = rec[q].state
  BY <1>14, RequestFacts DEF Kept, Final, RelayInv, RequestTyped, RequestRec, RequestInv,
     LaunchHolds, CaptureHolds, ScanHolds, Supersede, Active
<1>15. ASSUME NEW r \in Requests, ScanSuperseded(r) PROVE rec'[q].state = rec[q].state
  BY <1>15, RequestFacts DEF Kept, Final, RelayInv, RequestTyped, RequestRec, RequestInv,
     LaunchHolds, CaptureHolds, ScanHolds, ScanSuperseded, Locked, Active, Save, ScanTo
<1>16. ASSUME NEW r \in Requests, ScanAborts(r) PROVE rec'[q].state = rec[q].state
  BY <1>16, RequestFacts DEF Kept, Final, RelayInv, RequestTyped, RequestRec, RequestInv,
     LaunchHolds, CaptureHolds, ScanHolds, ScanAborts, AbortTurn, Code, ScanTo
<1>17. ASSUME NEW r \in Requests, ScanRequest(r) PROVE rec'[q].state = rec[q].state
  <2>1. CASE ScanInterrupted(r)
    BY <1>17, <2>1 DEF Kept, Final, RelayInv, RequestTyped, RequestRec, ScanInterrupted, SaveResult
  <2>2. CASE ScanEnded(r)
    BY <1>17, <2>2 DEF Kept, Final, RelayInv, RequestTyped, RequestRec, ScanEnded, SaveResult
  <2>3. CASE ScanPasses(r)
    BY <2>3 DEF ScanPasses
  <2> QED
    BY <1>17, <2>1, <2>2, <2>3 DEF ScanRequest
<1>18. ASSUME NEW r \in Requests, Dispatch(r) PROVE rec'[q].state = rec[q].state
  BY <1>18, RequestFacts DEF Kept, Final, RelayInv, RequestTyped, RequestRec, RequestInv,
     LaunchHolds, CaptureHolds, ScanHolds, Dispatch, Locked, Active, Dispatchable, Save, ScanTo
<1>19. ASSUME NEW r \in Requests, DispatchSends(r) PROVE rec'[q].state = rec[q].state
  BY <1>19, RequestFacts DEF Kept, Final, RelayInv, RequestTyped, RequestRec, RequestInv,
     LaunchHolds, CaptureHolds, ScanHolds, DispatchSends, SendPrompt, Code, ScanTo
<1>20. ASSUME NEW r \in Requests, DispatchEnds(r) PROVE rec'[q].state = rec[q].state
  BY <1>20, RequestFacts DEF Kept, Final, RelayInv, RequestTyped, RequestRec, RequestInv,
     LaunchHolds, CaptureHolds, ScanHolds, DispatchEnds, Fault, Save, ScanTo, DispatchResult
<1>21. ASSUME NEW r \in Requests, DeliveryRefused(r) PROVE rec'[q].state = rec[q].state
  BY <1>21, RequestFacts DEF Kept, Final, RelayInv, RequestTyped, RequestRec, RequestInv,
     LaunchHolds, CaptureHolds, ScanHolds, DeliveryRefused, Fault, ScanTo, Deliverable
<1>22. ASSUME NEW r \in Requests, DeliveryBegins(r) PROVE rec'[q].state = rec[q].state
  BY <1>22, RequestFacts DEF Kept, Final, RelayInv, RequestTyped, RequestRec, RequestInv,
     LaunchHolds, CaptureHolds, ScanHolds, DeliveryBegins, Deliverable, ScanTo
<1>23. ASSUME NEW r \in Requests, Report(r) PROVE rec'[q].state = rec[q].state
  BY <1>23, RequestFacts DEF Kept, Final, RelayInv, RequestTyped, RequestRec, RequestInv,
     LaunchHolds, CaptureHolds, ScanHolds, Report, HasReport, ScanTo
<1>24. ASSUME NEW r \in Requests, ReportFails(r) PROVE rec'[q].state = rec[q].state
  BY <1>24, RequestFacts DEF Kept, Final, RelayInv, RequestTyped, RequestRec, RequestInv,
     LaunchHolds, CaptureHolds, ScanHolds, ReportFails, Fault, ScanTo
<1>25. ASSUME NEW r \in Requests, Confirm(r) PROVE rec'[q].state = rec[q].state
  BY <1>25, RequestFacts DEF Kept, Final, RelayInv, RequestTyped, RequestRec, RequestInv,
     LaunchHolds, CaptureHolds, ScanHolds, Confirm, Locked, Confirmed, ScanTo
<1>26. ASSUME NEW r \in Requests, LockTimesOut(r) PROVE rec'[q].state = rec[q].state
  BY <1>26, RequestFacts DEF Kept, Final, RelayInv, RequestTyped, RequestRec, RequestInv,
     LaunchHolds, CaptureHolds, ScanHolds, LockTimesOut, Locked, ScanTo
<1>27. CASE \/ TickBegins \/ Disable \/ Crash \/ UNCHANGED relayVars
            \/ \E t \in Launched : UserPrompts(t) \/ CodeTurnEnds(t)
  BY <1>27 DEF TickBegins, Disable, Crash, relayVars, UserPrompts, CodeTurnEnds
<1> QED
  BY <1>1, <1>2, <1>3, <1>4, <1>5, <1>6, <1>7, <1>8, <1>9, <1>10, <1>11, <1>12, <1>13, <1>14,
     <1>15, <1>16, <1>17, <1>18, <1>19, <1>20, <1>21, <1>22, <1>23, <1>24, <1>25, <1>26, <1>27
     DEF RelayNext, LaunchStep, ScanStep

\* A settled request stays settled: no late launch, capture or delivery brings it
\* back, but for the capture of a task the user takes back (shouldConfirmCodeDelivery).
THEOREM FinalStays == RelaySpec => FinalStaysFinal
<1>1. RelayInv /\ [RelayNext]_relayVars =>
        [\A r \in Requests : Final(r) /\ ~(rec[r].supervision /\ capture[r] # "no")
           => rec'[r].state = rec[r].state]_relayVars
  BY SettledStays DEF Kept
<1> QED
  BY <1>1, RelaySpecInv, PTL DEF RelaySpec, FinalStaysFinal
=============================================================================
