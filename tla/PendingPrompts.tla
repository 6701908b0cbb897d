--------------------------- MODULE PendingPrompts ---------------------------
(***************************************************************************)
(* The pending user decisions of backend/core/pending-prompts.mjs: a queue *)
(* per task of the permission or question requests its sessions wait on.   *)
(* Only the head is shown, and only the head is answered or timed out.     *)
(*                                                                         *)
(* A call is one call of handleRequest; the call that queues a row stands  *)
(* for the row and its promise, a call that joins a pending row gets the   *)
(* row's promise.  Each method is one step of the event loop.  "visible"   *)
(* is a history variable: how long the present head has been shown.        *)
(***************************************************************************)
EXTENDS Naturals, Sequences, Functions

CONSTANTS
  Call,      \* calls of handleRequest
  Task,      \* tasks
  Session,   \* sessions
  Id,        \* request ids
  TaskOf,    \* the task a session is live for, when it is live
  SessionOf, \* the session of a call
  IdOf,      \* the request id of a call
  Timeout,   \* timeoutMs, in ticks
  None       \* null

ASSUME TaskAssumption == TaskOf \in [Session -> Task]
ASSUME CallAssumption == SessionOf \in [Call -> Session] /\ IdOf \in [Call -> Id]
ASSUME TimeoutAssumption == Timeout \in Nat \ {0}
ASSUME NoneAssumption == None \notin Call \cup Id

VARIABLES
  queueByTask, \* rows waiting, by task
  pendingById, \* the row pending under an id
  armed,       \* rows with a running timer
  left,        \* the ticks a running timer has left, else 0
  shown,       \* the request in the task's last snapshot
  visible,     \* history: ticks since the task's head became its head
  promise,     \* the row whose promise a call was given
  outcome      \* what became of a call

vars == <<queueByTask, pendingById, armed, left, shown, visible, promise, outcome>>

RowTask(c) == TaskOf[SessionOf[c]]
Pending(c) == outcome[c] = "pending"
HeadPending(t) == queueByTask[t][1]
Rows(t) == Range(queueByTask[t])

\* (mutant) Every decision is followed by a snapshot of null.
HeadIdNull(queue) == None

\* pushSnapshot of the task's head, or of null.
HeadId(queue) == IF queue = <<>> THEN None ELSE IdOf[queue[1]]

Init ==
  /\ queueByTask = [t \in Task |-> <<>>]
  /\ pendingById = [i \in Id |-> None]
  /\ armed = {}
  /\ left = [c \in Call |-> 0]
  /\ shown = [t \in Task |-> None]
  /\ visible = [t \in Task |-> 0]
  /\ promise = [c \in Call |-> None]
  /\ outcome = [c \in Call |-> "new"]

(***************************************************************************)
(* handleRequest.                                                          *)
(***************************************************************************)
\* The session is not live for a task: no user decision, null at once.
RequestUnmapped(c) ==
  /\ outcome[c] = "new"
  /\ outcome' = [outcome EXCEPT ![c] = "unmapped"]
  /\ UNCHANGED <<queueByTask, pendingById, armed, left, shown, visible, promise>>

\* A request joins a pending one with its id of the same task and session.
Joins(c, row) == RowTask(row) = RowTask(c) /\ SessionOf[row] = SessionOf[c]

RequestExisting(c) ==
  /\ outcome[c] = "new"
  /\ pendingById[IdOf[c]] # None
  /\ IF Joins(c, pendingById[IdOf[c]])
     THEN /\ outcome' = [outcome EXCEPT ![c] = "joined"]
          /\ promise' = [promise EXCEPT ![c] = pendingById[IdOf[c]]]
     ELSE /\ outcome' = [outcome EXCEPT ![c] = "collided"]
          /\ UNCHANGED promise
  /\ UNCHANGED <<queueByTask, pendingById, armed, left, shown, visible>>

\* A new row: every row arms a timer, the first of its task is shown.
RequestQueued(c) ==
  LET t == RowTask(c)
      first == queueByTask[t] = <<>>
  IN
  /\ outcome[c] = "new"
  /\ pendingById[IdOf[c]] = None
  /\ outcome' = [outcome EXCEPT ![c] = "pending"]
  /\ promise' = [promise EXCEPT ![c] = c]
  /\ armed' = armed \cup {c}
  /\ left' = [left EXCEPT ![c] = Timeout]
  /\ pendingById' = [pendingById EXCEPT ![IdOf[c]] = c]
  /\ queueByTask' = [queueByTask EXCEPT ![t] = Append(@, c)]
  /\ shown' = IF first THEN [shown EXCEPT ![t] = IdOf[c]] ELSE shown
  /\ visible' = IF first THEN [visible EXCEPT ![t] = 0] ELSE visible

(***************************************************************************)
(* Decisions.                                                              *)
(***************************************************************************)
\* (mutant) The timers of decided rows keep running.
StoppedNone(rows) == {}

\* clearPendingRow.
Stopped(rows) == rows
Unindexed(rows) ==
  [i \in Id |-> IF pendingById[i] \in rows THEN None ELSE pendingById[i]]

\* (mutant) The next row keeps the timer it was queued with.
RearmedNever(queue) == {}

\* armTimer of the row that becomes the head.
Rearmed(queue) == IF queue = <<>> THEN {} ELSE {queue[1]}

\* finishHead, and the snapshot of the next head.
FinishHead(t, result) ==
  LET c == HeadPending(t)
      rest == Tail(queueByTask[t])
  IN
  /\ outcome' = [outcome EXCEPT ![c] = result]
  /\ pendingById' = Unindexed({c})
  /\ armed' = (armed \ Stopped({c})) \cup Rearmed(rest)
  /\ left' = [d \in Call |-> IF d \in Rearmed(rest) THEN Timeout
                             ELSE IF d \in Stopped({c}) THEN 0 ELSE left[d]]
  /\ queueByTask' = [queueByTask EXCEPT ![t] = rest]
  /\ shown' = [shown EXCEPT ![t] = HeadId(rest)]
  /\ visible' = [visible EXCEPT ![t] = 0]
  /\ UNCHANGED promise

\* (mutant) Any pending request of the task may be answered.
AnswerableQueued(t, i) == \E c \in Rows(t) : IdOf[c] = i

\* A response is taken for the head only.
Answerable(t, i) == queueByTask[t] # <<>> /\ IdOf[HeadPending(t)] = i

Respond(t, i) ==
  /\ Answerable(t, i)
  /\ FinishHead(t, "answered")

TimerElapsed(c) == c \in armed /\ left[c] = 0

\* The callback of a row that is not the head does nothing.
TimerFires(c) ==
  /\ TimerElapsed(c)
  /\ queueByTask[RowTask(c)] # <<>>
  /\ IF IdOf[HeadPending(RowTask(c))] = IdOf[c]
     THEN FinishHead(RowTask(c), "refused")
     ELSE /\ armed' = armed \ {c}
          /\ UNCHANGED <<queueByTask, pendingById, left, shown, visible, promise, outcome>>

Tick ==
  /\ \E c \in armed : left[c] > 0
  /\ left' = [c \in Call |-> IF left[c] > 0 THEN left[c] - 1 ELSE 0]
  /\ visible' = [t \in Task |->
                   IF queueByTask[t] # <<>> /\ visible[t] < Timeout
                   THEN visible[t] + 1 ELSE visible[t]]
  /\ UNCHANGED <<queueByTask, pendingById, armed, shown, promise, outcome>>

\* Every row of the tasks is refused and forgotten.
Refuse(tasks) ==
  LET rows == UNION {Rows(t) : t \in tasks} IN
  /\ outcome' = [c \in Call |-> IF c \in rows THEN "refused" ELSE outcome[c]]
  /\ pendingById' = Unindexed(rows)
  /\ armed' = armed \ Stopped(rows)
  /\ left' = [c \in Call |-> IF c \in Stopped(rows) THEN 0 ELSE left[c]]
  /\ visible' = [t \in Task |-> IF t \in tasks THEN 0 ELSE visible[t]]
  /\ queueByTask' = [t \in Task |-> IF t \in tasks THEN <<>> ELSE queueByTask[t]]
  /\ UNCHANGED promise

ClearPendingForTask(t) ==
  /\ queueByTask[t] # <<>>
  /\ Refuse({t})
  /\ shown' = [shown EXCEPT ![t] = None]

\* dispose pushes no snapshot.
Dispose ==
  /\ Refuse(Task)
  /\ UNCHANGED shown

Next ==
  \/ Tick
  \/ Dispose
  \/ \E c \in Call :
       \/ RequestUnmapped(c) \/ RequestExisting(c) \/ RequestQueued(c)
       \/ TimerFires(c)
  \/ \E t \in Task : ClearPendingForTask(t) \/ \E i \in Id : Respond(t, i)

Spec == Init /\ [][Next]_vars

\* Time passes and due timers fire; nobody need ever answer.
Fairness ==
  /\ WF_vars(Tick)
  /\ \A c \in Call : WF_vars(TimerFires(c))

FairSpec == Spec /\ Fairness
-----------------------------------------------------------------------------
Outcomes == {"new", "pending", "answered", "refused", "joined", "unmapped", "collided"}

\* Types of the queues, the index, the timers and what callers were given.
TypeOK ==
  /\ queueByTask \in [Task -> Seq(Call)]
  /\ pendingById \in [Id -> Call \cup {None}]
  /\ armed \subseteq Call
  /\ left \in [Call -> 0 .. Timeout]
  /\ shown \in [Task -> Id \cup {None}]
  /\ visible \in [Task -> 0 .. Timeout]
  /\ promise \in [Call -> Call \cup {None}]
  /\ outcome \in [Call -> Outcomes]

\* The queues and the index agree: a row is in its task's queue, once, exactly while
\* it is undecided, and its id finds it, so a decided id is free again.
IndexExact ==
  /\ \A t \in Task : IsInjective(queueByTask[t])
  /\ \A c \in Call : Pending(c) <=> c \in Rows(RowTask(c))
  /\ \A t \in Task : \A c \in Rows(t) : RowTask(c) = t
  /\ \A c \in Call : Pending(c) <=> pendingById[IdOf[c]] = c
  /\ \A i \in Id : pendingById[i] # None => IdOf[pendingById[i]] = i

\* Only a request that is still undecided keeps a timer running.
TimersPending == \A c \in armed : Pending(c)

\* A caller is given the decision on its own request: its session, task and id.
OwnDecision ==
  \A c \in Call : promise[c] # None =>
    SessionOf[promise[c]] = SessionOf[c] /\ IdOf[promise[c]] = IdOf[c]

\* No row is lost or left over, in the queues, in the index or among the timers
\* (request, finish, clear), and a decision goes to no request but its own.
RowsAccounted == TypeOK /\ IndexExact /\ TimersPending /\ OwnDecision

\* The head always has a running timer, and it runs out exactly when the request
\* has been shown for the whole timeout, however long it was queued before.
HeadTimed ==
  \A t \in Task : queueByTask[t] # <<>> =>
    HeadPending(t) \in armed /\ left[HeadPending(t)] + visible[t] = Timeout

\* The request a task waits on is the one its last snapshot shows.
HeadShown ==
  \A t \in Task : queueByTask[t] # <<>> => shown[t] = IdOf[HeadPending(t)]

\* Whatever moved the queue, its new head is timed from now and shown.
HeadAttended == HeadTimed /\ HeadShown

\* An answer decides the request it names, and only while the user is shown it.
AnswerNamesRequest ==
  [][\A t \in Task, i \in Id : Respond(t, i) =>
       \A c \in Call : Pending(c) /\ outcome'[c] = "answered" =>
         RowTask(c) = t /\ IdOf[c] = i /\ shown[t] = i]_vars

\* Every request is decided, by refusal if nobody answers.
EveryRequestDecided == \A c \in Call : Pending(c) ~> ~Pending(c)
=============================================================================
