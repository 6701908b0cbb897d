------------------------ MODULE PendingPromptsProofs ------------------------
(***************************************************************************)
(* Proofs about PendingPrompts: for every set of calls, tasks, sessions    *)
(* and ids the queues and the index agree, the head is timed and shown,    *)
(* and a caller gets the decision on its own request.                      *)
(***************************************************************************)
EXTENDS PendingPrompts, SequenceTheorems, TLAPS

(***************************************************************************)
(* Queues without repetition.                                              *)
(***************************************************************************)
\* Queuing a new row: it is added to the rows, the head stays if there is one.
LEMMA AppendRow ==
  ASSUME NEW S, NEW q \in Seq(S), NEW x \in S, IsInjective(q), x \notin Range(q)
  PROVE  /\ Append(q, x) \in Seq(S)
         /\ Append(q, x) # <<>>
         /\ IsInjective(Append(q, x))
         /\ Range(Append(q, x)) = Range(q) \cup {x}
         /\ Append(q, x)[1] = IF q = <<>> THEN x ELSE q[1]
<1> DEFINE r == Append(q, x)
<1>1. /\ r \in Seq(S) /\ r # <<>> /\ Len(r) = Len(q) + 1
      /\ \A i \in 1 .. Len(q) : r[i] = q[i]
      /\ r[Len(q) + 1] = x
  BY AppendProperties
<1>2. /\ Len(q) \in Nat /\ DOMAIN q = 1 .. Len(q) /\ DOMAIN r = 1 .. Len(q) + 1
      /\ q = <<>> <=> Len(q) = 0
  BY <1>1, EmptySeq, LenProperties
<1> HIDE DEF r
<1>3. \A i \in 1 .. Len(q) : q[i] \in Range(q)
  BY <1>2 DEF Range
<1>4. IsInjective(r)
  <2> SUFFICES ASSUME NEW i \in 1 .. Len(q) + 1, NEW j \in 1 .. Len(q) + 1, r[i] = r[j]
               PROVE  i = j
    BY <1>2 DEF IsInjective
  <2>1. CASE i \in 1 .. Len(q) /\ j \in 1 .. Len(q)
    BY <2>1, <1>1, <1>2 DEF IsInjective
  <2>2. CASE i = Len(q) + 1 /\ j \in 1 .. Len(q)
    BY <2>2, <1>1, <1>3
  <2>3. CASE j = Len(q) + 1 /\ i \in 1 .. Len(q)
    BY <2>3, <1>1, <1>3
  <2> QED BY <2>1, <2>2, <2>3, <1>2
<1>5. Range(r) = Range(q) \cup {x}
  <2>1. \A y \in Range(r) : y \in Range(q) \cup {x}
    <3> SUFFICES ASSUME NEW i \in 1 .. Len(q) + 1 PROVE r[i] \in Range(q) \cup {x}
      BY <1>2 DEF Range
    <3> QED BY <1>1, <1>2, <1>3
  <2>2. \A y \in Range(q) : y \in Range(r)
    <3> SUFFICES ASSUME NEW i \in 1 .. Len(q) PROVE q[i] \in Range(r)
      BY <1>2 DEF Range
    <3>1. i \in DOMAIN r /\ r[i] = q[i]
      BY <1>1, <1>2
    <3> QED BY <3>1 DEF Range
  <2>3. x \in Range(r)
    <3>1. Len(q) + 1 \in DOMAIN r
      BY <1>2
    <3> QED BY <3>1, <1>1 DEF Range
  <2> QED BY <2>1, <2>2, <2>3
<1>6. r[1] = IF q = <<>> THEN x ELSE q[1]
  BY <1>1, <1>2
<1> QED BY <1>1, <1>4, <1>5, <1>6 DEF r

\* Taking the head off: the rest is the other rows, without repetition.
LEMMA TailRows ==
  ASSUME NEW S, NEW q \in Seq(S), IsInjective(q), q # <<>>
  PROVE  /\ Tail(q) \in Seq(S)
         /\ IsInjective(Tail(q))
         /\ Range(Tail(q)) = Range(q) \ {q[1]}
         /\ q[1] \in Range(q)
         /\ Tail(q) # <<>> => Tail(q)[1] \in Range(Tail(q))
<1> DEFINE r == Tail(q)
<1>1. /\ r \in Seq(S) /\ Len(r) = Len(q) - 1
      /\ \A i \in 1 .. Len(r) : r[i] = q[i + 1]
  BY HeadTailProperties
<1>2. /\ Len(q) \in Nat \ {0} /\ DOMAIN q = 1 .. Len(q) /\ DOMAIN r = 1 .. Len(q) - 1
      /\ r = <<>> <=> Len(q) = 1
  <2> HIDE DEF r
  <2>1. Len(q) \in Nat /\ Len(q) # 0 /\ DOMAIN q = 1 .. Len(q)
    BY EmptySeq, LenProperties
  <2>2. DOMAIN r = 1 .. Len(r)
    BY <1>1, LenProperties
  <2>3. r = <<>> <=> Len(r) = 0
    BY <1>1, EmptySeq
  <2> QED BY <1>1, <2>1, <2>2, <2>3
<1> HIDE DEF r
<1>3. IsInjective(r)
  <2> SUFFICES ASSUME NEW i \in 1 .. Len(q) - 1, NEW j \in 1 .. Len(q) - 1, r[i] = r[j]
               PROVE  i = j
    BY <1>2 DEF IsInjective
  <2>1. i + 1 \in DOMAIN q /\ j + 1 \in DOMAIN q /\ q[i + 1] = q[j + 1]
    BY <1>1, <1>2
  <2>2. i + 1 = j + 1
    BY <2>1 DEF IsInjective
  <2> QED BY <2>2
<1>4. 1 \in DOMAIN q /\ q[1] \in Range(q)
  BY <1>2 DEF Range
<1>5. Range(r) \subseteq Range(q) \ {q[1]}
  <2> SUFFICES ASSUME NEW i \in 1 .. Len(q) - 1 PROVE r[i] \in Range(q) /\ r[i] # q[1]
    BY <1>2 DEF Range
  <2>1. i + 1 \in DOMAIN q /\ r[i] = q[i + 1] /\ i + 1 # 1
    BY <1>1, <1>2
  <2> QED BY <2>1, <1>4 DEF Range, IsInjective
<1>6. Range(q) \ {q[1]} \subseteq Range(r)
  <2> SUFFICES ASSUME NEW i \in 1 .. Len(q), q[i] # q[1] PROVE q[i] \in Range(r)
    BY <1>2 DEF Range
  <2>1. i - 1 \in DOMAIN r /\ i - 1 \in 1 .. Len(r) /\ (i - 1) + 1 = i
    BY <1>1, <1>2
  <2>2. r[i - 1] = q[i]
    BY <2>1, <1>1
  <2> QED BY <2>1, <2>2 DEF Range
<1>7. r # <<>> => r[1] \in Range(r)
  <2>1. r # <<>> => 1 \in DOMAIN r
    BY <1>2
  <2> QED BY <2>1 DEF Range
<1> QED BY <1>1, <1>3, <1>4, <1>5, <1>6, <1>7 DEF r

(***************************************************************************)
(* The inductive invariant.                                                *)
(***************************************************************************)
IInv ==
  /\ TypeOK /\ IndexExact /\ TimersPending /\ HeadTimed /\ HeadShown /\ OwnDecision

\* The task and the id of a call are of their types.
LEMMA RowTaskType == \A c \in Call : RowTask(c) \in Task /\ IdOf[c] \in Id
BY TaskAssumption, CallAssumption DEF RowTask

\* The head of a queue is one of its rows, and undecided.
LEMMA HeadIsRow ==
  ASSUME IInv, NEW t \in Task, queueByTask[t] # <<>>
  PROVE  /\ HeadPending(t) \in Rows(t)
         /\ HeadPending(t) \in Call
         /\ RowTask(HeadPending(t)) = t
         /\ Pending(HeadPending(t))
         /\ Rows(t) \subseteq Call
<1>1. queueByTask[t] \in Seq(Call) /\ IsInjective(queueByTask[t])
  BY DEF IInv, TypeOK, IndexExact
<1>2. HeadPending(t) \in Rows(t)
  BY <1>1, TailRows DEF HeadPending, Rows
<1>3. Rows(t) \subseteq Call
  BY <1>1, LenProperties, ElementOfSeq DEF Rows, Range
<1> QED BY <1>2, <1>3 DEF IInv, IndexExact

\* The invariant holds of the empty stores.
LEMMA InitInv == Init => IInv
<1> SUFFICES ASSUME Init PROVE IInv
  OBVIOUS
<1>1. TypeOK
  BY TimeoutAssumption, EmptySeq DEF Init, TypeOK, Outcomes
<1>2. \A t \in Task : Rows(t) = {} /\ queueByTask[t] = <<>> /\ IsInjective(queueByTask[t])
  <2> SUFFICES ASSUME NEW t \in Task
               PROVE  Rows(t) = {} /\ queueByTask[t] = <<>> /\ IsInjective(queueByTask[t])
    OBVIOUS
  <2>1. queueByTask[t] = <<>>
    BY DEF Init
  <2>2. DOMAIN << >> = {}
    OBVIOUS
  <2> QED BY <2>1, <2>2 DEF Rows, Range, IsInjective
<1>3. IndexExact
  BY <1>2, RowTaskType, NoneAssumption DEF Init, IndexExact, Pending
<1>4. TimersPending /\ HeadTimed /\ HeadShown /\ OwnDecision
  BY <1>2 DEF Init, TimersPending, HeadTimed, HeadShown, OwnDecision
<1> QED BY <1>1, <1>3, <1>4 DEF IInv

(***************************************************************************)
(* handleRequest.                                                          *)
(***************************************************************************)
LEMMA UnmappedInv ==
  ASSUME IInv, NEW c \in Call, RequestUnmapped(c)
  PROVE  IInv'
<1> USE DEF RequestUnmapped
<1>1. /\ outcome' \in [Call -> Outcomes]
      /\ \A d \in Call : Pending(d)' <=> Pending(d)
  BY DEF IInv, TypeOK, Outcomes, Pending
<1>2. TypeOK'
  BY <1>1 DEF IInv, TypeOK
<1>3. IndexExact'
  BY <1>1 DEF IInv, IndexExact, Rows, RowTask
<1>4. (TimersPending /\ HeadTimed /\ HeadShown /\ OwnDecision)'
  BY <1>1 DEF IInv, TypeOK, TimersPending, HeadTimed, HeadShown, OwnDecision, HeadPending
<1> QED BY <1>2, <1>3, <1>4 DEF IInv

\* A call for an id already held joins its row or collides, and preserves it.
LEMMA ExistingInv ==
  ASSUME IInv, NEW c \in Call, RequestExisting(c)
  PROVE  IInv'
<1> DEFINE row == pendingById[IdOf[c]]
<1>1. /\ outcome' \in [Call -> Outcomes]
      /\ \A d \in Call : Pending(d)' <=> Pending(d)
  BY DEF RequestExisting, IInv, TypeOK, Outcomes, Pending
<1>2. row \in Call /\ IdOf[row] = IdOf[c]
  BY RowTaskType DEF RequestExisting, IInv, TypeOK, IndexExact
<1>3. promise' \in [Call -> Call \cup {None}]
  BY <1>2 DEF RequestExisting, IInv, TypeOK
<1>4. TypeOK'
  BY <1>1, <1>3 DEF RequestExisting, IInv, TypeOK
<1>5. IndexExact'
  BY <1>1 DEF RequestExisting, IInv, IndexExact, Rows, RowTask
<1>6. (TimersPending /\ HeadTimed /\ HeadShown)'
  BY <1>1 DEF RequestExisting, IInv, TypeOK, TimersPending, HeadTimed, HeadShown, HeadPending
<1>7. OwnDecision'
  BY <1>2 DEF RequestExisting, Joins, IInv, TypeOK, OwnDecision
<1> QED BY <1>4, <1>5, <1>6, <1>7 DEF IInv

\* Queuing a new row preserves it.
LEMMA QueuedInv ==
  ASSUME IInv, NEW c \in Call, RequestQueued(c)
  PROVE  IInv'
<1> DEFINE t == RowTask(c)
           q == queueByTask[t]
<1>1. t \in Task /\ IdOf[c] \in Id
  BY RowTaskType
<1>2. q \in Seq(Call) /\ IsInjective(q) /\ c \notin Range(q) /\ ~Pending(c)
  BY <1>1 DEF IInv, TypeOK, IndexExact, RequestQueued, Pending, Rows
<1>3. /\ Append(q, c) \in Seq(Call) /\ Append(q, c) # <<>> /\ IsInjective(Append(q, c))
      /\ Range(Append(q, c)) = Range(q) \cup {c}
      /\ Append(q, c)[1] = IF q = <<>> THEN c ELSE q[1]
  <2> HIDE DEF q
  <2> QED BY <1>2, AppendRow
<1>4. \A u \in Task : queueByTask'[u] = IF u = t THEN Append(q, c) ELSE queueByTask[u]
  BY DEF RequestQueued, IInv, TypeOK
<1>5. \A u \in Task : Rows(u)' = IF u = t THEN Rows(u) \cup {c} ELSE Rows(u)
  BY <1>3, <1>4 DEF Rows
<1>6. \A d \in Call : Pending(d)' <=> Pending(d) \/ d = c
  BY DEF RequestQueued, IInv, TypeOK, Pending
<1>7. \A u \in Task : IF u = t /\ q = <<>> THEN HeadPending(u)' = c
                      ELSE queueByTask'[u] # <<>> =>
                             queueByTask[u] # <<>> /\ HeadPending(u)' = HeadPending(u)
  BY <1>3, <1>4 DEF HeadPending
<1> HIDE DEF q, t
<1>8. TypeOK'
  <2>1. queueByTask' \in [Task -> Seq(Call)]
    BY <1>3, <1>4 DEF RequestQueued, IInv, TypeOK, q, t
  <2>2. left' \in [Call -> 0 .. Timeout] /\ visible' \in [Task -> 0 .. Timeout]
    BY <1>1, TimeoutAssumption DEF RequestQueued, IInv, TypeOK, t
  <2>3. shown' \in [Task -> Id \cup {None}] /\ pendingById' \in [Id -> Call \cup {None}]
    BY <1>1 DEF RequestQueued, IInv, TypeOK, t
  <2>4. /\ promise' \in [Call -> Call \cup {None}] /\ outcome' \in [Call -> Outcomes]
        /\ armed' \subseteq Call
    BY DEF RequestQueued, IInv, TypeOK, Outcomes
  <2> QED BY <2>1, <2>2, <2>3, <2>4 DEF TypeOK
<1>9. IndexExact'
  <2>1. \A u \in Task : IsInjective(queueByTask'[u])
    BY <1>3, <1>4 DEF IInv, IndexExact
  <2>2. \A d \in Call : Pending(d)' <=> d \in Rows(RowTask(d))'
    BY <1>1, <1>5, <1>6, RowTaskType DEF IInv, IndexExact, RowTask, t
  <2>3. \A u \in Task : \A d \in Rows(u)' : RowTask(d) = u
    BY <1>5 DEF IInv, IndexExact, t
  <2>4. \A i \in Id : pendingById'[i] = IF i = IdOf[c] THEN c ELSE pendingById[i]
    BY DEF RequestQueued, IInv, TypeOK
  <2>5. \A d \in Call : Pending(d)' <=> pendingById'[IdOf[d]] = d
    BY <1>6, <2>4, RowTaskType, NoneAssumption DEF RequestQueued, IInv, IndexExact
  <2>6. \A i \in Id : pendingById'[i] # None => IdOf[pendingById'[i]] = i
    BY <2>4 DEF IInv, IndexExact
  <2> QED BY <2>1, <2>2, <2>3, <2>5, <2>6 DEF IndexExact, RowTask
<1>10. TimersPending'
  BY <1>6 DEF RequestQueued, IInv, TypeOK, TimersPending
<1>11. HeadTimed'
  <2> SUFFICES ASSUME NEW u \in Task, queueByTask'[u] # <<>>
               PROVE  (HeadPending(u) \in armed /\ left[HeadPending(u)] + visible[u] = Timeout)'
    BY DEF HeadTimed
  <2>1. CASE u = t /\ q = <<>>
    BY <2>1, <1>7, <1>1, TimeoutAssumption DEF RequestQueued, IInv, TypeOK, q, t
  <2>2. CASE ~(u = t /\ q = <<>>)
    <3>1. queueByTask[u] # <<>> /\ HeadPending(u)' = HeadPending(u)
      BY <2>2, <1>7
    <3>2. HeadPending(u) \in Call /\ HeadPending(u) # c
      BY <3>1, <1>2, HeadIsRow
    <3>3. visible'[u] = visible[u] /\ left'[HeadPending(u)] = left[HeadPending(u)]
      BY <2>2, <3>2 DEF RequestQueued, IInv, TypeOK, q, t
    <3> QED BY <3>1, <3>3 DEF RequestQueued, IInv, HeadTimed
  <2> QED BY <2>1, <2>2
<1>12. HeadShown'
  <2> SUFFICES ASSUME NEW u \in Task, queueByTask'[u] # <<>>
               PROVE  shown'[u] = IdOf[HeadPending(u)']
    BY DEF HeadShown
  <2>1. CASE u = t /\ q = <<>>
    BY <2>1, <1>7 DEF RequestQueued, IInv, TypeOK, q, t
  <2>2. CASE ~(u = t /\ q = <<>>)
    BY <2>2, <1>7 DEF RequestQueued, IInv, TypeOK, HeadShown, q, t
  <2> QED BY <2>1, <2>2
<1>13. OwnDecision'
  BY DEF RequestQueued, IInv, TypeOK, OwnDecision
<1> QED BY <1>8, <1>9, <1>10, <1>11, <1>12, <1>13 DEF IInv

(***************************************************************************)
(* The head is decided, by an answer or by its timer.                      *)
(***************************************************************************)
LEMMA FinishHeadInv ==
  ASSUME IInv, NEW t \in Task, queueByTask[t] # <<>>,
         NEW result \in {"answered", "refused"}, FinishHead(t, result)
  PROVE  IInv'
<1> DEFINE c == HeadPending(t)
           q == queueByTask[t]
           rest == Tail(q)
<1>1. c \in Rows(t) /\ c \in Call /\ RowTask(c) = t /\ Pending(c) /\ Rows(t) \subseteq Call
  BY HeadIsRow
<1>2. q \in Seq(Call) /\ IsInjective(q)
  BY DEF IInv, TypeOK, IndexExact
<1>3. /\ rest \in Seq(Call) /\ IsInjective(rest)
      /\ Range(rest) = Rows(t) \ {c}
      /\ rest # <<>> => rest[1] \in Range(rest)
  <2> HIDE DEF q
  <2>1. /\ Tail(q) \in Seq(Call) /\ IsInjective(Tail(q)) /\ Range(Tail(q)) = Range(q) \ {q[1]}
        /\ Tail(q) # <<>> => Tail(q)[1] \in Range(Tail(q))
    BY <1>2, TailRows DEF q
  <2> QED BY <2>1 DEF q, Rows, HeadPending
<1>4. \A u \in Task : queueByTask'[u] = IF u = t THEN rest ELSE queueByTask[u]
  BY DEF FinishHead, IInv, TypeOK
<1>5. \A u \in Task : Rows(u)' = IF u = t THEN Rows(u) \ {c} ELSE Rows(u)
  BY <1>3, <1>4 DEF Rows
<1>6. \A d \in Call : Pending(d)' <=> Pending(d) /\ d # c
  BY <1>1 DEF FinishHead, IInv, TypeOK, Pending
<1>7. /\ armed' = (armed \ {c}) \cup Rearmed(rest)
      /\ left' = [d \in Call |-> IF d \in Rearmed(rest) THEN Timeout
                               ELSE IF d = c THEN 0 ELSE left[d]]
      /\ shown' = [shown EXCEPT ![t] = HeadId(rest)]
      /\ visible' = [visible EXCEPT ![t] = 0]
      /\ promise' = promise
  BY DEF FinishHead, Stopped
<1>8. Rearmed(rest) \subseteq Rows(t) \ {c}
  BY <1>3 DEF Rearmed
<1>9. \A i \in Id : pendingById'[i] = IF pendingById[i] = c THEN None ELSE pendingById[i]
  BY DEF FinishHead, Unindexed
<1> HIDE DEF q, rest
<1>10. TypeOK'
  <2>1. queueByTask' \in [Task -> Seq(Call)]
    BY <1>3 DEF FinishHead, IInv, TypeOK, rest, q
  <2>2. left' \in [Call -> 0 .. Timeout] /\ visible' \in [Task -> 0 .. Timeout]
    BY <1>7, TimeoutAssumption DEF IInv, TypeOK
  <2>3. HeadId(rest) \in Id \cup {None}
    BY <1>1, <1>3, RowTaskType DEF HeadId
  <2>4. shown' \in [Task -> Id \cup {None}]
    BY <1>7, <2>3 DEF IInv, TypeOK
  <2>5. pendingById' \in [Id -> Call \cup {None}]
    BY DEF FinishHead, Unindexed, IInv, TypeOK
  <2>6. armed' \subseteq Call /\ outcome' \in [Call -> Outcomes] /\ promise' = promise
    BY <1>1, <1>7, <1>8 DEF FinishHead, IInv, TypeOK, Outcomes
  <2> QED BY <2>1, <2>2, <2>4, <2>5, <2>6 DEF IInv, TypeOK
<1>11. IndexExact'
  <2>1. \A u \in Task : IsInjective(queueByTask'[u])
    BY <1>3, <1>4 DEF IInv, IndexExact
  <2>2. \A d \in Call : Pending(d)' <=> d \in Rows(RowTask(d))'
    BY <1>1, <1>5, <1>6, RowTaskType DEF IInv, IndexExact
  <2>3. \A u \in Task : \A d \in Rows(u)' : RowTask(d) = u
    BY <1>5 DEF IInv, IndexExact
  <2>4. \A d \in Call : Pending(d)' <=> pendingById'[IdOf[d]] = d
    BY <1>6, <1>9, RowTaskType, NoneAssumption DEF IInv, IndexExact
  <2>5. \A i \in Id : pendingById'[i] # None => IdOf[pendingById'[i]] = i
    BY <1>9 DEF IInv, IndexExact
  <2> QED BY <2>1, <2>2, <2>3, <2>4, <2>5 DEF IndexExact, RowTask
<1>12. TimersPending'
  BY <1>1, <1>6, <1>7, <1>8 DEF IInv, TypeOK, IndexExact, TimersPending
<1>13. ASSUME NEW u \in Task, u # t, queueByTask'[u] # <<>>
       PROVE  /\ queueByTask[u] # <<>> /\ HeadPending(u)' = HeadPending(u)
              /\ HeadPending(u) \in Call /\ HeadPending(u) \notin Rows(t)
  <2>1. queueByTask'[u] = queueByTask[u]
    BY <1>4, <1>13
  <2>2. HeadPending(u) \in Call /\ RowTask(HeadPending(u)) = u
    BY <2>1, <1>13, HeadIsRow
  <2> QED BY <2>1, <2>2, <1>13 DEF HeadPending, IInv, IndexExact
<1>14. HeadTimed'
  <2> SUFFICES ASSUME NEW u \in Task, queueByTask'[u] # <<>>
               PROVE  (HeadPending(u) \in armed /\ left[HeadPending(u)] + visible[u] = Timeout)'
    BY DEF HeadTimed
  <2>1. CASE u = t
    <3>1. rest # <<>> /\ HeadPending(u)' = rest[1] /\ rest[1] \in Call
      BY <2>1, <1>1, <1>3, <1>4 DEF HeadPending
    <3>2. visible'[u] = 0 /\ left'[rest[1]] = Timeout /\ rest[1] \in armed'
      BY <2>1, <3>1, <1>7 DEF Rearmed, IInv, TypeOK
    <3> QED BY <3>1, <3>2, TimeoutAssumption
  <2>2. CASE u # t
    <3>1. /\ queueByTask[u] # <<>> /\ HeadPending(u)' = HeadPending(u)
          /\ HeadPending(u) \in Call /\ HeadPending(u) \notin Rows(t)
      BY <2>2, <1>13
    <3>2. HeadPending(u) \notin Rearmed(rest) /\ HeadPending(u) # c
      BY <3>1, <1>1, <1>8
    <3>3. /\ left'[HeadPending(u)] = left[HeadPending(u)] /\ visible'[u] = visible[u]
          /\ HeadPending(u) \in armed => HeadPending(u) \in armed'
      BY <2>2, <3>1, <3>2, <1>7 DEF IInv, TypeOK
    <3> QED BY <3>1, <3>3 DEF IInv, HeadTimed
  <2> QED BY <2>1, <2>2
<1>15. HeadShown'
  <2> SUFFICES ASSUME NEW u \in Task, queueByTask'[u] # <<>>
               PROVE  shown'[u] = IdOf[HeadPending(u)']
    BY DEF HeadShown
  <2>1. CASE u = t
    BY <2>1, <1>4, <1>7 DEF HeadId, HeadPending, IInv, TypeOK
  <2>2. CASE u # t
    BY <2>2, <1>7, <1>13 DEF IInv, TypeOK, HeadShown
  <2> QED BY <2>1, <2>2
<1>16. OwnDecision'
  BY <1>7 DEF IInv, OwnDecision
<1> QED BY <1>10, <1>11, <1>12, <1>14, <1>15, <1>16 DEF IInv

\* The expiry of the timer of a head preserves it.
LEMMA TimerInv ==
  ASSUME IInv, NEW c \in Call, TimerFires(c)
  PROVE  IInv'
<1>1. RowTask(c) \in Task /\ Pending(c) /\ queueByTask[RowTask(c)] # <<>>
  BY RowTaskType DEF TimerFires, TimerElapsed, IInv, TimersPending
<1>2. CASE IdOf[HeadPending(RowTask(c))] = IdOf[c]
  <2>1. FinishHead(RowTask(c), "refused")
    BY <1>2 DEF TimerFires
  <2> QED BY <1>1, <2>1, FinishHeadInv
<1>3. CASE IdOf[HeadPending(RowTask(c))] # IdOf[c]
  <2>1. /\ armed' = armed \ {c}
        /\ UNCHANGED <<queueByTask, pendingById, left, shown, visible, promise, outcome>>
    BY <1>3 DEF TimerFires
  <2>2. TypeOK' /\ TimersPending' /\ HeadShown' /\ OwnDecision'
    BY <2>1 DEF IInv, TypeOK, TimersPending, HeadShown, OwnDecision, Pending, HeadPending
  <2>3. IndexExact'
    BY <2>1 DEF IInv, IndexExact, Pending, Rows, RowTask
  <2>4. HeadTimed'
    <3> SUFFICES ASSUME NEW u \in Task, queueByTask[u] # <<>>
                 PROVE  HeadPending(u) \in armed' /\ left[HeadPending(u)] + visible[u] = Timeout
      BY <2>1 DEF HeadTimed, HeadPending
    <3>1. RowTask(HeadPending(u)) = u
      BY HeadIsRow
    <3>2. HeadPending(u) # c
      BY <3>1, <1>3
    <3> QED BY <3>2, <2>1 DEF IInv, HeadTimed
  <2> QED BY <2>2, <2>3, <2>4 DEF IInv
<1> QED BY <1>2, <1>3

\* Time passing preserves it: no timer goes past its deadline.
LEMMA TickInv ==
  ASSUME IInv, Tick
  PROVE  IInv'
<1> USE DEF Tick
<1>1. /\ \A c \in Call : left[c] \in 0 .. Timeout
      /\ \A t \in Task : visible[t] \in 0 .. Timeout
  BY DEF IInv, TypeOK
<1>2. left' \in [Call -> 0 .. Timeout] /\ visible' \in [Task -> 0 .. Timeout]
  <2>1. \A c \in Call : left[c] > 0 => left[c] - 1 \in 0 .. Timeout
    BY <1>1, TimeoutAssumption
  <2>2. \A t \in Task : visible[t] < Timeout => visible[t] + 1 \in 0 .. Timeout
    BY <1>1, TimeoutAssumption
  <2>3. 0 \in 0 .. Timeout
    BY TimeoutAssumption
  <2> QED BY <1>1, <2>1, <2>2, <2>3
<1>3. TypeOK'
  BY <1>2 DEF IInv, TypeOK
<1>4. IndexExact'
  BY DEF IInv, IndexExact, Pending, Rows, RowTask
<1>5. TimersPending' /\ HeadShown' /\ OwnDecision'
  BY DEF IInv, TimersPending, HeadShown, OwnDecision, Pending, HeadPending
<1>6. HeadTimed'
  <2> SUFFICES ASSUME NEW u \in Task, queueByTask[u] # <<>>
               PROVE  HeadPending(u) \in armed /\ left'[HeadPending(u)] + visible'[u] = Timeout
    BY DEF HeadTimed, HeadPending
  <2>1. HeadPending(u) \in Call
    BY HeadIsRow
  <2>2. HeadPending(u) \in armed /\ left[HeadPending(u)] + visible[u] = Timeout
    BY DEF IInv, HeadTimed
  <2>3. /\ left'[HeadPending(u)] = IF left[HeadPending(u)] > 0
                                   THEN left[HeadPending(u)] - 1 ELSE 0
        /\ visible'[u] = IF visible[u] < Timeout THEN visible[u] + 1 ELSE visible[u]
    BY <2>1
  <2>4. left[HeadPending(u)] \in 0 .. Timeout /\ visible[u] \in 0 .. Timeout
    BY <1>1, <2>1
  <2> QED BY <2>2, <2>3, <2>4, TimeoutAssumption
<1> QED BY <1>3, <1>4, <1>5, <1>6 DEF IInv

(***************************************************************************)
(* A task, or every task, is cleared.                                      *)
(***************************************************************************)
LEMMA RefuseInv ==
  ASSUME IInv, NEW tasks \in SUBSET Task, Refuse(tasks),
         shown' \in [Task -> Id \cup {None}],
         \A t \in Task \ tasks : shown'[t] = shown[t]
  PROVE  IInv'
<1> DEFINE rows == UNION {Rows(t) : t \in tasks}
<1>1. /\ outcome' = [c \in Call |-> IF c \in rows THEN "refused" ELSE outcome[c]]
      /\ pendingById' = [i \in Id |-> IF pendingById[i] \in rows THEN None ELSE pendingById[i]]
      /\ armed' = armed \ rows
      /\ left' = [c \in Call |-> IF c \in rows THEN 0 ELSE left[c]]
      /\ visible' = [t \in Task |-> IF t \in tasks THEN 0 ELSE visible[t]]
      /\ queueByTask' = [t \in Task |-> IF t \in tasks THEN <<>> ELSE queueByTask[t]]
      /\ promise' = promise
  BY DEF Refuse, Stopped, Unindexed
<1>2. \A c \in Call : c \in rows <=> Pending(c) /\ RowTask(c) \in tasks
  BY RowTaskType DEF IInv, IndexExact
<1> HIDE DEF rows
<1>3. \A c \in Call : Pending(c)' <=> Pending(c) /\ c \notin rows
  BY <1>1, <1>2 DEF Pending
<1>4. \A t \in Task : /\ queueByTask'[t] = IF t \in tasks THEN <<>> ELSE queueByTask[t]
                      /\ Rows(t)' = IF t \in tasks THEN {} ELSE Rows(t)
                      /\ IsInjective(queueByTask'[t])
  <2> SUFFICES ASSUME NEW t \in Task
               PROVE  /\ queueByTask'[t] = IF t \in tasks THEN <<>> ELSE queueByTask[t]
                      /\ Rows(t)' = IF t \in tasks THEN {} ELSE Rows(t)
                      /\ IsInjective(queueByTask'[t])
    OBVIOUS
  <2>1. queueByTask'[t] = IF t \in tasks THEN <<>> ELSE queueByTask[t]
    BY <1>1
  <2>2. DOMAIN << >> = {}
    OBVIOUS
  <2>3. CASE t \in tasks
    BY <2>1, <2>2, <2>3 DEF Rows, Range, IsInjective
  <2>4. CASE t \notin tasks
    BY <2>1, <2>4 DEF Rows, IInv, IndexExact
  <2> QED BY <2>1, <2>3, <2>4
<1>5. TypeOK'
  <2>1. queueByTask' \in [Task -> Seq(Call)]
    BY <1>1, EmptySeq DEF IInv, TypeOK
  <2>2. left' \in [Call -> 0 .. Timeout] /\ visible' \in [Task -> 0 .. Timeout]
    BY <1>1, TimeoutAssumption DEF IInv, TypeOK
  <2>3. /\ pendingById' \in [Id -> Call \cup {None}] /\ armed' \subseteq Call
        /\ outcome' \in [Call -> Outcomes] /\ promise' \in [Call -> Call \cup {None}]
    BY <1>1 DEF IInv, TypeOK, Outcomes
  <2> QED BY <2>1, <2>2, <2>3 DEF TypeOK
<1>6. IndexExact'
  <2>1. \A c \in Call : Pending(c)' <=> c \in Rows(RowTask(c))'
    BY <1>2, <1>3, <1>4, RowTaskType DEF IInv, IndexExact
  <2>2. \A t \in Task : \A c \in Rows(t)' : RowTask(c) = t
    BY <1>4 DEF IInv, IndexExact
  <2>3. \A c \in Call : Pending(c)' <=> pendingById'[IdOf[c]] = c
    BY <1>1, <1>3, RowTaskType, NoneAssumption DEF IInv, IndexExact
  <2>4. \A i \in Id : pendingById'[i] # None => IdOf[pendingById'[i]] = i
    BY <1>1 DEF IInv, IndexExact
  <2> QED BY <1>4, <2>1, <2>2, <2>3, <2>4 DEF IndexExact, RowTask
<1>7. TimersPending'
  BY <1>1, <1>3 DEF IInv, TypeOK, TimersPending
<1>8. ASSUME NEW t \in Task, queueByTask'[t] # <<>>
      PROVE  /\ t \notin tasks /\ queueByTask[t] # <<>> /\ HeadPending(t)' = HeadPending(t)
             /\ HeadPending(t) \in Call \ rows
  <2>1. t \notin tasks /\ queueByTask'[t] = queueByTask[t]
    BY <1>4, <1>8
  <2>2. HeadPending(t) \in Call /\ RowTask(HeadPending(t)) = t
    BY <2>1, <1>8, HeadIsRow
  <2> QED BY <2>1, <2>2, <1>2, <1>8 DEF HeadPending
<1>9. HeadTimed'
  <2> SUFFICES ASSUME NEW t \in Task, queueByTask'[t] # <<>>
               PROVE  (HeadPending(t) \in armed /\ left[HeadPending(t)] + visible[t] = Timeout)'
    BY DEF HeadTimed
  <2>1. /\ t \notin tasks /\ queueByTask[t] # <<>> /\ HeadPending(t)' = HeadPending(t)
        /\ HeadPending(t) \in Call \ rows
    BY <1>8
  <2>2. left'[HeadPending(t)] = left[HeadPending(t)] /\ visible'[t] = visible[t]
    BY <1>1, <2>1
  <2> QED BY <1>1, <2>1, <2>2 DEF IInv, HeadTimed
<1>10. HeadShown'
  BY <1>8 DEF IInv, HeadShown
<1>11. OwnDecision'
  BY <1>1 DEF IInv, OwnDecision
<1> QED BY <1>5, <1>6, <1>7, <1>9, <1>10, <1>11 DEF IInv

(***************************************************************************)
(* The theorems.                                                           *)
(***************************************************************************)
LEMMA NextInv == IInv /\ [Next]_vars => IInv'
<1> SUFFICES ASSUME IInv, [Next]_vars PROVE IInv'
  OBVIOUS
<1>1. CASE Tick
  BY <1>1, TickInv
<1>2. CASE Dispose
  <2>1. Refuse(Task) /\ shown' = shown
    BY <1>2 DEF Dispose
  <2> QED BY <2>1, RefuseInv DEF IInv, TypeOK
<1>3. ASSUME NEW c \in Call, RequestUnmapped(c) PROVE IInv'
  BY <1>3, UnmappedInv
<1>4. ASSUME NEW c \in Call, RequestExisting(c) PROVE IInv'
  BY <1>4, ExistingInv
<1>5. ASSUME NEW c \in Call, RequestQueued(c) PROVE IInv'
  BY <1>5, QueuedInv
<1>6. ASSUME NEW c \in Call, TimerFires(c) PROVE IInv'
  BY <1>6, TimerInv
<1>7. ASSUME NEW t \in Task, ClearPendingForTask(t) PROVE IInv'
  <2>1. Refuse({t}) /\ shown' = [shown EXCEPT ![t] = None]
    BY <1>7 DEF ClearPendingForTask
  <2>2. /\ shown' \in [Task -> Id \cup {None}]
        /\ \A u \in Task \ {t} : shown'[u] = shown[u]
    BY <2>1 DEF IInv, TypeOK
  <2> QED BY <2>1, <2>2, RefuseInv
<1>8. ASSUME NEW t \in Task, NEW i \in Id, Respond(t, i) PROVE IInv'
  <2>1. queueByTask[t] # <<>> /\ FinishHead(t, "answered")
    BY <1>8 DEF Respond, Answerable
  <2> QED BY <2>1, FinishHeadInv
<1>9. CASE UNCHANGED vars
  <2>1. TypeOK' /\ TimersPending' /\ HeadShown' /\ OwnDecision' /\ HeadTimed'
    BY <1>9 DEF vars, IInv, TypeOK, TimersPending, HeadShown, HeadTimed, OwnDecision,
                Pending, HeadPending
  <2>2. IndexExact'
    BY <1>9 DEF vars, IInv, IndexExact, Pending, Rows, RowTask
  <2> QED BY <2>1, <2>2 DEF IInv
<1> QED BY <1>1, <1>2, <1>3, <1>4, <1>5, <1>6, <1>7, <1>8, <1>9 DEF Next

\* The invariant holds in every reachable state.
LEMMA Invariant == Spec => []IInv
BY InitInv, NextInv, PTL DEF Spec

\* Every reachable state is type correct.
THEOREM TypeCorrect == Spec => []TypeOK
<1>1. IInv => TypeOK
  BY DEF IInv
<1> QED BY <1>1, Invariant, PTL

\* The queues of pending-prompts.mjs and its index never disagree: whatever the
\* requests, answers, time-outs and clearings, a row is in its task's queue and under
\* its id exactly while it is undecided, and no decided row keeps a timer.
THEOREM QueuesExact == Spec => []RowsAccounted
<1>1. IInv => RowsAccounted
  BY DEF IInv, RowsAccounted
<1> QED BY <1>1, Invariant, PTL

\* The request a task waits on has a running timer, due when it has been shown for
\* the whole timeout, and is the one the last snapshot shows.
THEOREM HeadServed == Spec => []HeadAttended
<1>1. IInv => HeadAttended
  BY DEF IInv, HeadAttended
<1> QED BY <1>1, Invariant, PTL

\* A caller of handleRequest gets the decision on a request of its own session and
\* id, never on another one that happens to use the id.
THEOREM DecisionOwned == Spec => []OwnDecision
<1>1. IInv => OwnDecision
  BY DEF IInv
<1> QED BY <1>1, Invariant, PTL

\* respond decides only the request it names, while that request is shown.
THEOREM AnswersNamed == Spec => AnswerNamesRequest
<1>1. ASSUME IInv, NEW t \in Task, NEW i \in Id, Respond(t, i),
             NEW c \in Call, Pending(c), outcome'[c] = "answered"
      PROVE  RowTask(c) = t /\ IdOf[c] = i /\ shown[t] = i
  <2>1. queueByTask[t] # <<>> /\ IdOf[HeadPending(t)] = i /\ FinishHead(t, "answered")
    BY <1>1 DEF Respond, Answerable
  <2>2. HeadPending(t) \in Call /\ RowTask(HeadPending(t)) = t
    BY <1>1, <2>1, HeadIsRow
  <2>3. c = HeadPending(t)
    BY <1>1, <2>1 DEF FinishHead, IInv, TypeOK, Pending
  <2> QED BY <1>1, <2>1, <2>2, <2>3 DEF IInv, HeadShown
<1>2. IInv => [\A t \in Task, i \in Id : Respond(t, i) =>
                 \A c \in Call : Pending(c) /\ outcome'[c] = "answered" =>
                   RowTask(c) = t /\ IdOf[c] = i /\ shown[t] = i]_vars
  BY <1>1
<1> QED BY <1>2, Invariant, PTL DEF AnswerNamesRequest
=============================================================================
