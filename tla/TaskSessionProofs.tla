------------------------- MODULE TaskSessionProofs -------------------------
(***************************************************************************)
(* Proofs about the session of one task and the turns it runs.             *)
(*                                                                         *)
(* TurnControl, for every number of requests, Stops, faults and hang       *)
(* retries: a Stop is final, the retries of the watchdog are bounded, and  *)
(* neither abort reaches a turn it was not called for.                     *)
(*                                                                         *)
(* LiveSession, for every set of callers, retries and generations: the     *)
(* session that is registered is of the present settings, a late attempt   *)
(* neither restores old ones nor revives a task that is gone, and nothing  *)
(* is left behind.                                                         *)
(***************************************************************************)
EXTENDS LiveSession, TurnControl, TLAPS

-----------------------------------------------------------------------------
(* The turns of a task                                                     *)

DraftRows  == [at : {"new", "preparing", "gone"}, gen : Nat, born : Nat]
WatchRows  == [started : Nat, retry : Nat, state : {"none", "armed", "resolving"},
               prompt : Nat, born : Nat]
StopRows   == [at : {"no", "resume", "cleanup"}, turn : Nat, rejected : BOOLEAN]
HangRows   == [at : {"no", "cleanup", "waiting"}, turn : Nat, rejected : BOOLEAN,
               last : Nat, row : Nat, born : Nat]
FaultRows  == [broken : Nat, rejected : Nat]
Outcomes   == {"none", "ok", "error", "transport", "aborted"}
Statuses   == {"idle", "working", "error"}

\* The types, one group of variables each; a bound that grows with the chain is part of it.
DraftTyped == draft \in [Requests -> DraftRows] /\ generation \in Nat
ChainTyped ==
    /\ accepted \in Nat /\ accepted <= MaxPrompts
    /\ kind \in [Prompts -> Kinds] /\ stage \in [Prompts -> Stages]
    /\ born \in [Prompts -> Nat]
CutTyped == cut \in Nat /\ cut <= accepted
TurnTyped ==
    /\ turn \in Nat /\ turn <= accepted /\ phase \in Phases /\ outcome \in Outcomes
    /\ turn = NoTurn <=> phase = "none"
TaskTyped == status \in Statuses /\ lease \in BOOLEAN /\ sentinel \in BOOLEAN
WatchTyped ==
    /\ watch \in WatchRows /\ watch.retry <= MaxRetries /\ watch.prompt <= accepted
    /\ clock \in Nat
RecoTyped == pendingTransport \in BOOLEAN /\ transportTried \in BOOLEAN
StopTyped == stop \in StopRows /\ stop.turn <= accepted
HangTyped == hang \in HangRows /\ hang.turn <= accepted /\ hang.last <= accepted
FaultTyped ==
    /\ stops \in Nat
    /\ faults \in FaultRows /\ faults.broken <= MaxFaults /\ faults.rejected <= MaxFaults

Typed ==
    /\ DraftTyped /\ ChainTyped /\ CutTyped /\ TurnTyped /\ TaskTyped
    /\ WatchTyped /\ RecoTyped /\ StopTyped /\ HangTyped /\ FaultTyped

\* The groups together say what TypeOK says.
LEMMA TypedMeans == Typed => TypeOK
<1> SUFFICES ASSUME Typed PROVE TypeOK
  OBVIOUS
<1> USE TurnAssumption DEF Typed
<1>1. /\ draft \in [Requests -> [at : {"new", "preparing", "gone"}, gen : Nat, born : Nat]]
      /\ generation \in Nat
  BY DEF DraftTyped, DraftRows
<1>2. /\ accepted \in 0..MaxPrompts /\ kind \in [Prompts -> Kinds] /\ stage \in [Prompts -> Stages]
      /\ born \in [Prompts -> Nat] /\ cut \in 0..accepted
  BY DEF ChainTyped, CutTyped
<1>3. /\ turn \in 0..accepted /\ phase \in Phases
      /\ outcome \in {"none", "ok", "error", "transport", "aborted"}
  BY DEF TurnTyped, ChainTyped, Outcomes
<1>4. watch \in [started : Nat, retry : 0..MaxRetries, state : {"none", "armed", "resolving"},
                  prompt : 0..accepted, born : Nat] /\ clock \in Nat
  BY DEF WatchTyped, ChainTyped, WatchRows
<1>5. stop \in [at : {"no", "resume", "cleanup"}, turn : 0..accepted, rejected : BOOLEAN]
  BY DEF StopTyped, ChainTyped, StopRows
<1>6. hang \in [at : {"no", "cleanup", "waiting"}, turn : 0..accepted, rejected : BOOLEAN,
                 last : 0..accepted, row : Nat, born : Nat]
  BY DEF HangTyped, ChainTyped, HangRows
<1>7. stops \in Nat /\ faults \in [broken : 0..MaxFaults, rejected : 0..MaxFaults]
  BY DEF FaultTyped, FaultRows
<1>8. /\ status \in {"idle", "working", "error"} /\ lease \in BOOLEAN /\ sentinel \in BOOLEAN
      /\ pendingTransport \in BOOLEAN /\ transportTried \in BOOLEAN
  BY DEF TaskTyped, RecoTyped, Statuses
<1> QED BY <1>1, <1>2, <1>3, <1>4, <1>5, <1>6, <1>7, <1>8 DEF TypeOK

LEMMA InitTyped == Init => Typed
<1> SUFFICES ASSUME Init PROVE Typed
  OBVIOUS
<1> USE TurnAssumption DEF Init
<1>1. DraftTyped BY DEF DraftTyped, DraftRows
<1>2. ChainTyped /\ CutTyped BY DEF ChainTyped, CutTyped, Kinds, Stages, Prompts
<1>3. TurnTyped BY DEF TurnTyped, Phases, Outcomes, NoTurn
<1>4. TaskTyped /\ RecoTyped BY DEF TaskTyped, RecoTyped, Statuses
<1>5. WatchTyped BY DEF WatchTyped, WatchRows, NoWatch
<1>6. StopTyped BY DEF StopTyped, StopRows, NoStop, NoTurn
<1>7. HangTyped BY DEF HangTyped, HangRows, NoHang, NoTurn
<1>8. FaultTyped BY DEF FaultTyped, FaultRows
<1> QED BY <1>1, <1>2, <1>3, <1>4, <1>5, <1>6, <1>7, <1>8 DEF Typed

\* What an action leaves alone keeps its type, also when a prompt is added.
LEMMA Kept ==
  ASSUME Typed, accepted' \in Nat, accepted <= accepted'
  PROVE  /\ UNCHANGED draftVars => DraftTyped'
         /\ UNCHANGED chainVars => ChainTyped'
         /\ UNCHANGED cut => CutTyped'
         /\ UNCHANGED turnVars => TurnTyped'
         /\ UNCHANGED taskVars => TaskTyped'
         /\ UNCHANGED watchVars => WatchTyped'
         /\ UNCHANGED recoVars => RecoTyped'
         /\ UNCHANGED stop => StopTyped'
         /\ UNCHANGED hang => HangTyped'
         /\ UNCHANGED <<stops, faults>> => FaultTyped'
<1> USE DEF Typed
<1>1. UNCHANGED draftVars => DraftTyped' BY DEF DraftTyped, draftVars
<1>2. UNCHANGED chainVars => ChainTyped' BY DEF ChainTyped, chainVars, Prompts
<1>3. UNCHANGED cut => CutTyped' BY DEF CutTyped, ChainTyped
<1>4. UNCHANGED turnVars => TurnTyped' BY DEF TurnTyped, ChainTyped, turnVars
<1>5. UNCHANGED taskVars => TaskTyped' BY DEF TaskTyped, taskVars
<1>6. UNCHANGED watchVars => WatchTyped'
  <2>1. watch.prompt \in Nat BY DEF WatchTyped, WatchRows
  <2> QED BY <2>1 DEF WatchTyped, ChainTyped, watchVars
<1>7. UNCHANGED recoVars => RecoTyped' BY DEF RecoTyped, recoVars
<1>8. UNCHANGED stop => StopTyped'
  <2>1. stop.turn \in Nat BY DEF StopTyped, StopRows
  <2> QED BY <2>1 DEF StopTyped, ChainTyped
<1>9. UNCHANGED hang => HangTyped'
  <2>1. hang.turn \in Nat /\ hang.last \in Nat BY DEF HangTyped, HangRows
  <2> QED BY <2>1 DEF HangTyped, ChainTyped
<1>10. UNCHANGED <<stops, faults>> => FaultTyped' BY DEF FaultTyped
<1> QED BY <1>1, <1>2, <1>3, <1>4, <1>5, <1>6, <1>7, <1>8, <1>9, <1>10

\* The rows the actions write.
LEMMA Rows ==
  /\ NoWatch \in WatchRows /\ NoWatch.retry = 0 /\ NoWatch.prompt = 0
  /\ NoStop \in StopRows /\ NoStop.turn = 0
  /\ NoHang \in HangRows /\ NoHang.turn = 0 /\ NoHang.last = 0
BY DEF NoWatch, NoStop, NoHang, NoTurn, WatchRows, StopRows, HangRows

\* A prompt is added to the chain, and its watch to the store.
LEMMA Enqueued ==
  ASSUME Typed, NEW k \in Kinds, NEW b \in Nat, NEW s \in [Prompts -> Stages],
         Enqueue(k, b, s), k = "hang" => watch.retry < MaxRetries
  PROVE  ChainTyped' /\ WatchTyped' /\ accepted' = accepted + 1
<1> USE TurnAssumption DEF Typed
<1> DEFINE n == accepted + 1
           c == clock + 1
           r == RetryOf(k)
<1>1. n \in Prompts /\ n \in Nat /\ n <= MaxPrompts /\ c \in Nat /\ accepted' = n /\ clock' = c
  BY DEF Enqueue, Room, ChainTyped, WatchTyped, Prompts
<1>2. r \in Nat /\ r <= MaxRetries
  BY DEF RetryOf, WatchTyped, WatchRows
<1>3. ChainTyped'
  BY <1>1 DEF Enqueue, ChainTyped, Stages, Prompts
<1>4. watch' = [started |-> c, retry |-> r, state |-> "armed", prompt |-> n, born |-> b]
  BY DEF Enqueue
<1> HIDE DEF n, c, r
<1>5. watch' \in WatchRows /\ watch'.retry = r /\ watch'.prompt = n
  BY <1>1, <1>2, <1>4 DEF WatchRows
<1>6. WatchTyped'
  BY <1>1, <1>2, <1>5 DEF WatchTyped
<1> QED BY <1>1, <1>3, <1>6 DEF n

\* The SDK is told to abort.
LEMMA Signalled ==
  ASSUME Typed, SignalAbort, UNCHANGED <<turn, outcome, accepted, status, lease, transportTried>>
  PROVE  CutTyped' /\ TurnTyped' /\ TaskTyped' /\ RecoTyped'
<1>1. CutTyped' BY DEF Typed, SignalAbort, CutTyped, ChainTyped
<1>2. TurnTyped' BY DEF Typed, SignalAbort, TurnTyped, Phases, NoTurn
<1>3. TaskTyped' /\ RecoTyped' BY DEF Typed, SignalAbort, TaskTyped, RecoTyped
<1> QED BY <1>1, <1>2, <1>3

\* Every step of the task keeps the types.
LEMMA TypedStep == Typed /\ [Next]_vars => Typed'
<1> SUFFICES ASSUME Typed, [Next]_vars PROVE Typed'
  OBVIOUS
<1>0. accepted \in Nat /\ stage \in [Prompts -> Stages] /\ born \in [Prompts -> Nat]
  BY DEF Typed, ChainTyped
<1> USE TurnAssumption, <1>0
<1>1. CASE UNCHANGED vars
  BY <1>1, Kept DEF Typed, vars, draftVars, chainVars, turnVars, taskVars, watchVars, recoVars
<1>2. ASSUME NEW r \in Requests, Submit(r) PROVE Typed'
  <2>1. UNCHANGED accepted BY <1>2 DEF Submit, chainVars
  <2>2. DraftTyped'
    BY <1>2 DEF Submit, Typed, DraftTyped, DraftRows, FaultTyped
  <2> QED BY <1>2, <2>1, <2>2, Kept
     DEF Typed, Submit, draftVars, chainVars, turnVars, taskVars, watchVars, recoVars
<1>3. ASSUME NEW p \in Prompts, Start(p) PROVE Typed'
  <2>1. UNCHANGED accepted BY <1>3 DEF Start, chainVars
  <2>2. ChainTyped'
    BY <1>3 DEF Start, Typed, ChainTyped, Stages, Prompts
  <2> QED BY <1>3, <2>1, <2>2, Kept
     DEF Typed, Start, draftVars, chainVars, turnVars, taskVars, watchVars, recoVars
<1>4. ASSUME NEW p \in Prompts, Prepare(p) PROVE Typed'
  <2>1. UNCHANGED accepted BY <1>4 DEF Prepare, chainVars
  <2>2. ChainTyped'
    BY <1>4 DEF Prepare, Typed, ChainTyped, Stages, Prompts
  <2>3. TaskTyped'
    BY <1>4 DEF Prepare, Typed, TaskTyped, Statuses
  <2> QED BY <1>4, <2>1, <2>2, <2>3, Kept
     DEF Typed, Prepare, draftVars, chainVars, turnVars, taskVars, watchVars, recoVars
<1>5. ASSUME NEW p \in Prompts, PromptFails(p) PROVE Typed'
  <2>1. UNCHANGED accepted BY <1>5 DEF PromptFails, chainVars
  <2>2. ChainTyped'
    BY <1>5 DEF PromptFails, Typed, ChainTyped, Stages, Prompts
  <2>3. TaskTyped'
    BY <1>5 DEF PromptFails, Typed, TaskTyped, Statuses
  <2> QED BY <1>5, <2>1, <2>2, <2>3, Kept
     DEF Typed, PromptFails, draftVars, chainVars, turnVars, taskVars, watchVars, recoVars
<1>6. ASSUME NEW p \in Prompts, Send(p) PROVE Typed'
  <2>1. UNCHANGED accepted BY <1>6 DEF Send, chainVars
  <2>2. ChainTyped'
    BY <1>6 DEF Send, Typed, ChainTyped, Stages, Prompts
  <2>3. TaskTyped'
    BY <1>6 DEF Send, Typed, TaskTyped, Statuses, taskVars
  <2>4. TurnTyped'
    BY <1>6 DEF Send, Typed, TurnTyped, Running, Phases, Outcomes, turnVars, NoTurn, Prompts
  <2> QED BY <1>6, <2>1, <2>2, <2>3, <2>4, Kept
     DEF Typed, Send, draftVars, chainVars, turnVars, taskVars, watchVars, recoVars
<1>7. CASE LeaseLost
  <2>1. UNCHANGED accepted BY <1>7 DEF LeaseLost, chainVars
  <2>2. DraftTyped'
    BY <1>7 DEF LeaseLost, Typed, DraftTyped
  <2>3. ChainTyped'
    BY <1>7 DEF LeaseLost, Typed, ChainTyped, Stages, Prompts
  <2>4. TurnTyped'
    BY <1>7 DEF LeaseLost, Typed, TurnTyped, Phases, Outcomes, NoTurn
  <2>5. WatchTyped'
    BY <1>7, Rows DEF LeaseLost, Typed, WatchTyped, ChainTyped
  <2>6. CutTyped'
    BY <1>7, <2>1 DEF LeaseLost, Typed, CutTyped, ChainTyped
  <2>7. RecoTyped'
    BY <1>7 DEF LeaseLost, Typed, RecoTyped
  <2> QED BY <1>7, <2>1, <2>2, <2>3, <2>4, <2>5, <2>6, <2>7, Kept
     DEF Typed, LeaseLost, draftVars, chainVars, turnVars, taskVars, watchVars, recoVars
<1>8. CASE Hangs
  <2>1. UNCHANGED accepted BY <1>8 DEF Hangs, chainVars
  <2>2. TurnTyped'
    BY <1>8, <2>1 DEF Hangs, Typed, TurnTyped, Phases, NoTurn
  <2> QED BY <1>8, <2>1, <2>2, Kept
     DEF Typed, Hangs, draftVars, chainVars, turnVars, taskVars, watchVars, recoVars
<1>9. ASSUME NEW o \in Outcomes, TurnEnds(o) PROVE Typed'
  <2>1. UNCHANGED accepted BY <1>9 DEF TurnEnds
  <2>2. TurnTyped'
    BY <1>9, <2>1 DEF TurnEnds, Typed, TurnTyped, Phases, NoTurn
  <2>5. ChainTyped'
    BY <1>9 DEF TurnEnds, Typed, ChainTyped, FaultTyped, Prompts
  <2>3. RecoTyped'
    BY <1>9 DEF TurnEnds, Typed, RecoTyped
  <2>4. FaultTyped'
    BY <1>9 DEF TurnEnds, Typed, FaultTyped, FaultRows
  <2> QED BY <1>9, <2>1, <2>2, <2>3, <2>4, <2>5, Kept
     DEF Typed, TurnEnds, draftVars, chainVars, turnVars, taskVars, watchVars, recoVars
<1>10. CASE AbortRejected
  <2>1. UNCHANGED accepted BY <1>10 DEF AbortRejected, chainVars
  <2>2. ChainTyped'
    BY <1>10 DEF AbortRejected, Typed, ChainTyped, FaultTyped, Prompts
  <2>3. TurnTyped'
    BY <1>10 DEF AbortRejected, Typed, TurnTyped, Phases, NoTurn
  <2>4. StopTyped'
    BY <1>10 DEF AbortRejected, Typed, StopTyped, StopRows
  <2>5. HangTyped'
    BY <1>10 DEF AbortRejected, Typed, HangTyped, HangRows
  <2>6. FaultTyped'
    BY <1>10 DEF AbortRejected, Typed, FaultTyped, FaultRows
  <2> QED BY <1>10, <2>1, <2>2, <2>3, <2>4, <2>5, <2>6, Kept
     DEF Typed, AbortRejected, draftVars, chainVars, turnVars, taskVars, watchVars, recoVars
<1>11. CASE StopBegins
  <2>1. UNCHANGED accepted BY <1>11 DEF StopBegins, chainVars
  <2>2. CutTyped' /\ TurnTyped' /\ TaskTyped' /\ RecoTyped'
    BY <1>11, <2>1, Signalled DEF StopBegins
  <2>3. DraftTyped'
    BY <1>11 DEF StopBegins, Typed, DraftTyped
  <2>4. WatchTyped'
    BY <1>11, <2>1, Rows DEF StopBegins, Typed, WatchTyped, ChainTyped
  <2>5. StopTyped'
    BY <1>11, <2>1 DEF StopBegins, Typed, StopTyped, StopRows, TurnTyped
  <2>6. FaultTyped'
    BY <1>11 DEF StopBegins, Typed, FaultTyped
  <2> QED BY <1>11, <2>1, <2>2, <2>3, <2>4, <2>5, <2>6, Kept
     DEF Typed, StopBegins, draftVars, chainVars, turnVars, taskVars, watchVars, recoVars
<1>12. CASE StopProjects
  <2>1. UNCHANGED accepted BY <1>12 DEF StopProjects, chainVars
  <2>2. TaskTyped'
    BY <1>12 DEF StopProjects, Typed, TaskTyped
  <2>3. StopTyped'
    BY <1>12, <2>1 DEF StopProjects, Typed, StopTyped, StopRows
  <2> QED BY <1>12, <2>1, <2>2, <2>3, Kept
     DEF Typed, StopProjects, draftVars, chainVars, turnVars, taskVars, watchVars, recoVars
<1>13. CASE StopEnds \/ StopFails
  <2>1. UNCHANGED accepted BY <1>13 DEF StopEnds, StopFails, chainVars
  <2>2. TaskTyped'
    BY <1>13 DEF StopEnds, StopFails, Typed, TaskTyped, Statuses, taskVars
  <2>3. StopTyped'
    BY <1>13, <2>1, Rows DEF StopEnds, StopFails, Typed, StopTyped, ChainTyped
  <2> QED BY <1>13, <2>1, <2>2, <2>3, Kept
     DEF Typed, StopEnds, StopFails, draftVars, chainVars, turnVars, taskVars, watchVars,
       recoVars
<1>14. CASE WatchCompletes
  <2>1. UNCHANGED accepted BY <1>14 DEF WatchCompletes, chainVars
  <2>2. WatchTyped'
    BY <1>14, <2>1, Rows DEF WatchCompletes, Typed, WatchTyped, ChainTyped
  <2> QED BY <1>14, <2>1, <2>2, Kept
     DEF Typed, WatchCompletes, draftVars, chainVars, turnVars, taskVars, watchVars, recoVars
<1>15. CASE HangBegins
  <2>1. UNCHANGED accepted BY <1>15 DEF HangBegins, chainVars
  <2>2. CutTyped' /\ TurnTyped' /\ TaskTyped' /\ RecoTyped'
    BY <1>15, <2>1, Signalled DEF HangBegins
  <2>3. WatchTyped'
    BY <1>15, <2>1 DEF HangBegins, Typed, WatchTyped, WatchRows
  <2>4. HangTyped'
    <3>1. watch.started \in Nat /\ watch.born \in Nat
      BY DEF Typed, WatchTyped, WatchRows
    <3> QED BY <1>15, <2>1, <3>1 DEF HangBegins, Typed, TurnTyped, HangTyped, HangRows
  <2> QED BY <1>15, <2>1, <2>2, <2>3, <2>4, Kept
     DEF Typed, HangBegins, draftVars, chainVars, turnVars, taskVars, watchVars, recoVars
<1>16. CASE HangAborted \/ HangAbortFails
  <2>1. UNCHANGED accepted BY <1>16 DEF HangAborted, HangAbortFails, chainVars
  <2>2. TaskTyped'
    BY <1>16 DEF HangAborted, HangAbortFails, Typed, TaskTyped, Statuses, taskVars
  <2>3. HangTyped'
    BY <1>16, <2>1 DEF HangAborted, HangAbortFails, Typed, HangTyped, HangRows
  <2> QED BY <1>16, <2>1, <2>2, <2>3, Kept
     DEF Typed, HangAborted, HangAbortFails, draftVars, chainVars, turnVars, taskVars,
       watchVars, recoVars
<1>17. CASE HangBusy
  <2>1. UNCHANGED accepted BY <1>17 DEF HangBusy, chainVars
  <2>2. WatchTyped'
    BY <1>17, <2>1 DEF HangBusy, StateAfterBusy, Typed, WatchTyped, WatchRows
  <2>3. HangTyped'
    BY <1>17, <2>1, Rows DEF HangBusy, Typed, HangTyped, ChainTyped
  <2> QED BY <1>17, <2>1, <2>2, <2>3, Kept
     DEF Typed, HangBusy, draftVars, chainVars, turnVars, taskVars, watchVars, recoVars
<1>18. CASE HangSuperseded \/ HangGivesUp
  <2>1. UNCHANGED accepted BY <1>18 DEF HangSuperseded, HangGivesUp, chainVars
  <2>2. WatchTyped'
    BY <1>18, <2>1, Rows
       DEF HangSuperseded, HangGivesUp, Typed, WatchTyped, ChainTyped, watchVars
  <2>3. HangTyped'
    BY <1>18, <2>1, Rows DEF HangSuperseded, HangGivesUp, Typed, HangTyped, ChainTyped
  <2> QED BY <1>18, <2>1, <2>2, <2>3, Kept
     DEF Typed, HangSuperseded, HangGivesUp, draftVars, chainVars, turnVars, taskVars,
       watchVars, recoVars
<1>19. CASE HangResumes
  <2>1. ChainTyped' /\ WatchTyped' /\ accepted' = accepted + 1
    <3>1. "hang" \in Kinds /\ hang.born \in Nat /\ watch.retry < MaxRetries
      BY <1>19 DEF HangResumes, Kinds, Typed, HangTyped, HangRows
    <3> QED BY <1>19, <3>1, Enqueued DEF HangResumes
  <2>2. TaskTyped' /\ RecoTyped'
    BY <1>19 DEF HangResumes, MarkWorking, Typed, TaskTyped, RecoTyped, Statuses
  <2>3. HangTyped'
    BY <1>19, <2>1, Rows DEF HangResumes, HangTyped, ChainTyped
  <2> QED BY <1>19, <2>1, <2>2, <2>3, Kept
     DEF Typed, HangResumes, draftVars, chainVars, turnVars, taskVars, watchVars, recoVars
<1>20. ASSUME NEW r \in Requests, Accept(r) PROVE Typed'
  <2>1. DraftTyped' /\ draft[r].born \in Nat
    BY <1>20 DEF Accept, Typed, DraftTyped, DraftRows
  <2>2. TaskTyped' /\ RecoTyped'
    BY <1>20 DEF Accept, MarkWorking, Typed, TaskTyped, RecoTyped, Statuses
  <2>3. CASE ~CurrentDraft(r)
    BY <1>20, <2>1, <2>2, <2>3, Kept
       DEF Typed, Accept, draftVars, chainVars, turnVars, taskVars, watchVars, recoVars
  <2>4. CASE CurrentDraft(r)
    <3>1. ChainTyped' /\ WatchTyped' /\ accepted' = accepted + 1
      <4>1. "user" \in Kinds /\ "user" # "hang"
        BY DEF Kinds
      <4> QED BY <1>20, <2>1, <2>4, <4>1, Enqueued DEF Accept
    <3> QED BY <1>20, <2>1, <2>2, <3>1, Kept
       DEF Typed, Accept, draftVars, chainVars, turnVars, taskVars, watchVars, recoVars
  <2> QED BY <2>3, <2>4
<1>21. CASE Settled
  <2> DEFINE done == [stage EXCEPT ![turn] = IF outcome = "ok" THEN "ended" ELSE "over"]
  <2>1. done \in [Prompts -> Stages]
    BY DEF Stages
  <2>2. TaskTyped' /\ RecoTyped'
    BY <1>21 DEF Settled, SettledStatus, Typed, TaskTyped, RecoTyped, Statuses, recoVars
  <2>3. TurnTyped' \/ accepted' \notin Nat
    BY <1>21 DEF Settled, TurnTyped, Phases, Outcomes, NoTurn
  <2>4. CASE pendingTransport
    <3>1. ChainTyped' /\ WatchTyped' /\ accepted' = accepted + 1
      <4>1. "transport" \in Kinds /\ "transport" # "hang"
        BY DEF Kinds
      <4>2. born[turn] \in Nat
        BY <1>21 DEF Settled, Typed, TurnTyped, ChainTyped, Prompts, NoTurn
      <4>3. Enqueue("transport", born[turn], done)
        BY <1>21, <2>4 DEF Settled
      <4> HIDE DEF done
      <4> QED BY <2>1, <4>1, <4>2, <4>3, Enqueued
    <3> QED BY <1>21, <2>2, <2>3, <3>1, Kept
       DEF Typed, Settled, draftVars, chainVars, turnVars, taskVars, watchVars, recoVars
  <2>5. CASE ~pendingTransport
    <3>1. UNCHANGED <<accepted, kind, born, clock>> /\ stage' = done /\ watch' = WatchAfterSettle
      BY <1>21, <2>5 DEF Settled
    <3> HIDE DEF done
    <3>2. ChainTyped'
      BY <2>1, <3>1 DEF Typed, ChainTyped, Prompts
    <3>3. WatchTyped'
      BY <3>1, Rows DEF WatchAfterSettle, Typed, WatchTyped, ChainTyped
    <3> QED BY <1>21, <2>2, <2>3, <3>1, <3>2, <3>3, Kept
       DEF Typed, Settled, draftVars, chainVars, turnVars, taskVars, watchVars, recoVars
  <2> QED BY <2>4, <2>5
<1> QED
  BY <1>1, <1>2, <1>3, <1>4, <1>5, <1>6, <1>7, <1>8, <1>9, <1>10, <1>11, <1>12, <1>13, <1>14,
     <1>15, <1>16, <1>17, <1>18, <1>19, <1>20, <1>21
  DEF Next, Continues, Watches, Outcomes

\* The variables of the task have their types.
THEOREM TypeCorrect == Spec => []TypeOK
<1>1. Typed /\ [Next]_vars => Typed' BY TypedStep
<1> QED BY <1>1, InitTyped, TypedMeans, PTL DEF Spec
-----------------------------------------------------------------------------
\* The turn belongs to the running prompt.
TurnRuns ==
    turn # NoTurn => turn \in 1..accepted /\ stage[turn] = "sent" /\ \A q \in 1..(turn - 1) : Over(q)

LEMMA RunsStep == Typed /\ TurnRuns /\ [Next]_vars => TurnRuns'
<1> SUFFICES ASSUME Typed, TurnRuns, [Next]_vars PROVE TurnRuns'
  OBVIOUS
<1>0. /\ accepted \in Nat /\ accepted <= MaxPrompts /\ stage \in [Prompts -> Stages]
      /\ turn \in Nat /\ turn <= accepted
  BY DEF Typed, ChainTyped, TurnTyped
<1> USE TurnAssumption, <1>0 DEF NoTurn, Prompts
<1>1. CASE UNCHANGED <<accepted, stage, turn>>
  BY <1>1 DEF TurnRuns, Over
\* A prompt is added at the end of the chain.
<1>2. CASE /\ turn' = turn /\ accepted' = accepted + 1
           /\ stage' = [stage EXCEPT ![accepted + 1] = "chained"]
  BY <1>2 DEF TurnRuns, Over
\* A prompt whose turn has not begun moves on.
<1>3. ASSUME NEW p \in Prompts, Running(p), stage[p] # "sent",
             NEW s, stage' = [stage EXCEPT ![p] = s],
             UNCHANGED <<accepted, turn>>
      PROVE  TurnRuns'
  BY <1>3 DEF TurnRuns, Over, Running
\* The turn of a prompt begins or ends.
<1>4. CASE turn' = NoTurn
  BY <1>4 DEF TurnRuns
<1>5. ASSUME NEW p \in Prompts, Running(p), turn' = p, stage' = [stage EXCEPT ![p] = "sent"],
             UNCHANGED accepted
      PROVE  TurnRuns'
  BY <1>5 DEF TurnRuns, Over, Running
<1> USE DEF chainVars, turnVars
<1>6. CASE UNCHANGED vars
  BY <1>1, <1>6 DEF vars
<1>7. ASSUME NEW p \in Prompts, Start(p) PROVE TurnRuns'
  BY <1>3, <1>7 DEF Start
<1>8. ASSUME NEW p \in Prompts, Prepare(p) PROVE TurnRuns'
  BY <1>3, <1>8 DEF Prepare
<1>9. ASSUME NEW p \in Prompts, PromptFails(p) PROVE TurnRuns'
  BY <1>3, <1>9 DEF PromptFails
<1>10. ASSUME NEW p \in Prompts, Send(p) PROVE TurnRuns'
  BY <1>3, <1>5, <1>10 DEF Send
<1>11. ASSUME NEW r \in Requests, Accept(r) PROVE TurnRuns'
  BY <1>1, <1>2, <1>11 DEF Accept, Enqueue
<1>12. CASE HangResumes
  BY <1>2, <1>12 DEF HangResumes, Enqueue
<1>13. CASE LeaseLost \/ Settled
  BY <1>4, <1>13 DEF LeaseLost, Settled
<1>14. ASSUME NEW r \in Requests, Submit(r) PROVE TurnRuns'
  BY <1>1, <1>14 DEF Submit
<1>15. ASSUME NEW o \in Outcomes, TurnEnds(o) PROVE TurnRuns'
  BY <1>1, <1>15 DEF TurnEnds
<1>16. CASE Hangs \/ AbortRejected \/ StopBegins \/ StopProjects \/ StopEnds \/ StopFails
  BY <1>1, <1>16 DEF Hangs, AbortRejected, StopBegins, StopProjects, StopEnds, StopFails
<1>17. CASE WatchCompletes \/ HangBegins \/ HangAborted \/ HangAbortFails \/ HangBusy
            \/ HangSuperseded \/ HangGivesUp
  BY <1>1, <1>17
     DEF WatchCompletes, HangBegins, HangAborted, HangAbortFails, HangBusy, HangSuperseded,
     HangGivesUp
<1> QED
  BY <1>6, <1>7, <1>8, <1>9, <1>10, <1>11, <1>12, <1>13, <1>14, <1>15, <1>16, <1>17
  DEF Next, Continues, Watches, Outcomes

\* While no prompt runs but p, and its turn has not begun, there is no turn.
LEMMA NoOtherTurn ==
  ASSUME Typed, TurnRuns, NEW p \in Prompts, Running(p), stage[p] # "sent"
  PROVE  turn = NoTurn /\ phase = "none"
BY DEF Typed, TurnTyped, ChainTyped, TurnRuns, Running, Over, NoTurn, Prompts
-----------------------------------------------------------------------------
\* What was asked before the last Stop is not asked any more: the request of a
\* draft that is still current, of a prompt that was not cancelled, of the
\* turn, of the watch, and of the hung request that is waited for.
DraftsDated == \A r \in Requests : draft[r].at = "preparing" =>
                  draft[r].gen <= generation /\ (draft[r].gen = generation => draft[r].born = stops)
PromptsDated == \A p \in 1..accepted : p > cut => born[p] = stops
TurnDated ==
    /\ phase \in {"streaming", "hung"} => born[turn] = stops
    /\ phase = "aborting" => \/ born[turn] = stops
                             \/ stop.at # "no" /\ stop.turn = turn /\ ~stop.rejected
    /\ pendingTransport => phase = "settling" /\ born[turn] = stops
WatchDated == watch # NoWatch => /\ watch.born = stops /\ watch.started <= clock
                                 /\ watch.prompt = accepted
HangDated == hang.at # "no" => /\ hang.row <= clock
                               /\ Current => hang.born = watch.born /\ hang.last = accepted
Retried == watch # NoWatch => watch.retry < accepted /\ kind[accepted - watch.retry] # "hang"
Bounded == \A i \in Prompts : i + MaxRetries <= accepted =>
              \E j \in i..(i + MaxRetries) : kind[j] # "hang"

Dated == DraftsDated /\ PromptsDated /\ TurnDated /\ WatchDated /\ HangDated /\ Retried /\ Bounded
IInv  == Typed /\ TurnRuns /\ Dated

LEMMA InitInv == Init => IInv
<1> SUFFICES ASSUME Init PROVE IInv
  OBVIOUS
<1>1. TurnRuns /\ DraftsDated /\ PromptsDated /\ TurnDated
  BY DEF Init, TurnRuns, DraftsDated, PromptsDated, TurnDated, NoTurn
<1>2. WatchDated /\ Retried
  BY DEF Init, WatchDated, Retried
<1>3. HangDated
  BY DEF Init, HangDated, NoHang
<1>4. Bounded
  BY TurnAssumption DEF Init, Bounded, Prompts, Kinds
<1> QED BY <1>1, <1>2, <1>3, <1>4, InitTyped DEF IInv, Dated

\* What an action leaves alone stays dated as it was.
LEMMA KeptDated ==
  /\ DraftsDated /\ UNCHANGED <<draft, generation, stops>> => DraftsDated'
  /\ PromptsDated /\ UNCHANGED <<accepted, cut, born, stops>> => PromptsDated'
  /\ TurnDated /\ UNCHANGED <<turn, phase, born, stops, stop, pendingTransport>> => TurnDated'
  /\ WatchDated /\ UNCHANGED <<watch, clock, accepted, stops>> => WatchDated'
  /\ HangDated /\ UNCHANGED <<hang, watch, clock, accepted>> => HangDated'
  /\ Retried /\ UNCHANGED <<watch, accepted, kind>> => Retried'
  /\ Bounded /\ UNCHANGED <<accepted, kind>> => Bounded'
<1>1. DraftsDated /\ UNCHANGED <<draft, generation, stops>> => DraftsDated'
  BY DEF DraftsDated
<1>2. PromptsDated /\ UNCHANGED <<accepted, cut, born, stops>> => PromptsDated'
  BY DEF PromptsDated
<1>3. TurnDated /\ UNCHANGED <<turn, phase, born, stops, stop, pendingTransport>> => TurnDated'
  BY DEF TurnDated
<1>4. WatchDated /\ UNCHANGED <<watch, clock, accepted, stops>> => WatchDated'
  BY DEF WatchDated
<1>5. HangDated /\ UNCHANGED <<hang, watch, clock, accepted>> => HangDated'
  BY DEF HangDated, Current
<1>6. Retried /\ UNCHANGED <<watch, accepted, kind>> => Retried'
  BY DEF Retried
<1>7. Bounded /\ UNCHANGED <<accepted, kind>> => Bounded'
  BY DEF Bounded
<1> QED BY <1>1, <1>2, <1>3, <1>4, <1>5, <1>6, <1>7

\* A watch that is gone says nothing.
LEMMA NoWatchDated == watch' = NoWatch =>
  /\ WatchDated' /\ Retried'
  /\ hang' = hang /\ clock' = clock /\ HangDated => HangDated'
BY DEF WatchDated, Retried, HangDated, Current

\* A prompt that is asked for now joins the chain dated now, and a hang retry
\* is one more than its watch has counted.
LEMMA EnqueuedDated ==
  ASSUME Typed, Dated, NEW k \in Kinds, NEW s, Enqueue(k, stops, s), UNCHANGED <<cut, stops>>,
         k = "hang" => watch # NoWatch /\ watch.retry < MaxRetries
  PROVE  PromptsDated' /\ WatchDated' /\ Retried' /\ Bounded'
<1>0. /\ accepted \in Nat /\ accepted < MaxPrompts /\ kind \in [Prompts -> Kinds] /\ cut \in Nat
      /\ born \in [Prompts -> Nat] /\ clock \in Nat /\ watch.retry \in Nat
  BY TurnAssumption DEF Typed, ChainTyped, CutTyped, WatchTyped, WatchRows, Enqueue, Room
<1> USE <1>0, TurnAssumption
<1> DEFINE n == accepted + 1
           r == RetryOf(k)
<1>1. /\ accepted' = n /\ n \in Prompts /\ clock' = clock + 1
      /\ born' = [born EXCEPT ![n] = stops] /\ kind' = [kind EXCEPT ![n] = k]
      /\ watch' = [started |-> clock + 1, retry |-> r, state |-> "armed", prompt |-> n,
                   born |-> stops]
  BY DEF Enqueue, Prompts
<1>2. PromptsDated'
  BY <1>1 DEF Dated, PromptsDated, Prompts
<1>3. WatchDated'
  BY <1>1 DEF WatchDated
<1>4. r < n /\ kind'[n - r] # "hang"
  <2>1. CASE k = "hang"
    <3>1. r = watch.retry + 1 /\ n - r = accepted - watch.retry /\ n - r \in 1..accepted
          /\ kind[accepted - watch.retry] # "hang"
      BY <2>1 DEF RetryOf, Dated, Retried
    <3> QED BY <1>1, <3>1 DEF Prompts
  <2>2. CASE k # "hang"
    BY <1>1, <2>2 DEF RetryOf
  <2> QED BY <2>1, <2>2
<1>5. r \in Nat /\ r <= MaxRetries
  BY DEF RetryOf, Typed, WatchTyped
<1>6. Retried'
  BY <1>1, <1>4 DEF Retried
<1> HIDE DEF r
<1>7. Bounded'
  <2> SUFFICES ASSUME NEW i \in Prompts, i + MaxRetries <= n
               PROVE  \E j \in i..(i + MaxRetries) : kind'[j] # "hang"
    BY <1>1 DEF Bounded
  <2>1. CASE i + MaxRetries <= accepted
    <3>1. PICK j \in i..(i + MaxRetries) : kind[j] # "hang"
      BY <2>1 DEF Dated, Bounded
    <3> QED BY <1>1, <2>1, <3>1 DEF Prompts
  <2>2. CASE i + MaxRetries = n
    <3>1. n - r \in i..(i + MaxRetries)
      BY <1>4, <1>5, <2>2 DEF Prompts
    <3> QED BY <1>4, <3>1
  <2> QED BY <2>1, <2>2 DEF Prompts
<1> QED BY <1>2, <1>3, <1>6, <1>7

\* The new watch is none that a resolveHang holds, and the turn is an older prompt.
LEMMA EnqueuedAbout ==
  ASSUME Typed, Dated, NEW k \in Kinds, NEW b, NEW s, Enqueue(k, b, s)
  PROVE  /\ UNCHANGED hang => HangDated'
         /\ UNCHANGED <<turn, phase, stops, stop, pendingTransport>> => TurnDated'
<1>0. /\ accepted \in Nat /\ turn \in Nat /\ turn <= accepted /\ clock \in Nat
      /\ born \in [Prompts -> Nat] /\ hang.row \in Nat
  BY DEF Typed, ChainTyped, TurnTyped, WatchTyped, HangTyped, HangRows
<1>1. UNCHANGED hang => HangDated'
  <2>1. clock' = clock + 1 /\ watch'.started = clock + 1
    BY DEF Enqueue
  <2> QED BY <1>0, <2>1 DEF Dated, HangDated, Current
<1>2. UNCHANGED <<turn, phase, stops, stop, pendingTransport>> => TurnDated'
  <2>1. born'[turn] = born[turn]
    BY <1>0 DEF Enqueue
  <2> QED BY <2>1 DEF Dated, TurnDated
<1> QED BY <1>1, <1>2

\* Every step of the task keeps the dates.
LEMMA DatedStep == IInv /\ [Next]_vars => Dated'
<1> SUFFICES ASSUME IInv, [Next]_vars PROVE Dated'
  OBVIOUS
<1>0. /\ Typed /\ TurnRuns /\ Dated
      /\ accepted \in Nat /\ turn \in Nat /\ turn <= accepted /\ generation \in Nat /\ stops \in Nat
      /\ clock \in Nat /\ born \in [Prompts -> Nat]
      /\ draft \in [Requests -> DraftRows] /\ watch \in WatchRows
      /\ stop \in StopRows /\ hang \in HangRows
      /\ turn = NoTurn <=> phase = "none"
  BY DEF IInv, Typed, ChainTyped, TurnTyped, DraftTyped, WatchTyped, StopTyped, HangTyped,
     FaultTyped
<1> USE <1>0, KeptDated
<1>1. CASE UNCHANGED vars
  BY <1>1 DEF vars, Dated, draftVars, chainVars, turnVars, taskVars, watchVars, recoVars
<1>2. ASSUME NEW r \in Requests, Submit(r) PROVE Dated'
  <2>1. DraftsDated'
    BY <1>2 DEF Submit, Dated, DraftsDated, draftVars
  <2> QED BY <1>2, <2>1
     DEF Dated, Submit, draftVars, chainVars, turnVars, taskVars, watchVars, recoVars
<1>3. ASSUME NEW p \in Prompts, Start(p) \/ Prepare(p) \/ PromptFails(p) PROVE Dated'
  BY <1>3 DEF Start, Prepare, PromptFails, Dated, draftVars, chainVars, turnVars, taskVars,
     watchVars, recoVars
<1>4. ASSUME NEW p \in Prompts, Send(p) PROVE Dated'
  <2>1. CASE Stale(p)
    BY <1>4, <2>1 DEF Send, Dated, draftVars, chainVars, turnVars, taskVars, watchVars, recoVars
  <2>2. CASE ~Stale(p)
    <3>1. p \in 1..accepted /\ p > cut /\ stage[p] # "sent" /\ cut \in Nat
      BY <1>4, <2>2 DEF Send, Stale, Running, Prompts, Typed, CutTyped
    <3>2. born[p] = stops
      BY <3>1 DEF Dated, PromptsDated
    <3>3. turn = NoTurn /\ phase = "none"
      BY <1>4, <3>1, NoOtherTurn DEF Send
    <3>4. TurnDated'
      BY <1>4, <2>2, <3>2, <3>3 DEF Send, Dated, TurnDated, chainVars, recoVars
    <3> QED BY <1>4, <2>2, <3>4 DEF Send, Dated, draftVars, watchVars, recoVars
  <2> QED BY <2>1, <2>2
<1>5. CASE LeaseLost
  <2>1. DraftsDated'
    BY <1>5 DEF LeaseLost, Dated, DraftsDated, DraftRows
  <2>2. PromptsDated' /\ TurnDated'
    BY <1>5 DEF LeaseLost, PromptsDated, TurnDated
  <2>3. WatchDated' /\ Retried' /\ HangDated'
    BY <1>5, NoWatchDated DEF LeaseLost, Dated
  <2> QED BY <1>5, <2>1, <2>2, <2>3 DEF LeaseLost, Dated
<1>6. CASE Hangs
  <2>1. TurnDated'
    BY <1>6 DEF Hangs, Dated, TurnDated, chainVars, recoVars
  <2> QED BY <1>6, <2>1
     DEF Hangs, Dated, draftVars, chainVars, turnVars, taskVars, watchVars, recoVars
<1>7. ASSUME NEW o \in Outcomes, TurnEnds(o) PROVE Dated'
  <2>1. turn \in Prompts
    BY <1>7, TurnAssumption DEF TurnEnds, Typed, ChainTyped, NoTurn, Prompts
  <2>2. PromptsDated'
    BY <1>7, <2>1 DEF TurnEnds, Dated, PromptsDated, Prompts, Typed, CutTyped
  <2>3. turn' = turn /\ stops' = stops /\ phase' = "settling"
    BY <1>7 DEF TurnEnds
  <2>4. pendingTransport' => Recovers(o)
    BY <1>7 DEF TurnEnds, Dated, TurnDated
  <2>6. Recovers(o) => born'[turn] = stops
    <3>1. Recovers(o) /\ Stopping => born'[turn] = stops
      BY <1>7, <2>1 DEF TurnEnds
    <3>2. ~Stopping => born' = born /\ born[turn] = stops
      BY <1>7 DEF TurnEnds, Dated, TurnDated, Stopping
    <3> QED BY <3>1, <3>2
  <2>5. TurnDated'
    BY <2>3, <2>4, <2>6 DEF TurnDated
  <2> QED BY <1>7, <2>2, <2>5
     DEF TurnEnds, Dated, draftVars, taskVars, watchVars
<1>8. CASE AbortRejected
  <2>1. turn \in Prompts
    BY <1>8, TurnAssumption DEF AbortRejected, Typed, ChainTyped, NoTurn, Prompts
  <2>2. PromptsDated'
    BY <1>8, <2>1 DEF AbortRejected, Dated, PromptsDated, Prompts, Typed, CutTyped
  <2>3. TurnDated'
    BY <1>8, <2>1 DEF AbortRejected, Stopping, Dated, TurnDated, recoVars
  <2>4. HangDated'
    <3>1. /\ hang'.at = hang.at /\ hang'.row = hang.row
          /\ hang'.born = hang.born /\ hang'.last = hang.last
      BY <1>8 DEF AbortRejected, HangRows
    <3> QED BY <1>8, <3>1 DEF AbortRejected, Dated, HangDated, Current, watchVars
  <2> QED BY <1>8, <2>2, <2>3, <2>4
     DEF AbortRejected, Dated, draftVars, chainVars, turnVars, taskVars, watchVars, recoVars
<1>9. CASE StopBegins
  <2>1. DraftsDated'
    BY <1>9 DEF StopBegins, Dated, DraftsDated, DraftRows
  <2>2. PromptsDated'
    BY <1>9 DEF StopBegins, SignalAbort, PromptsDated, chainVars
  <2>3. TurnDated'
    BY <1>9 DEF StopBegins, SignalAbort, TurnDated
  <2>4. WatchDated' /\ Retried' /\ HangDated'
    BY <1>9, NoWatchDated DEF StopBegins, Dated
  <2> QED BY <1>9, <2>1, <2>2, <2>3, <2>4 DEF StopBegins, Dated, chainVars
<1>10. CASE StopProjects
  <2>1. /\ stop'.turn = stop.turn /\ stop'.rejected = stop.rejected
        /\ stop'.at # "no" /\ stop.at # "no"
    BY <1>10 DEF StopProjects, StopRows
  <2>2. TurnDated'
    BY <1>10, <2>1
       DEF StopProjects, Dated, TurnDated, draftVars, chainVars, turnVars, taskVars, watchVars,
         recoVars
  <2> QED BY <1>10, <2>2
     DEF StopProjects, Dated, draftVars, chainVars, turnVars, taskVars, watchVars, recoVars
<1>11. CASE StopEnds \/ StopFails
  <2>1. TurnDated'
    BY <1>11 DEF StopEnds, StopFails, AbortDone, Dated, TurnDated, draftVars, chainVars,
       turnVars, taskVars, watchVars, recoVars
  <2> QED BY <1>11, <2>1
     DEF StopEnds, StopFails, Dated, draftVars, chainVars, turnVars, taskVars, watchVars,
       recoVars
<1>12. CASE WatchCompletes
  BY <1>12, NoWatchDated
     DEF WatchCompletes, Dated, draftVars, chainVars, turnVars, taskVars, watchVars, recoVars
<1>13. CASE HangBegins
  <2>1. PromptsDated'
    BY <1>13 DEF HangBegins, SignalAbort, PromptsDated, chainVars
  <2>2. TurnDated'
    BY <1>13 DEF HangBegins, SignalAbort, Dated, TurnDated, chainVars
  <2>3. /\ watch'.started = watch.started /\ watch'.born = watch.born /\ watch'.retry = watch.retry
        /\ watch'.prompt = watch.prompt /\ watch # NoWatch
    BY <1>13 DEF HangBegins, WatchRows
  <2>4. WatchDated' /\ Retried'
    BY <1>13, <2>3 DEF HangBegins, Dated, WatchDated, Retried, chainVars
  <2>5. HangDated'
    <3>1. hang'.row = watch.started /\ hang'.born = watch.born /\ hang'.last = accepted
      BY <1>13 DEF HangBegins
    <3> QED BY <1>13, <2>3, <3>1 DEF HangBegins, Dated, WatchDated, HangDated, chainVars
  <2> QED BY <1>13, <2>1, <2>2, <2>4, <2>5 DEF HangBegins, Dated, draftVars, chainVars
<1>14. CASE HangAborted \/ HangAbortFails
  <2>1. hang'.row = hang.row /\ hang'.born = hang.born /\ hang'.last = hang.last /\ hang.at # "no"
    BY <1>14 DEF HangAborted, HangAbortFails, HangRows
  <2>2. HangDated'
    BY <1>14, <2>1
       DEF HangAborted, HangAbortFails, Dated, HangDated, Current, watchVars, chainVars
  <2> QED BY <1>14, <2>2
     DEF HangAborted, HangAbortFails, Dated, draftVars, chainVars, turnVars, taskVars,
       watchVars, recoVars
<1>15. CASE HangBusy
  <2>1. hang' = NoHang /\ NoHang.at = "no"
    BY <1>15 DEF HangBusy, NoHang
  <2>2. \/ watch' = watch
        \/ /\ watch # NoWatch /\ watch'.started = watch.started /\ watch'.born = watch.born
           /\ watch'.retry = watch.retry /\ watch'.prompt = watch.prompt
    BY <1>15 DEF HangBusy, Current, WatchRows
  <2>3. HangDated' /\ WatchDated' /\ Retried'
    BY <1>15, <2>1, <2>2 DEF HangBusy, Dated, HangDated, WatchDated, Retried, chainVars
  <2> QED BY <1>15, <2>3
     DEF HangBusy, Dated, draftVars, chainVars, turnVars, taskVars, watchVars, recoVars
<1>16. CASE HangSuperseded \/ HangGivesUp
  <2>1. hang' = NoHang /\ NoHang.at = "no"
    BY <1>16 DEF HangSuperseded, HangGivesUp, NoHang
  <2>2. HangDated'
    BY <2>1 DEF HangDated
  <2> QED BY <1>16, <2>2, NoWatchDated
     DEF HangSuperseded, HangGivesUp, Dated, draftVars, chainVars, turnVars, taskVars,
       watchVars, recoVars
<1>17. CASE HangResumes
  <2>1. hang' = NoHang /\ NoHang.at = "no"
    BY <1>17 DEF HangResumes, NoHang
  <2>2. HangDated'
    BY <2>1 DEF HangDated
  <2>3. hang.born = stops /\ watch # NoWatch /\ "hang" \in Kinds
    BY <1>17 DEF HangResumes, MayRevive, Current, Dated, HangDated, WatchDated, Kinds
  <2>4. PromptsDated' /\ WatchDated' /\ Retried' /\ Bounded'
    BY <1>17, <2>3, EnqueuedDated DEF HangResumes
  <2>5. TurnDated'
    BY <1>17, <2>3, EnqueuedAbout DEF HangResumes, turnVars
  <2> QED BY <1>17, <2>2, <2>4, <2>5 DEF HangResumes, Dated, draftVars
<1>18. ASSUME NEW r \in Requests, Accept(r) PROVE Dated'
  <2>1. DraftsDated'
    BY <1>18 DEF Accept, Dated, DraftsDated
  <2>2. CASE ~CurrentDraft(r)
    BY <1>18, <2>1, <2>2
       DEF Accept, Dated, draftVars, chainVars, turnVars, taskVars, watchVars, recoVars
  <2>3. CASE CurrentDraft(r)
    <3>1. draft[r].born = stops /\ "user" \in Kinds /\ "user" # "hang"
      BY <1>18, <2>3 DEF Accept, CurrentDraft, Dated, DraftsDated, Kinds
    <3>2. PromptsDated' /\ WatchDated' /\ Retried' /\ Bounded'
      BY <1>18, <2>3, <3>1, EnqueuedDated DEF Accept
    <3>3. TurnDated' /\ HangDated'
      BY <1>18, <2>3, <3>1, EnqueuedAbout DEF Accept, turnVars
    <3> QED BY <2>1, <3>2, <3>3 DEF Dated
  <2> QED BY <2>2, <2>3
<1>19. CASE Settled
  <2>1. TurnDated' /\ DraftsDated'
    BY <1>19 DEF Settled, Dated, TurnDated, draftVars, recoVars
  <2>2. CASE pendingTransport
    <3>1. born[turn] = stops /\ "transport" \in Kinds /\ "transport" # "hang"
      BY <2>2 DEF Dated, TurnDated, Kinds
    <3>2. PromptsDated' /\ WatchDated' /\ Retried' /\ Bounded'
      BY <1>19, <2>2, <3>1, EnqueuedDated DEF Settled
    <3>3. HangDated'
      BY <1>19, <2>2, <3>1, EnqueuedAbout DEF Settled
    <3> QED BY <2>1, <3>2, <3>3 DEF Dated
  <2>3. CASE ~pendingTransport
    <3>1. UNCHANGED <<accepted, kind, born, clock, cut, stops, hang>> /\ watch' \in {NoWatch, watch}
      BY <1>19, <2>3 DEF Settled, WatchAfterSettle
    <3> QED BY <2>1, <3>1, NoWatchDated DEF Dated
  <2> QED BY <2>2, <2>3
<1> QED
  BY <1>1, <1>2, <1>3, <1>4, <1>5, <1>6, <1>7, <1>8, <1>9, <1>10, <1>11, <1>12, <1>13, <1>14,
     <1>15, <1>16, <1>17, <1>18, <1>19
  DEF Next, Continues, Watches, Outcomes

LEMMA InvStep == IInv /\ [Next]_vars => IInv'
BY TypedStep, RunsStep, DatedStep DEF IInv

LEMMA SpecInv == Spec => []IInv
BY InitInv, InvStep, PTL DEF Spec
-----------------------------------------------------------------------------
\* No hang retry follows more than MaxRetries others.
THEOREM RetriesAreBounded == Spec => []RetriesBounded
<1>1. IInv => RetriesBounded
  BY TypedMeans DEF IInv, Dated, Bounded, RetriesBounded
<1> QED BY <1>1, SpecInv, PTL

\* Only Send hands a prompt to the SDK, and only one that was not cancelled.
LEMMA OnlySend ==
  ASSUME Typed, [Next]_vars, NEW p \in Prompts, stage[p] # "sent", stage'[p] = "sent"
  PROVE  p \in 1..accepted /\ p > cut
<1>0. accepted \in Nat /\ cut \in Nat /\ stage \in [Prompts -> Stages]
  BY DEF Typed, ChainTyped, CutTyped
<1> USE <1>0
<1>1. ~UNCHANGED stage
  OBVIOUS
<1>2. ASSUME NEW q \in Prompts, Send(q) PROVE p = q /\ ~Stale(q) /\ Running(q)
  BY <1>2 DEF Send
<1>3. ASSUME NEW q \in Prompts PROVE ~Start(q) /\ ~Prepare(q) /\ ~PromptFails(q)
  BY DEF Start, Prepare, PromptFails
<1>4. ASSUME NEW k, NEW b, NEW s, s[p] # "sent"
      PROVE  ~Enqueue(k, b, s) \/ s \notin [Prompts -> Stages]
  BY <1>4 DEF Enqueue, Prompts
<1>5. ASSUME NEW r \in Requests, Submit(r) \/ Accept(r) PROVE FALSE
  BY <1>1, <1>4, <1>5 DEF Submit, Accept, chainVars
<1>6. ~HangResumes
  BY <1>4 DEF HangResumes
<1>7. ~LeaseLost
  BY DEF LeaseLost
<1>8. ~Settled
  <2> DEFINE done == [stage EXCEPT ![turn] = IF outcome = "ok" THEN "ended" ELSE "over"]
  <2>1. done \in [Prompts -> Stages] /\ done[p] # "sent"
    BY DEF Stages
  <2>2. Settled => stage' = done \/ Enqueue("transport", born[turn], done)
    BY DEF Settled
  <2> HIDE DEF done
  <2> QED BY <1>4, <2>1, <2>2
<1>9. ASSUME NEW o \in Outcomes PROVE ~TurnEnds(o)
  BY <1>1 DEF TurnEnds
<1>10. ~(Hangs \/ AbortRejected \/ StopBegins \/ StopProjects \/ StopEnds \/ StopFails)
  BY <1>1 DEF Hangs, AbortRejected, StopBegins, StopProjects, StopEnds, StopFails, chainVars
<1>11. ~(WatchCompletes \/ HangBegins \/ HangAborted \/ HangAbortFails \/ HangBusy
         \/ HangSuperseded \/ HangGivesUp)
  BY <1>1 DEF WatchCompletes, HangBegins, HangAborted, HangAbortFails, HangBusy, HangSuperseded,
     HangGivesUp, chainVars
<1>12. ~UNCHANGED vars
  BY <1>1 DEF vars, chainVars
<1>13. PICK q \in Prompts : Send(q)
  BY <1>3, <1>5, <1>6, <1>7, <1>8, <1>9, <1>10, <1>11, <1>12
     DEF Next, Continues, Watches, Outcomes
<1> QED BY <1>2, <1>13 DEF Stale, Running, Prompts

\* A Stop is final for what was asked before it: every request handed to the
\* SDK was submitted after the last Stop, retries and recoveries included, or
\* its turn outlived that Stop: the abort was rejected, or the transport broke
\* after the signal.
THEOREM StopFinal == Spec => StopIsFinal
<1>1. IInv /\ [Next]_vars
        => [\A p \in Prompts : stage[p] # "sent" /\ stage'[p] = "sent" => born[p] = stops]_vars
  <2> SUFFICES ASSUME IInv, [Next]_vars, NEW p \in Prompts, stage[p] # "sent", stage'[p] = "sent"
               PROVE  born[p] = stops
    OBVIOUS
  <2>1. p \in 1..accepted /\ p > cut
    BY OnlySend DEF IInv
  <2> QED BY <2>1 DEF IInv, Dated, PromptsDated
<1> QED BY <1>1, SpecInv, PTL DEF Spec, StopIsFinal

\* The watchdog's abort leaves the status and the lease of a newer turn alone.
THEOREM NewerTurnSpared == Spec => HangAbortSparesNewer
<1> DEFINE Spared == (hang.at = "cleanup" /\ hang'.at = "waiting" /\ phase = "streaming"
                       /\ turn > hang.last /\ watch # NoWatch) => UNCHANGED <<status, lease>>
<1>1. IInv /\ [Next]_vars => [Spared]_vars
  <2> SUFFICES ASSUME IInv, [Next]_vars, hang.at = "cleanup", hang'.at = "waiting",
                      turn > hang.last, watch # NoWatch
               PROVE  UNCHANGED <<status, lease>>
    OBVIOUS
  <2>1. watch.started # hang.row
    <3>1. turn \in Nat /\ turn <= accepted /\ accepted \in Nat /\ hang.last \in Nat
      BY DEF IInv, Typed, TurnTyped, ChainTyped, HangTyped, HangRows
    <3> QED BY <3>1 DEF IInv, Dated, HangDated, Current
  <2>2. CASE UNCHANGED <<status, lease>>
    BY <2>2
  <2>3. CASE HangAborted
    BY <2>1, <2>3 DEF HangAborted, Replaced
  <2>4. CASE UNCHANGED hang
    BY <2>4
  <2>5. CASE hang' = NoHang
    BY <2>5 DEF NoHang
  <2>6. ASSUME NEW r \in Requests PROVE Submit(r) \/ Accept(r) => UNCHANGED hang
    BY DEF Submit, Accept
  <2>7. ASSUME NEW p \in Prompts
        PROVE  Start(p) \/ Prepare(p) \/ PromptFails(p) \/ Send(p) => UNCHANGED hang
    BY DEF Start, Prepare, PromptFails, Send
  <2>8. ASSUME NEW o \in Outcomes PROVE TurnEnds(o) => UNCHANGED hang
    BY DEF TurnEnds
  <2>9. /\ LeaseLost \/ Hangs \/ Settled \/ StopBegins \/ StopProjects \/ StopEnds \/ StopFails
             \/ WatchCompletes \/ UNCHANGED vars => UNCHANGED hang
        /\ HangBusy \/ HangSuperseded \/ HangGivesUp \/ HangResumes => hang' = NoHang
        /\ AbortRejected \/ HangBegins \/ HangAbortFails => UNCHANGED <<status, lease>>
    BY DEF LeaseLost, Hangs, Settled, StopBegins, StopProjects, StopEnds, StopFails,
       WatchCompletes, vars,
       HangBusy, HangSuperseded, HangGivesUp, HangResumes, AbortRejected, HangBegins, HangAbortFails,
       taskVars
  <2> QED BY <2>2, <2>3, <2>4, <2>5, <2>6, <2>7, <2>8, <2>9
     DEF Next, Continues, Watches, Outcomes
<1> QED BY <1>1, SpecInv, PTL DEF Spec, HangAbortSparesNewer

\* Neither abort takes the lease from the turn it was called for.
THEOREM AbortedTurnKeepsLease == Spec => LeaseOutlivesAbortedTurn
<1> DEFINE Spared == lease /\ ~lease' =>
        /\ stop.at = "cleanup" /\ stop'.at = "no" => stop.turn = NoTurn \/ turn # stop.turn
        /\ hang.at = "cleanup" /\ hang'.at = "waiting" => hang.turn = NoTurn \/ turn # hang.turn
<1>1. [Next]_vars => [Spared]_vars
  <2> SUFFICES ASSUME [Next]_vars, lease, ~lease' PROVE Spared
    OBVIOUS
  <2>1. CASE StopEnds
    BY <2>1 DEF StopEnds, AbortDone
  <2>2. CASE HangAborted
    BY <2>2 DEF HangAborted, AbortDone
  <2>3. CASE UNCHANGED <<stop, hang>>
    BY <2>3
  <2>4. CASE UNCHANGED lease
    BY <2>4
  <2>5. ASSUME NEW r \in Requests PROVE Submit(r) \/ Accept(r) => UNCHANGED <<stop, hang>>
    BY DEF Submit, Accept
  <2>6. ASSUME NEW p \in Prompts
        PROVE  Start(p) \/ Prepare(p) \/ PromptFails(p) \/ Send(p) => UNCHANGED <<stop, hang>>
    BY DEF Start, Prepare, PromptFails, Send
  <2>7. ASSUME NEW o \in Outcomes PROVE TurnEnds(o) => UNCHANGED <<stop, hang>>
    BY DEF TurnEnds
  <2>8. /\ LeaseLost \/ Hangs \/ Settled \/ WatchCompletes \/ UNCHANGED vars
             => UNCHANGED <<stop, hang>>
        /\ StopBegins \/ StopProjects \/ StopFails \/ AbortRejected \/ HangBegins \/ HangAbortFails
             \/ HangBusy \/ HangSuperseded \/ HangGivesUp => UNCHANGED lease
        /\ HangResumes => ~(lease /\ ~lease')
    BY DEF LeaseLost, Hangs, Settled, StopBegins, StopProjects, StopFails, WatchCompletes,
       vars, HangBusy,
       HangSuperseded, HangGivesUp, HangResumes, AbortRejected, HangBegins, HangAbortFails,
       taskVars, MarkWorking
  <2> QED BY <2>1, <2>2, <2>3, <2>4, <2>5, <2>6, <2>7, <2>8
     DEF Next, Continues, Watches, Outcomes
<1> QED BY <1>1, PTL DEF Spec, LeaseOutlivesAbortedTurn
-----------------------------------------------------------------------------
(* The live session of a task                                              *)

\* The attempts that will register their session if their generation is current, and
\* all those that have not settled.
Opening == {"settings", "creating", "attaching", "attached"}
Tracked == Opening \cup {"discarding", "rejecting", "nested", "returning", "throwing"}

\* A call's generation is one that has begun.
EpochsBegun == \A e \in Call : ep[e] <= epoch

\* A retry has not been made before the attempt that makes it gives up, and the
\* promotion's own call not before the old directory is dealt with.
RetriesUnused ==
  \A e \in Call :
     e[2] < MaxNested /\ pc[e] \notin {"nested", "returning", "throwing", "done", "failed"}
        => pc[Retry(e)] = "unused"
PromoterUnused ==
  promotion \in {"none", "moving", "finishing"} =>
     \A e \in Call : e[1] = Promoter => pc[e] = "unused"

\* An attempt of the present generation works for a task that is there, with its settings.
Fresh(e) ==
  pc[e] \in Opening /\ ~StaleEpoch(e) =>
     /\ task = "present"
     /\ "promotion" \notin races => used[e] = settings

\* While the task is moved every attempt is of an old generation.
MovedAlone ==
  promotion = "moving" /\ "promotion" \notin races =>
     /\ live # None => pc[live] = "attached"
     /\ \A e \in Call :
           /\ pc[e] # "retirement"
           /\ pc[e] \in {"joined", "proceed"} \cup Opening => StaleEpoch(e)

\* The registered session was attached; once its attempt has looked at its generation,
\* it is of the present settings, and its task is there.
LiveSeen ==
  live # None =>
     /\ pc[live] \in {"attached", "returning", "done"}
     /\ pc[live] # "attached" =>
          /\ task = "present"
          /\ "promotion" \notin races => used[live] = settings

\* The initialization lease is that of an attempt that has not settled.
LeaseHeld == held # None => pc[held] \in Tracked

\* Without an overlap there is one attempt, no session is registered before it
\* attaches its own, and an open session is registered or in its hands.
Accounted(e) ==
  "overlap" \notin races =>
     /\ prior[e] = None
     /\ pc[e] \in Tracked => inflight = e
     /\ pc[e] \in {"settings", "creating", "discarding", "rejecting", "attaching"} => live = None
     /\ session[e] = "open" /\ e[1] \notin AccountFails =>
           e = live \/ pc[e] \in {"discarding", "rejecting", "attaching"}

SessionInv ==
  /\ SessionTypeOK /\ EpochsBegun /\ RetriesUnused /\ PromoterUnused
  /\ \A e \in Call : Fresh(e) /\ Accounted(e)
  /\ MovedAlone /\ LiveSeen /\ LeaseHeld

USE DEF callVars, otherVars, Goto, Set

LEMMA CallFacts ==
  /\ None \notin Call /\ MaxNested \in Nat
  /\ <<Promoter, 0>> \in Call /\ <<Promoter, 0>>[1] = Promoter
  /\ \A e \in Call : Retry(e) # <<Promoter, 0>>
  /\ \A e \in Call : e[1] # Promoter => e # <<Promoter, 0>>
  /\ \A e \in Call : /\ e[2] \in Nat
                     /\ Retry(e) # e /\ Retry(e)[1] = e[1] /\ Retry(e)[2] # 0
                     /\ e[2] < MaxNested => Retry(e) \in Call
  /\ \A d, e \in Call : Retry(d) = Retry(e) => d = e
<1>1. ASSUME NEW e \in Call PROVE e = <<e[1], e[2]>> /\ e[1] \in Caller /\ e[2] \in 0 .. MaxNested
  BY DEF Call
<1> QED
  BY <1>1, NoneAssumption, RetriesAssumption, CallerAssumption DEF Call, Retry

LEMMA SessionInitInv == SessionInit => SessionInv
<1> SUFFICES ASSUME SessionInit PROVE SessionInv
  OBVIOUS
<1>1. SessionTypeOK
  BY DEF SessionInit, SessionTypeOK, Pcs
<1>2. EpochsBegun /\ RetriesUnused /\ PromoterUnused
  BY CallFacts DEF SessionInit, EpochsBegun, RetriesUnused, PromoterUnused
<1>3. ASSUME NEW e \in Call PROVE Fresh(e) /\ Accounted(e)
  BY DEF SessionInit, Fresh, Accounted, Opening, Tracked
<1>4. MovedAlone /\ LiveSeen /\ LeaseHeld
  BY DEF SessionInit, MovedAlone, LiveSeen, LeaseHeld
<1> QED
  BY <1>1, <1>2, <1>3, <1>4 DEF SessionInv

\* After disposeLive nothing is registered, and no session is open that was not.
NewGeneration ==
  /\ epoch' \in Nat /\ epoch' > epoch /\ live' = None
  /\ session' \in [Call -> {"none", "open", "retiring", "disposed"}]
  /\ shutdown' \in Call \cup {None}
  /\ \A e \in Call : session'[e] = "open" => session[e] = "open" /\ e # live

LEMMA LiveDisposed ==
  ASSUME SessionTypeOK, NEW n \in Nat \ {0}, DisposeLive(n)
  PROVE  NewGeneration
BY CallFacts DEF SessionTypeOK, DisposeLive, NewGeneration

\* A call that enters fails, or waits; not for the promotion only if it is its own.
EntersFrom(e, labels) ==
  /\ pc' \in [Call -> Pcs] /\ awaits' \in [Call -> Call \cup {None}]
  /\ pc'[e] \in {"failed", "promotion", "retirement"}
  /\ pc'[e] = "retirement" => e[1] = Promoter \/ ~Promoting
  /\ \A d \in Call : d # e => pc'[d] = labels[d]

LEMMA Entered ==
  ASSUME NEW labels \in [Call -> Pcs], NEW e \in Call, NEW retirement \in Call \cup {None},
         awaits \in [Call -> Call \cup {None}], Enter(e, labels, retirement)
  PROVE  EntersFrom(e, labels)
BY DEF Enter, Pcs, AllowDuringPromotion, EntersFrom

\* An attempt that gives up throws, or makes a retry that was not made before.
GivesUp(e) ==
  /\ pc' \in [Call -> Pcs] /\ awaits' \in [Call -> Call \cup {None}]
  /\ pc'[e] \in {"nested", "throwing"}
  /\ \A d \in Call : d # e =>
        \/ pc'[d] = pc[d]
        \/ /\ d = Retry(e) /\ pc[d] = "unused"
           /\ pc'[d] \in {"failed", "promotion", "retirement"}
           /\ pc'[d] = "retirement" => d[1] = Promoter \/ ~Promoting

LEMMA NestedGivesUp ==
  ASSUME SessionTypeOK, RetriesUnused, NEW e \in Call, pc[e] \in {"discarding", "attached"},
         NEW retirement \in Call \cup {None}, Nested(e, retirement)
  PROVE  GivesUp(e)
<1>1. /\ Retry(e) \in Call /\ Retry(e) # e /\ pc[Retry(e)] = "unused"
      /\ Enter(Retry(e), Set(pc, e, "nested"), retirement)
  BY CallFacts DEF SessionTypeOK, RetriesUnused, Nested
<1>2. Set(pc, e, "nested") \in [Call -> Pcs]
  BY DEF SessionTypeOK, Pcs
<1>3. EntersFrom(Retry(e), Set(pc, e, "nested"))
  BY <1>1, <1>2, Entered DEF SessionTypeOK
<1> QED
  BY <1>1, <1>3 DEF EntersFrom, GivesUp, SessionTypeOK

LEMMA GivesUpRetries ==
  ASSUME SessionTypeOK, RetriesUnused, NEW e \in Call, pc[e] # "unused", GivesUp(e)
  PROVE  RetriesUnused'
<1> SUFFICES ASSUME NEW x \in Call, x[2] < MaxNested,
                    pc'[x] \notin {"nested", "returning", "throwing", "done", "failed"}
             PROVE  pc'[Retry(x)] = "unused"
  BY DEF RetriesUnused
<1>1. x # e
  BY DEF GivesUp
<1>2. pc[x] \notin {"nested", "returning", "throwing", "done", "failed"}
  BY <1>1 DEF GivesUp
<1>3. pc[Retry(x)] = "unused" /\ Retry(x) \in Call
  BY <1>2, CallFacts DEF RetriesUnused
<1>4. Retry(x) # e /\ Retry(x) # Retry(e)
  BY <1>1, <1>3, CallFacts
<1> QED
  BY <1>3, <1>4 DEF GivesUp

LEMMA ShutdownDoneKeeps ==
  ASSUME SessionInv, NEW e \in Call, ShutdownDone(e)
  PROVE  SessionInv'
<1>1. SessionTypeOK'
  BY CallFacts DEF SessionInv, SessionTypeOK, Pcs, ShutdownDone
<1>2. EpochsBegun' /\ PromoterUnused'
  BY CallFacts DEF SessionInv, SessionTypeOK, EpochsBegun, PromoterUnused, ShutdownDone
<1>3. RetriesUnused'
  BY CallFacts DEF SessionInv, SessionTypeOK, RetriesUnused, ShutdownDone
<1>4. ASSUME NEW d \in Call PROVE Fresh(d)'
  BY CallFacts DEF SessionInv, SessionTypeOK, EpochsBegun, Fresh, StaleEpoch, Opening,
     MovedAlone, ShutdownDone
<1>5. ASSUME NEW d \in Call PROVE Accounted(d)'
  BY CallFacts DEF SessionInv, SessionTypeOK, Accounted, Opening, Tracked, LiveSeen,
     ShutdownDone
<1>6. MovedAlone'
  BY CallFacts DEF SessionInv, SessionTypeOK, EpochsBegun, PromoterUnused, MovedAlone,
     StaleEpoch, Opening, ShutdownDone
<1>7. LiveSeen' /\ LeaseHeld'
  BY CallFacts DEF SessionInv, SessionTypeOK, LiveSeen, LeaseHeld, Fresh, StaleEpoch, Opening,
     Tracked, MovedAlone, ShutdownDone
<1> QED
  BY <1>1, <1>2, <1>3, <1>4, <1>5, <1>6, <1>7 DEF SessionInv

LEMMA EnsureLiveKeeps ==
  ASSUME SessionInv, NEW e \in Call, EnsureLive(e)
  PROVE  SessionInv'
<1>0. EntersFrom(e, pc) /\ pc[e] = "unused" /\ e[2] = 0 /\ e[1] # Promoter
  BY Entered DEF SessionInv, SessionTypeOK, EnsureLive
<1>1. SessionTypeOK'
  BY <1>0, CallFacts DEF SessionInv, SessionTypeOK, Pcs, EntersFrom, Promoting, EnsureLive
<1>2. EpochsBegun' /\ PromoterUnused'
  BY <1>0, CallFacts DEF SessionInv, SessionTypeOK, EpochsBegun, PromoterUnused, EntersFrom,
     Promoting, EnsureLive
<1>3. RetriesUnused'
  BY <1>0, CallFacts DEF SessionInv, SessionTypeOK, RetriesUnused, EntersFrom, Promoting,
     EnsureLive
<1>4. ASSUME NEW d \in Call PROVE Fresh(d)'
  BY <1>0, CallFacts DEF SessionInv, SessionTypeOK, EpochsBegun, Fresh, StaleEpoch, Opening,
     MovedAlone, EntersFrom, Promoting, EnsureLive
<1>5. ASSUME NEW d \in Call PROVE Accounted(d)'
  BY <1>0, CallFacts DEF SessionInv, SessionTypeOK, Accounted, Opening, Tracked, LiveSeen,
     EntersFrom, Promoting, EnsureLive
<1>6. MovedAlone'
  BY <1>0, CallFacts DEF SessionInv, SessionTypeOK, EpochsBegun, PromoterUnused, MovedAlone,
     StaleEpoch, Opening, EntersFrom, Promoting, EnsureLive
<1>7. LiveSeen' /\ LeaseHeld'
  BY <1>0, CallFacts DEF SessionInv, SessionTypeOK, LiveSeen, LeaseHeld, Fresh, StaleEpoch,
     Opening, Tracked, MovedAlone, EntersFrom, Promoting, EnsureLive
<1> QED
  BY <1>1, <1>2, <1>3, <1>4, <1>5, <1>6, <1>7 DEF SessionInv

LEMMA PassPromotionKeeps ==
  ASSUME SessionInv, NEW e \in Call, PassPromotion(e)
  PROVE  SessionInv'
<1>1. SessionTypeOK'
  BY CallFacts DEF SessionInv, SessionTypeOK, Pcs, PassPromotion, PromotionSettled, Promoting
<1>2. EpochsBegun' /\ PromoterUnused'
  BY CallFacts DEF SessionInv, SessionTypeOK, EpochsBegun, PromoterUnused, PassPromotion,
     PromotionSettled, Promoting
<1>3. RetriesUnused'
  BY CallFacts DEF SessionInv, SessionTypeOK, RetriesUnused, PassPromotion, PromotionSettled,
     Promoting
<1>4. ASSUME NEW d \in Call PROVE Fresh(d)'
  BY CallFacts DEF SessionInv, SessionTypeOK, EpochsBegun, Fresh, StaleEpoch, Opening,
     MovedAlone, PassPromotion, PromotionSettled, Promoting
<1>5. ASSUME NEW d \in Call PROVE Accounted(d)'
  BY CallFacts DEF SessionInv, SessionTypeOK, Accounted, Opening, Tracked, LiveSeen,
     PassPromotion, PromotionSettled, Promoting
<1>6. MovedAlone'
  BY CallFacts DEF SessionInv, SessionTypeOK, EpochsBegun, PromoterUnused, MovedAlone,
     StaleEpoch, Opening, PassPromotion, PromotionSettled, Promoting
<1>7. LiveSeen' /\ LeaseHeld'
  BY CallFacts DEF SessionInv, SessionTypeOK, LiveSeen, LeaseHeld, Fresh, StaleEpoch, Opening,
     Tracked, MovedAlone, PassPromotion, PromotionSettled, Promoting
<1> QED
  BY <1>1, <1>2, <1>3, <1>4, <1>5, <1>6, <1>7 DEF SessionInv

LEMMA DecideKeeps ==
  ASSUME SessionInv, NEW e \in Call, Decide(e)
  PROVE  SessionInv'
<1>1. SessionTypeOK'
  BY CallFacts DEF SessionInv, SessionTypeOK, Pcs, Decide, Retired
<1>2. EpochsBegun' /\ PromoterUnused'
  BY CallFacts DEF SessionInv, SessionTypeOK, EpochsBegun, PromoterUnused, Decide, Retired
<1>3. RetriesUnused'
  BY CallFacts DEF SessionInv, SessionTypeOK, RetriesUnused, Decide, Retired
<1>4. ASSUME NEW d \in Call PROVE Fresh(d)'
  BY CallFacts DEF SessionInv, SessionTypeOK, EpochsBegun, Fresh, StaleEpoch, Opening,
     MovedAlone, Decide, Retired
<1>5. ASSUME NEW d \in Call PROVE Accounted(d)'
  BY CallFacts DEF SessionInv, SessionTypeOK, Accounted, Opening, Tracked, LiveSeen, Decide,
     Retired
<1>6. MovedAlone'
  BY CallFacts DEF SessionInv, SessionTypeOK, EpochsBegun, PromoterUnused, MovedAlone,
     StaleEpoch, Opening, Decide, Retired
<1>7. LiveSeen' /\ LeaseHeld'
  BY CallFacts DEF SessionInv, SessionTypeOK, LiveSeen, LeaseHeld, Fresh, StaleEpoch, Opening,
     Tracked, MovedAlone, Decide, Retired
<1> QED
  BY <1>1, <1>2, <1>3, <1>4, <1>5, <1>6, <1>7 DEF SessionInv

LEMMA JoinKeeps ==
  ASSUME SessionInv, NEW e \in Call, Join(e)
  PROVE  SessionInv'
<1>1. SessionTypeOK'
  BY CallFacts DEF SessionInv, SessionTypeOK, Pcs, Join, JoinSettled
<1>2. EpochsBegun' /\ PromoterUnused'
  BY CallFacts DEF SessionInv, SessionTypeOK, EpochsBegun, PromoterUnused, Join, JoinSettled
<1>3. RetriesUnused'
  BY CallFacts DEF SessionInv, SessionTypeOK, RetriesUnused, Join, JoinSettled
<1>4. ASSUME NEW d \in Call PROVE Fresh(d)'
  BY CallFacts DEF SessionInv, SessionTypeOK, EpochsBegun, Fresh, StaleEpoch, Opening,
     MovedAlone, Join, JoinSettled
<1>5. ASSUME NEW d \in Call PROVE Accounted(d)'
  BY CallFacts DEF SessionInv, SessionTypeOK, Accounted, Opening, Tracked, LiveSeen, Join,
     JoinSettled
<1>6. MovedAlone'
  BY CallFacts DEF SessionInv, SessionTypeOK, EpochsBegun, PromoterUnused, MovedAlone,
     StaleEpoch, Opening, Join, JoinSettled
<1>7. LiveSeen' /\ LeaseHeld'
  BY CallFacts DEF SessionInv, SessionTypeOK, LiveSeen, LeaseHeld, Fresh, StaleEpoch, Opening,
     Tracked, MovedAlone, Join, JoinSettled
<1> QED
  BY <1>1, <1>2, <1>3, <1>4, <1>5, <1>6, <1>7 DEF SessionInv

LEMMA StartAttemptKeeps ==
  ASSUME SessionInv, NEW e \in Call, StartAttempt(e)
  PROVE  SessionInv'
<1>1. SessionTypeOK'
  BY CallFacts DEF SessionInv, SessionTypeOK, Pcs, StartAttempt, Attachable
<1>2. EpochsBegun' /\ PromoterUnused'
  BY CallFacts DEF SessionInv, SessionTypeOK, EpochsBegun, PromoterUnused, StartAttempt,
     Attachable
<1>3. RetriesUnused'
  BY CallFacts DEF SessionInv, SessionTypeOK, RetriesUnused, StartAttempt, Attachable
<1>4. ASSUME NEW d \in Call PROVE Fresh(d)'
  BY CallFacts DEF SessionInv, SessionTypeOK, EpochsBegun, Fresh, StaleEpoch, Opening,
     MovedAlone, StartAttempt, Attachable
<1>5. ASSUME NEW d \in Call PROVE Accounted(d)'
  BY CallFacts DEF SessionInv, SessionTypeOK, Accounted, Opening, Tracked, LiveSeen,
     StartAttempt, Attachable
<1>6. MovedAlone'
  BY CallFacts DEF SessionInv, SessionTypeOK, EpochsBegun, PromoterUnused, MovedAlone,
     StaleEpoch, Opening, StartAttempt, Attachable
<1>7. LiveSeen' /\ LeaseHeld'
  BY CallFacts DEF SessionInv, SessionTypeOK, LiveSeen, LeaseHeld, Fresh, StaleEpoch, Opening,
     Tracked, MovedAlone, StartAttempt, Attachable
<1> QED
  BY <1>1, <1>2, <1>3, <1>4, <1>5, <1>6, <1>7 DEF SessionInv

LEMMA AcquireLeaseKeeps ==
  ASSUME SessionInv, NEW e \in Call, AcquireLease(e)
  PROVE  SessionInv'
<1>1. SessionTypeOK'
  BY CallFacts DEF SessionInv, SessionTypeOK, Pcs, AcquireLease
<1>2. EpochsBegun' /\ PromoterUnused'
  BY CallFacts DEF SessionInv, SessionTypeOK, EpochsBegun, PromoterUnused, AcquireLease
<1>3. RetriesUnused'
  BY CallFacts DEF SessionInv, SessionTypeOK, RetriesUnused, AcquireLease
<1>4. ASSUME NEW d \in Call PROVE Fresh(d)'
  BY CallFacts DEF SessionInv, SessionTypeOK, EpochsBegun, Fresh, StaleEpoch, Opening,
     MovedAlone, AcquireLease
<1>5. ASSUME NEW d \in Call PROVE Accounted(d)'
  BY CallFacts DEF SessionInv, SessionTypeOK, Accounted, Opening, Tracked, LiveSeen,
     AcquireLease
<1>6. MovedAlone'
  BY CallFacts DEF SessionInv, SessionTypeOK, EpochsBegun, PromoterUnused, MovedAlone,
     StaleEpoch, Opening, AcquireLease
<1>7. LiveSeen' /\ LeaseHeld'
  BY CallFacts DEF SessionInv, SessionTypeOK, LiveSeen, LeaseHeld, Fresh, StaleEpoch, Opening,
     Tracked, MovedAlone, AcquireLease
<1> QED
  BY <1>1, <1>2, <1>3, <1>4, <1>5, <1>6, <1>7 DEF SessionInv

LEMMA AttemptFailsKeeps ==
  ASSUME SessionInv, NEW e \in Call, AttemptFails(e)
  PROVE  SessionInv'
<1>1. SessionTypeOK'
  BY CallFacts DEF SessionInv, SessionTypeOK, Pcs, AttemptFails
<1>2. EpochsBegun' /\ PromoterUnused'
  BY CallFacts DEF SessionInv, SessionTypeOK, EpochsBegun, PromoterUnused, AttemptFails
<1>3. RetriesUnused'
  BY CallFacts DEF SessionInv, SessionTypeOK, RetriesUnused, AttemptFails
<1>4. ASSUME NEW d \in Call PROVE Fresh(d)'
  BY CallFacts DEF SessionInv, SessionTypeOK, EpochsBegun, Fresh, StaleEpoch, Opening,
     MovedAlone, AttemptFails
<1>5. ASSUME NEW d \in Call PROVE Accounted(d)'
  BY CallFacts DEF SessionInv, SessionTypeOK, Accounted, Opening, Tracked, LiveSeen,
     AttemptFails
<1>6. MovedAlone'
  BY CallFacts DEF SessionInv, SessionTypeOK, EpochsBegun, PromoterUnused, MovedAlone,
     StaleEpoch, Opening, AttemptFails
<1>7. LiveSeen' /\ LeaseHeld'
  BY CallFacts DEF SessionInv, SessionTypeOK, LiveSeen, LeaseHeld, Fresh, StaleEpoch, Opening,
     Tracked, MovedAlone, AttemptFails
<1> QED
  BY <1>1, <1>2, <1>3, <1>4, <1>5, <1>6, <1>7 DEF SessionInv

LEMMA CreatedKeeps ==
  ASSUME SessionInv, NEW e \in Call, Created(e)
  PROVE  SessionInv'
<1>1. SessionTypeOK'
  BY CallFacts DEF SessionInv, SessionTypeOK, Pcs, Created
<1>2. EpochsBegun' /\ PromoterUnused'
  BY CallFacts DEF SessionInv, SessionTypeOK, EpochsBegun, PromoterUnused, Created
<1>3. RetriesUnused'
  BY CallFacts DEF SessionInv, SessionTypeOK, RetriesUnused, Created
<1>4. ASSUME NEW d \in Call PROVE Fresh(d)'
  BY CallFacts DEF SessionInv, SessionTypeOK, EpochsBegun, Fresh, StaleEpoch, Opening,
     MovedAlone, Created
<1>5. ASSUME NEW d \in Call PROVE Accounted(d)'
  BY CallFacts DEF SessionInv, SessionTypeOK, Accounted, Opening, Tracked, LiveSeen, Created
<1>6. MovedAlone'
  BY CallFacts DEF SessionInv, SessionTypeOK, EpochsBegun, PromoterUnused, MovedAlone,
     StaleEpoch, Opening, Created
<1>7. LiveSeen' /\ LeaseHeld'
  BY CallFacts DEF SessionInv, SessionTypeOK, LiveSeen, LeaseHeld, Fresh, StaleEpoch, Opening,
     Tracked, MovedAlone, Created
<1> QED
  BY <1>1, <1>2, <1>3, <1>4, <1>5, <1>6, <1>7 DEF SessionInv

LEMMA DiscardKeeps ==
  ASSUME SessionInv, NEW e \in Call, Discard(e)
  PROVE  SessionInv'
<1>0. /\ GivesUp(e) /\ pc[e] \in {"discarding", "rejecting"}
      /\ session' = [session EXCEPT ![e] = "disposed"]
      /\ UNCHANGED <<task, settings, epoch, live, inflight, shutdown, held, ep, used, prior,
                     otherVars, races>>
  <2>1. CASE pc[e] = "discarding"
    BY <2>1, NestedGivesUp DEF SessionInv, SessionTypeOK, Discard
  <2>2. CASE pc[e] = "rejecting"
    BY <2>2 DEF SessionInv, SessionTypeOK, Discard, GivesUp, Pcs
  <2> QED
    BY <2>1, <2>2 DEF Discard
<1>1. SessionTypeOK'
  BY <1>0, CallFacts DEF SessionInv, SessionTypeOK, Pcs, GivesUp, Promoting
<1>2. EpochsBegun' /\ PromoterUnused'
  BY <1>0, CallFacts DEF SessionInv, SessionTypeOK, EpochsBegun, PromoterUnused, GivesUp,
     Promoting
<1>3. RetriesUnused'
  BY <1>0, CallFacts, GivesUpRetries DEF SessionInv, SessionTypeOK, RetriesUnused, GivesUp,
     Promoting
<1>4. ASSUME NEW d \in Call PROVE Fresh(d)'
  BY <1>0, CallFacts DEF SessionInv, SessionTypeOK, EpochsBegun, Fresh, StaleEpoch, Opening,
     MovedAlone, GivesUp, Promoting
<1>5. ASSUME NEW d \in Call PROVE Accounted(d)'
  BY <1>0, CallFacts DEF SessionInv, SessionTypeOK, Accounted, Opening, Tracked, LiveSeen,
     GivesUp, Promoting
<1>6. MovedAlone'
  BY <1>0, CallFacts DEF SessionInv, SessionTypeOK, EpochsBegun, PromoterUnused, MovedAlone,
     StaleEpoch, Opening, GivesUp, Promoting
<1>7. LiveSeen' /\ LeaseHeld'
  BY <1>0, CallFacts DEF SessionInv, SessionTypeOK, LiveSeen, LeaseHeld, Fresh, StaleEpoch,
     Opening, Tracked, MovedAlone, GivesUp, Promoting
<1> QED
  BY <1>1, <1>2, <1>3, <1>4, <1>5, <1>6, <1>7 DEF SessionInv

LEMMA AttachKeeps ==
  ASSUME SessionInv, NEW e \in Call, Attach(e)
  PROVE  SessionInv'
<1>1. SessionTypeOK'
  BY CallFacts DEF SessionInv, SessionTypeOK, Pcs, Attach, Detached
<1>2. EpochsBegun' /\ PromoterUnused'
  BY CallFacts DEF SessionInv, SessionTypeOK, EpochsBegun, PromoterUnused, Attach, Detached
<1>3. RetriesUnused'
  BY CallFacts DEF SessionInv, SessionTypeOK, RetriesUnused, Attach, Detached
<1>4. ASSUME NEW d \in Call PROVE Fresh(d)'
  BY CallFacts DEF SessionInv, SessionTypeOK, EpochsBegun, Fresh, StaleEpoch, Opening,
     MovedAlone, Attach, Detached
<1>5. ASSUME NEW d \in Call PROVE Accounted(d)'
  BY CallFacts DEF SessionInv, SessionTypeOK, Accounted, Opening, Tracked, LiveSeen, Attach,
     Detached
<1>6. MovedAlone'
  BY CallFacts DEF SessionInv, SessionTypeOK, EpochsBegun, PromoterUnused, MovedAlone,
     StaleEpoch, Opening, Attach, Detached
<1>7. LiveSeen' /\ LeaseHeld'
  BY CallFacts DEF SessionInv, SessionTypeOK, LiveSeen, LeaseHeld, Fresh, StaleEpoch, Opening,
     Tracked, MovedAlone, Attach, Detached
<1> QED
  BY <1>1, <1>2, <1>3, <1>4, <1>5, <1>6, <1>7 DEF SessionInv

LEMMA AccountFailureKeeps ==
  ASSUME SessionInv, NEW e \in Call, AccountFailure(e)
  PROVE  SessionInv'
<1>1. SessionTypeOK'
  BY CallFacts DEF SessionInv, SessionTypeOK, Pcs, AccountFailure
<1>2. EpochsBegun' /\ PromoterUnused'
  BY CallFacts DEF SessionInv, SessionTypeOK, EpochsBegun, PromoterUnused, AccountFailure
<1>3. RetriesUnused'
  BY CallFacts DEF SessionInv, SessionTypeOK, RetriesUnused, AccountFailure
<1>4. ASSUME NEW d \in Call PROVE Fresh(d)'
  BY CallFacts DEF SessionInv, SessionTypeOK, EpochsBegun, Fresh, StaleEpoch, Opening,
     MovedAlone, AccountFailure
<1>5. ASSUME NEW d \in Call PROVE Accounted(d)'
  BY CallFacts DEF SessionInv, SessionTypeOK, Accounted, Opening, Tracked, LiveSeen,
     AccountFailure
<1>6. MovedAlone'
  BY CallFacts DEF SessionInv, SessionTypeOK, EpochsBegun, PromoterUnused, MovedAlone,
     StaleEpoch, Opening, AccountFailure
<1>7. LiveSeen' /\ LeaseHeld'
  BY CallFacts DEF SessionInv, SessionTypeOK, LiveSeen, LeaseHeld, Fresh, StaleEpoch, Opening,
     Tracked, MovedAlone, AccountFailure
<1> QED
  BY <1>1, <1>2, <1>3, <1>4, <1>5, <1>6, <1>7 DEF SessionInv

LEMMA CheckAttachedKeeps ==
  ASSUME SessionInv, NEW e \in Call, CheckAttached(e)
  PROVE  SessionInv'
<1>1. CASE Keep(e)
  <2>1. SessionTypeOK'
    BY <1>1, CallFacts DEF SessionInv, SessionTypeOK, Pcs, CheckAttached, Keep
  <2>2. EpochsBegun' /\ PromoterUnused'
    BY <1>1, CallFacts DEF SessionInv, SessionTypeOK, EpochsBegun, PromoterUnused,
       CheckAttached, Keep
  <2>3. RetriesUnused'
    BY <1>1, CallFacts DEF SessionInv, SessionTypeOK, RetriesUnused, CheckAttached, Keep
  <2>4. ASSUME NEW d \in Call PROVE Fresh(d)'
    BY <1>1, CallFacts DEF SessionInv, SessionTypeOK, EpochsBegun, Fresh, StaleEpoch, Opening,
       MovedAlone, CheckAttached, Keep
  <2>5. ASSUME NEW d \in Call PROVE Accounted(d)'
    BY <1>1, CallFacts DEF SessionInv, SessionTypeOK, Accounted, Opening, Tracked, LiveSeen,
       CheckAttached, Keep
  <2>6. MovedAlone'
    BY <1>1, CallFacts DEF SessionInv, SessionTypeOK, EpochsBegun, PromoterUnused, MovedAlone,
       StaleEpoch, Opening, CheckAttached, Keep
  <2>7. LiveSeen' /\ LeaseHeld'
    BY <1>1, CallFacts DEF SessionInv, SessionTypeOK, LiveSeen, LeaseHeld, Fresh, StaleEpoch,
       Opening, Tracked, MovedAlone, CheckAttached, Keep
  <2> QED
    BY <2>1, <2>2, <2>3, <2>4, <2>5, <2>6, <2>7 DEF SessionInv
<1>2. CASE ~Keep(e)
  <2>8. \/ live = e /\ NewGeneration
        \/ live # e /\ UNCHANGED <<epoch, live, session, shutdown>>
    BY <1>2, LiveDisposed DEF SessionInv, CheckAttached
  <2>9. pc[e] = "attached" /\ GivesUp(e)
    BY <1>2, <2>8, NestedGivesUp DEF SessionInv, SessionTypeOK, CheckAttached, NewGeneration
  <2>0. UNCHANGED <<task, settings, inflight, held, ep, used, prior, otherVars, races>>
    BY DEF CheckAttached
  <2>1. SessionTypeOK'
    BY <2>8, <2>9, <2>0, CallFacts DEF SessionInv, SessionTypeOK, Pcs, GivesUp, NewGeneration,
       Promoting
  <2>2. EpochsBegun' /\ PromoterUnused'
    BY <2>8, <2>9, <2>0, CallFacts DEF SessionInv, SessionTypeOK, EpochsBegun, PromoterUnused,
       GivesUp, NewGeneration, Promoting
  <2>3. RetriesUnused'
    BY <2>8, <2>9, <2>0, CallFacts, GivesUpRetries DEF SessionInv, SessionTypeOK,
       RetriesUnused, GivesUp, NewGeneration, Promoting
  <2>4. ASSUME NEW d \in Call PROVE Fresh(d)'
    BY <2>8, <2>9, <2>0, CallFacts DEF SessionInv, SessionTypeOK, EpochsBegun, Fresh,
       StaleEpoch, Opening, MovedAlone, GivesUp, NewGeneration, Promoting
  <2>5. ASSUME NEW d \in Call PROVE Accounted(d)'
    BY <2>8, <2>9, <2>0, CallFacts DEF SessionInv, SessionTypeOK, Accounted, Opening, Tracked,
       LiveSeen, GivesUp, NewGeneration, Promoting
  <2>6. MovedAlone'
    BY <2>8, <2>9, <2>0, CallFacts DEF SessionInv, SessionTypeOK, EpochsBegun, PromoterUnused,
       MovedAlone, StaleEpoch, Opening, GivesUp, NewGeneration, Promoting
  <2>7. LiveSeen' /\ LeaseHeld'
    BY <2>8, <2>9, <2>0, CallFacts DEF SessionInv, SessionTypeOK, LiveSeen, LeaseHeld, Fresh,
       StaleEpoch, Opening, Tracked, MovedAlone, GivesUp, NewGeneration, Promoting
  <2> QED
    BY <2>1, <2>2, <2>3, <2>4, <2>5, <2>6, <2>7 DEF SessionInv
<1> QED
  BY <1>1, <1>2

LEMMA NestedDoneKeeps ==
  ASSUME SessionInv, NEW e \in Call, NestedDone(e)
  PROVE  SessionInv'
<1>1. SessionTypeOK'
  BY CallFacts DEF SessionInv, SessionTypeOK, Pcs, NestedDone, NestedSettled
<1>2. EpochsBegun' /\ PromoterUnused'
  BY CallFacts DEF SessionInv, SessionTypeOK, EpochsBegun, PromoterUnused, NestedDone,
     NestedSettled
<1>3. RetriesUnused'
  BY CallFacts DEF SessionInv, SessionTypeOK, RetriesUnused, NestedDone, NestedSettled
<1>4. ASSUME NEW d \in Call PROVE Fresh(d)'
  BY CallFacts DEF SessionInv, SessionTypeOK, EpochsBegun, Fresh, StaleEpoch, Opening,
     MovedAlone, NestedDone, NestedSettled
<1>5. ASSUME NEW d \in Call PROVE Accounted(d)'
  BY CallFacts DEF SessionInv, SessionTypeOK, Accounted, Opening, Tracked, LiveSeen,
     NestedDone, NestedSettled
<1>6. MovedAlone'
  BY CallFacts DEF SessionInv, SessionTypeOK, EpochsBegun, PromoterUnused, MovedAlone,
     StaleEpoch, Opening, NestedDone, NestedSettled
<1>7. LiveSeen' /\ LeaseHeld'
  BY CallFacts DEF SessionInv, SessionTypeOK, LiveSeen, LeaseHeld, Fresh, StaleEpoch, Opening,
     Tracked, MovedAlone, NestedDone, NestedSettled
<1> QED
  BY <1>1, <1>2, <1>3, <1>4, <1>5, <1>6, <1>7 DEF SessionInv

LEMMA SettleKeeps ==
  ASSUME SessionInv, NEW e \in Call, Settle(e)
  PROVE  SessionInv'
<1>1. SessionTypeOK'
  BY CallFacts DEF SessionInv, SessionTypeOK, Pcs, Settle, Releases
<1>2. EpochsBegun' /\ PromoterUnused'
  BY CallFacts DEF SessionInv, SessionTypeOK, EpochsBegun, PromoterUnused, Settle, Releases
<1>3. RetriesUnused'
  BY CallFacts DEF SessionInv, SessionTypeOK, RetriesUnused, Settle, Releases
<1>4. ASSUME NEW d \in Call PROVE Fresh(d)'
  BY CallFacts DEF SessionInv, SessionTypeOK, EpochsBegun, Fresh, StaleEpoch, Opening,
     MovedAlone, Settle, Releases
<1>5. ASSUME NEW d \in Call PROVE Accounted(d)'
  BY CallFacts DEF SessionInv, SessionTypeOK, Accounted, Opening, Tracked, LiveSeen, Settle,
     Releases
<1>6. MovedAlone'
  BY CallFacts DEF SessionInv, SessionTypeOK, EpochsBegun, PromoterUnused, MovedAlone,
     StaleEpoch, Opening, Settle, Releases
<1>7. LiveSeen' /\ LeaseHeld'
  BY CallFacts DEF SessionInv, SessionTypeOK, LiveSeen, LeaseHeld, Fresh, StaleEpoch, Opening,
     Tracked, MovedAlone, Settle, Releases
<1> QED
  BY <1>1, <1>2, <1>3, <1>4, <1>5, <1>6, <1>7 DEF SessionInv

LEMMA ChangeSettingsKeeps ==
  ASSUME SessionInv, ChangeSettings
  PROVE  SessionInv'
<1>0. NewGeneration
  BY LiveDisposed DEF SessionInv, ChangeSettings
<1>1. SessionTypeOK'
  BY <1>0, CallFacts DEF SessionInv, SessionTypeOK, Pcs, NewGeneration, ChangeSettings
<1>2. EpochsBegun' /\ PromoterUnused'
  BY <1>0, CallFacts DEF SessionInv, SessionTypeOK, EpochsBegun, PromoterUnused, NewGeneration,
     ChangeSettings
<1>3. RetriesUnused'
  BY <1>0, CallFacts DEF SessionInv, SessionTypeOK, RetriesUnused, NewGeneration,
     ChangeSettings
<1>4. ASSUME NEW d \in Call PROVE Fresh(d)'
  BY <1>0, CallFacts DEF SessionInv, SessionTypeOK, EpochsBegun, Fresh, StaleEpoch, Opening,
     MovedAlone, NewGeneration, ChangeSettings
<1>5. ASSUME NEW d \in Call PROVE Accounted(d)'
  BY <1>0, CallFacts DEF SessionInv, SessionTypeOK, Accounted, Opening, Tracked, LiveSeen,
     NewGeneration, ChangeSettings
<1>6. MovedAlone'
  BY <1>0, CallFacts DEF SessionInv, SessionTypeOK, EpochsBegun, PromoterUnused, MovedAlone,
     StaleEpoch, Opening, NewGeneration, ChangeSettings
<1>7. LiveSeen' /\ LeaseHeld'
  BY <1>0, CallFacts DEF SessionInv, SessionTypeOK, LiveSeen, LeaseHeld, Fresh, StaleEpoch,
     Opening, Tracked, MovedAlone, NewGeneration, ChangeSettings
<1> QED
  BY <1>1, <1>2, <1>3, <1>4, <1>5, <1>6, <1>7 DEF SessionInv

LEMMA PromoteKeeps ==
  ASSUME SessionInv, Promote
  PROVE  SessionInv'
<1>0. NewGeneration
  BY LiveDisposed DEF SessionInv, Promote
<1>1. SessionTypeOK'
  BY <1>0, CallFacts DEF SessionInv, SessionTypeOK, Pcs, NewGeneration, Promote, PastPromotion
<1>2. EpochsBegun' /\ PromoterUnused'
  BY <1>0, CallFacts DEF SessionInv, SessionTypeOK, EpochsBegun, PromoterUnused, NewGeneration,
     Promote, PastPromotion
<1>3. RetriesUnused'
  BY <1>0, CallFacts DEF SessionInv, SessionTypeOK, RetriesUnused, NewGeneration, Promote,
     PastPromotion
<1>4. ASSUME NEW d \in Call PROVE Fresh(d)'
  BY <1>0, CallFacts DEF SessionInv, SessionTypeOK, EpochsBegun, Fresh, StaleEpoch, Opening,
     MovedAlone, NewGeneration, Promote, PastPromotion
<1>5. ASSUME NEW d \in Call PROVE Accounted(d)'
  BY <1>0, CallFacts DEF SessionInv, SessionTypeOK, Accounted, Opening, Tracked, LiveSeen,
     NewGeneration, Promote, PastPromotion
<1>6. MovedAlone'
  BY <1>0, CallFacts DEF SessionInv, SessionTypeOK, EpochsBegun, PromoterUnused, MovedAlone,
     StaleEpoch, Opening, NewGeneration, Promote, PastPromotion
<1>7. LiveSeen' /\ LeaseHeld'
  BY <1>0, CallFacts DEF SessionInv, SessionTypeOK, LiveSeen, LeaseHeld, Fresh, StaleEpoch,
     Opening, Tracked, MovedAlone, NewGeneration, Promote, PastPromotion
<1> QED
  BY <1>1, <1>2, <1>3, <1>4, <1>5, <1>6, <1>7 DEF SessionInv

LEMMA MoveFailsKeeps ==
  ASSUME SessionInv, MoveFails
  PROVE  SessionInv'
<1>1. SessionTypeOK'
  BY CallFacts DEF SessionInv, SessionTypeOK, Pcs, MoveFails
<1>2. EpochsBegun' /\ PromoterUnused'
  BY CallFacts DEF SessionInv, SessionTypeOK, EpochsBegun, PromoterUnused, MoveFails
<1>3. RetriesUnused'
  BY CallFacts DEF SessionInv, SessionTypeOK, RetriesUnused, MoveFails
<1>4. ASSUME NEW d \in Call PROVE Fresh(d)'
  BY CallFacts DEF SessionInv, SessionTypeOK, EpochsBegun, Fresh, StaleEpoch, Opening,
     MovedAlone, MoveFails
<1>5. ASSUME NEW d \in Call PROVE Accounted(d)'
  BY CallFacts DEF SessionInv, SessionTypeOK, Accounted, Opening, Tracked, LiveSeen, MoveFails
<1>6. MovedAlone'
  BY CallFacts DEF SessionInv, SessionTypeOK, EpochsBegun, PromoterUnused, MovedAlone,
     StaleEpoch, Opening, MoveFails
<1>7. LiveSeen' /\ LeaseHeld'
  BY CallFacts DEF SessionInv, SessionTypeOK, LiveSeen, LeaseHeld, Fresh, StaleEpoch, Opening,
     Tracked, MovedAlone, MoveFails
<1> QED
  BY <1>1, <1>2, <1>3, <1>4, <1>5, <1>6, <1>7 DEF SessionInv

LEMMA MoveDoneKeeps ==
  ASSUME SessionInv, MoveDone
  PROVE  SessionInv'
<1>1. SessionTypeOK'
  BY CallFacts DEF SessionInv, SessionTypeOK, Pcs, MoveDone
<1>2. EpochsBegun' /\ PromoterUnused'
  BY CallFacts DEF SessionInv, SessionTypeOK, EpochsBegun, PromoterUnused, MoveDone
<1>3. RetriesUnused'
  BY CallFacts DEF SessionInv, SessionTypeOK, RetriesUnused, MoveDone
<1>4. ASSUME NEW d \in Call PROVE Fresh(d)'
  BY CallFacts DEF SessionInv, SessionTypeOK, EpochsBegun, Fresh, StaleEpoch, Opening,
     MovedAlone, MoveDone
<1>5. ASSUME NEW d \in Call PROVE Accounted(d)'
  BY CallFacts DEF SessionInv, SessionTypeOK, Accounted, Opening, Tracked, LiveSeen,
     MoveDone
<1>6. MovedAlone'
  BY CallFacts DEF SessionInv, SessionTypeOK, EpochsBegun, PromoterUnused, MovedAlone,
     StaleEpoch, Opening, MoveDone
<1>7. LiveSeen' /\ LeaseHeld'
  BY CallFacts DEF SessionInv, SessionTypeOK, LiveSeen, LeaseHeld, Fresh, StaleEpoch,
     Opening, Tracked, MovedAlone, MoveDone
<1> QED
  BY <1>1, <1>2, <1>3, <1>4, <1>5, <1>6, <1>7 DEF SessionInv

LEMMA MoveFinalizedKeeps ==
  ASSUME SessionInv, MoveFinalized
  PROVE  SessionInv'
<1>0. /\ pc' \in [Call -> Pcs] /\ awaits' \in [Call -> Call \cup {None}]
      /\ pc[<<Promoter, 0>>] = "unused"
      /\ pc'[<<Promoter, 0>>] \in {"unused", "failed", "promotion", "retirement"}
      /\ \A d \in Call : d # <<Promoter, 0>> => pc'[d] = pc[d]
  <2>1. pc[<<Promoter, 0>>] = "unused"
    BY CallFacts DEF SessionInv, PromoterUnused, MoveFinalized
  <2>2. CASE UNCHANGED <<pc, awaits>>
    BY <2>1, <2>2 DEF SessionInv, SessionTypeOK
  <2>3. CASE Enter(<<Promoter, 0>>, pc, shutdown)
    <3>1. EntersFrom(<<Promoter, 0>>, pc)
      BY <2>3, CallFacts, Entered DEF SessionInv, SessionTypeOK
    <3> QED
      BY <2>1, <3>1 DEF EntersFrom
  <2> QED
    BY <2>2, <2>3 DEF MoveFinalized
<1>1. SessionTypeOK'
  BY <1>0, CallFacts DEF SessionInv, SessionTypeOK, Pcs, MoveFinalized
<1>2. EpochsBegun' /\ PromoterUnused'
  BY <1>0, CallFacts DEF SessionInv, SessionTypeOK, EpochsBegun, PromoterUnused, MoveFinalized
<1>3. RetriesUnused'
  BY <1>0, CallFacts DEF SessionInv, SessionTypeOK, RetriesUnused, MoveFinalized
<1>4. ASSUME NEW d \in Call PROVE Fresh(d)'
  BY <1>0, CallFacts DEF SessionInv, SessionTypeOK, EpochsBegun, Fresh, StaleEpoch, Opening,
     MovedAlone, MoveFinalized
<1>5. ASSUME NEW d \in Call PROVE Accounted(d)'
  BY <1>0, CallFacts DEF SessionInv, SessionTypeOK, Accounted, Opening, Tracked, LiveSeen,
     MoveFinalized
<1>6. MovedAlone'
  BY <1>0, CallFacts DEF SessionInv, SessionTypeOK, EpochsBegun, PromoterUnused, MovedAlone,
     StaleEpoch, Opening, MoveFinalized
<1>7. LiveSeen' /\ LeaseHeld'
  BY <1>0, CallFacts DEF SessionInv, SessionTypeOK, LiveSeen, LeaseHeld, Fresh, StaleEpoch,
     Opening, Tracked, MovedAlone, MoveFinalized
<1> QED
  BY <1>1, <1>2, <1>3, <1>4, <1>5, <1>6, <1>7 DEF SessionInv

LEMMA PromotionDoneKeeps ==
  ASSUME SessionInv, PromotionDone
  PROVE  SessionInv'
<1>1. SessionTypeOK'
  BY CallFacts DEF SessionInv, SessionTypeOK, Pcs, PromotionDone, Opened
<1>2. EpochsBegun' /\ PromoterUnused'
  BY CallFacts DEF SessionInv, SessionTypeOK, EpochsBegun, PromoterUnused, PromotionDone,
     Opened
<1>3. RetriesUnused'
  BY CallFacts DEF SessionInv, SessionTypeOK, RetriesUnused, PromotionDone, Opened
<1>4. ASSUME NEW d \in Call PROVE Fresh(d)'
  BY CallFacts DEF SessionInv, SessionTypeOK, EpochsBegun, Fresh, StaleEpoch, Opening,
     MovedAlone, PromotionDone, Opened
<1>5. ASSUME NEW d \in Call PROVE Accounted(d)'
  BY CallFacts DEF SessionInv, SessionTypeOK, Accounted, Opening, Tracked, LiveSeen,
     PromotionDone, Opened
<1>6. MovedAlone'
  BY CallFacts DEF SessionInv, SessionTypeOK, EpochsBegun, PromoterUnused, MovedAlone,
     StaleEpoch, Opening, PromotionDone, Opened
<1>7. LiveSeen' /\ LeaseHeld'
  BY CallFacts DEF SessionInv, SessionTypeOK, LiveSeen, LeaseHeld, Fresh, StaleEpoch, Opening,
     Tracked, MovedAlone, PromotionDone, Opened
<1> QED
  BY <1>1, <1>2, <1>3, <1>4, <1>5, <1>6, <1>7 DEF SessionInv

LEMMA BeginRemovalKeeps ==
  ASSUME SessionInv, BeginRemoval
  PROVE  SessionInv'
<1>1. SessionTypeOK'
  BY CallFacts DEF SessionInv, SessionTypeOK, Pcs, BeginRemoval
<1>2. EpochsBegun' /\ PromoterUnused'
  BY CallFacts DEF SessionInv, SessionTypeOK, EpochsBegun, PromoterUnused, BeginRemoval
<1>3. RetriesUnused'
  BY CallFacts DEF SessionInv, SessionTypeOK, RetriesUnused, BeginRemoval
<1>4. ASSUME NEW d \in Call PROVE Fresh(d)'
  BY CallFacts DEF SessionInv, SessionTypeOK, EpochsBegun, Fresh, StaleEpoch, Opening,
     MovedAlone, BeginRemoval
<1>5. ASSUME NEW d \in Call PROVE Accounted(d)'
  BY CallFacts DEF SessionInv, SessionTypeOK, Accounted, Opening, Tracked, LiveSeen,
     BeginRemoval
<1>6. MovedAlone'
  BY CallFacts DEF SessionInv, SessionTypeOK, EpochsBegun, PromoterUnused, MovedAlone,
     StaleEpoch, Opening, BeginRemoval
<1>7. LiveSeen' /\ LeaseHeld'
  BY CallFacts DEF SessionInv, SessionTypeOK, LiveSeen, LeaseHeld, Fresh, StaleEpoch, Opening,
     Tracked, MovedAlone, BeginRemoval
<1> QED
  BY <1>1, <1>2, <1>3, <1>4, <1>5, <1>6, <1>7 DEF SessionInv

LEMMA ArchiveKeeps ==
  ASSUME SessionInv, Archive
  PROVE  SessionInv'
<1>0. NewGeneration
  BY LiveDisposed DEF SessionInv, Archive
<1>1. SessionTypeOK'
  BY <1>0, CallFacts DEF SessionInv, SessionTypeOK, Pcs, NewGeneration, Archive
<1>2. EpochsBegun' /\ PromoterUnused'
  BY <1>0, CallFacts DEF SessionInv, SessionTypeOK, EpochsBegun, PromoterUnused, NewGeneration,
     Archive
<1>3. RetriesUnused'
  BY <1>0, CallFacts DEF SessionInv, SessionTypeOK, RetriesUnused, NewGeneration, Archive
<1>4. ASSUME NEW d \in Call PROVE Fresh(d)'
  BY <1>0, CallFacts DEF SessionInv, SessionTypeOK, EpochsBegun, Fresh, StaleEpoch, Opening,
     MovedAlone, NewGeneration, Archive
<1>5. ASSUME NEW d \in Call PROVE Accounted(d)'
  BY <1>0, CallFacts DEF SessionInv, SessionTypeOK, Accounted, Opening, Tracked, LiveSeen,
     NewGeneration, Archive
<1>6. MovedAlone'
  BY <1>0, CallFacts DEF SessionInv, SessionTypeOK, EpochsBegun, PromoterUnused, MovedAlone,
     StaleEpoch, Opening, NewGeneration, Archive
<1>7. LiveSeen' /\ LeaseHeld'
  BY <1>0, CallFacts DEF SessionInv, SessionTypeOK, LiveSeen, LeaseHeld, Fresh, StaleEpoch,
     Opening, Tracked, MovedAlone, NewGeneration, Archive
<1> QED
  BY <1>1, <1>2, <1>3, <1>4, <1>5, <1>6, <1>7 DEF SessionInv

LEMMA RestoreTaskKeeps ==
  ASSUME SessionInv, RestoreTask
  PROVE  SessionInv'
<1>1. SessionTypeOK'
  BY CallFacts DEF SessionInv, SessionTypeOK, Pcs, RestoreTask
<1>2. EpochsBegun' /\ PromoterUnused'
  BY CallFacts DEF SessionInv, SessionTypeOK, EpochsBegun, PromoterUnused, RestoreTask
<1>3. RetriesUnused'
  BY CallFacts DEF SessionInv, SessionTypeOK, RetriesUnused, RestoreTask
<1>4. ASSUME NEW d \in Call PROVE Fresh(d)'
  BY CallFacts DEF SessionInv, SessionTypeOK, EpochsBegun, Fresh, StaleEpoch, Opening,
     MovedAlone, RestoreTask
<1>5. ASSUME NEW d \in Call PROVE Accounted(d)'
  BY CallFacts DEF SessionInv, SessionTypeOK, Accounted, Opening, Tracked, LiveSeen,
     RestoreTask
<1>6. MovedAlone'
  BY CallFacts DEF SessionInv, SessionTypeOK, EpochsBegun, PromoterUnused, MovedAlone,
     StaleEpoch, Opening, RestoreTask
<1>7. LiveSeen' /\ LeaseHeld'
  BY CallFacts DEF SessionInv, SessionTypeOK, LiveSeen, LeaseHeld, Fresh, StaleEpoch, Opening,
     Tracked, MovedAlone, RestoreTask
<1> QED
  BY <1>1, <1>2, <1>3, <1>4, <1>5, <1>6, <1>7 DEF SessionInv

LEMMA DestroyDisposeKeeps ==
  ASSUME SessionInv, DestroyDispose
  PROVE  SessionInv'
<1>0. NewGeneration
  <2>1. DisposeLive(2) \/ DisposeLive(3)
    BY DEF DestroyDispose
  <2> QED
    BY <2>1, LiveDisposed DEF SessionInv
<1>1. SessionTypeOK'
  BY <1>0, CallFacts DEF SessionInv, SessionTypeOK, Pcs, NewGeneration, DestroyDispose
<1>2. EpochsBegun' /\ PromoterUnused'
  BY <1>0, CallFacts DEF SessionInv, SessionTypeOK, EpochsBegun, PromoterUnused, NewGeneration,
     DestroyDispose
<1>3. RetriesUnused'
  BY <1>0, CallFacts DEF SessionInv, SessionTypeOK, RetriesUnused, NewGeneration,
     DestroyDispose
<1>4. ASSUME NEW d \in Call PROVE Fresh(d)'
  BY <1>0, CallFacts DEF SessionInv, SessionTypeOK, EpochsBegun, Fresh, StaleEpoch, Opening,
     MovedAlone, NewGeneration, DestroyDispose
<1>5. ASSUME NEW d \in Call PROVE Accounted(d)'
  BY <1>0, CallFacts DEF SessionInv, SessionTypeOK, Accounted, Opening, Tracked, LiveSeen,
     NewGeneration, DestroyDispose
<1>6. MovedAlone'
  BY <1>0, CallFacts DEF SessionInv, SessionTypeOK, EpochsBegun, PromoterUnused, MovedAlone,
     StaleEpoch, Opening, NewGeneration, DestroyDispose
<1>7. LiveSeen' /\ LeaseHeld'
  BY <1>0, CallFacts DEF SessionInv, SessionTypeOK, LiveSeen, LeaseHeld, Fresh, StaleEpoch,
     Opening, Tracked, MovedAlone, NewGeneration, DestroyDispose
<1> QED
  BY <1>1, <1>2, <1>3, <1>4, <1>5, <1>6, <1>7 DEF SessionInv

LEMMA DestroyKeeps ==
  ASSUME SessionInv, Destroy
  PROVE  SessionInv'
<1>0. NewGeneration
  BY LiveDisposed DEF SessionInv, Destroy
<1>1. SessionTypeOK'
  BY <1>0, CallFacts DEF SessionInv, SessionTypeOK, Pcs, NewGeneration, Destroy, Drained
<1>2. EpochsBegun' /\ PromoterUnused'
  BY <1>0, CallFacts DEF SessionInv, SessionTypeOK, EpochsBegun, PromoterUnused, NewGeneration,
     Destroy, Drained
<1>3. RetriesUnused'
  BY <1>0, CallFacts DEF SessionInv, SessionTypeOK, RetriesUnused, NewGeneration, Destroy,
     Drained
<1>4. ASSUME NEW d \in Call PROVE Fresh(d)'
  BY <1>0, CallFacts DEF SessionInv, SessionTypeOK, EpochsBegun, Fresh, StaleEpoch, Opening,
     MovedAlone, NewGeneration, Destroy, Drained
<1>5. ASSUME NEW d \in Call PROVE Accounted(d)'
  BY <1>0, CallFacts DEF SessionInv, SessionTypeOK, Accounted, Opening, Tracked, LiveSeen,
     NewGeneration, Destroy, Drained
<1>6. MovedAlone'
  BY <1>0, CallFacts DEF SessionInv, SessionTypeOK, EpochsBegun, PromoterUnused, MovedAlone,
     StaleEpoch, Opening, NewGeneration, Destroy, Drained
<1>7. LiveSeen' /\ LeaseHeld'
  BY <1>0, CallFacts DEF SessionInv, SessionTypeOK, LiveSeen, LeaseHeld, Fresh, StaleEpoch,
     Opening, Tracked, MovedAlone, NewGeneration, Destroy, Drained
<1> QED
  BY <1>1, <1>2, <1>3, <1>4, <1>5, <1>6, <1>7 DEF SessionInv

LEMMA SessionStepInv == SessionInv /\ [SessionNext]_sessionVars => SessionInv'
<1> SUFFICES ASSUME SessionInv, [SessionNext]_sessionVars PROVE SessionInv'
  OBVIOUS
<1>1. CASE Continuation
  BY <1>1, PassPromotionKeeps, DecideKeeps, JoinKeeps, StartAttemptKeeps, CheckAttachedKeeps,
     NestedDoneKeeps, SettleKeeps, PromotionDoneKeeps, DestroyKeeps DEF Continuation
<1>2. CASE Completion
  BY <1>2, AcquireLeaseKeeps, AttemptFailsKeeps, CreatedKeeps, DiscardKeeps, AttachKeeps,
     AccountFailureKeeps, ShutdownDoneKeeps, MoveFailsKeeps, MoveDoneKeeps,
     MoveFinalizedKeeps, ArchiveKeeps, DestroyDisposeKeeps DEF Completion
<1>3. CASE Request
  BY <1>3, EnsureLiveKeeps, ChangeSettingsKeeps, PromoteKeeps, BeginRemovalKeeps, RestoreTaskKeeps
     DEF Request
<1>4. CASE UNCHANGED sessionVars
  BY <1>4 DEF sessionVars, SessionInv, SessionTypeOK, EpochsBegun, RetriesUnused, PromoterUnused,
     Fresh, StaleEpoch, Accounted, MovedAlone, LiveSeen, LeaseHeld
<1> QED
  BY <1>1, <1>2, <1>3, <1>4 DEF SessionNext, Event

LEMMA SessionSpecInv == SessionSpec => []SessionInv
BY SessionInitInv, SessionStepInv, PTL DEF SessionSpec

\* The session that callers are handed is of the task's present settings, and a task that
\* is archived or deleted has none, however late an attempt ends (isStaleEnsureEpoch,
\* resolveAttachedSessionAction, disposeLive).
THEOREM LiveIsCurrent == SessionSpec => []LiveCurrent
<1>1. SessionInv => LiveCurrent
  BY DEF SessionInv, LiveSeen, LiveCurrent, GoneStaysGone
<1> QED
  BY <1>1, SessionSpecInv, PTL

\* However the attempts end, the initialization lease is given back; and no session is
\* left open that nobody can reach, unless two attempts overlapped or an account runtime
\* failed (ensureLive's two finally blocks, disposeSessionBestEffort).
THEOREM NothingIsLeftBehind == SessionSpec => []NothingLeftBehind
<1>1. ASSUME SessionInv, Quiescent PROVE held = None
  BY <1>1 DEF SessionInv, SessionTypeOK, LeaseHeld, Quiescent, Tracked, Opening
<1>2. ASSUME SessionInv, Quiescent, "overlap" \notin races, NEW e \in Call,
             e[1] \notin AccountFails, session[e] = "open"
      PROVE  e = live
  BY <1>2 DEF SessionInv, Accounted, Quiescent
<1>3. SessionInv => NothingLeftBehind
  BY <1>1, <1>2 DEF NothingLeftBehind, LeaseReturned, SessionsAccounted
<1> QED
  BY <1>3, SessionSpecInv, PTL

\* An attempt that began before the settings changed, or the task was moved, never writes
\* the old ones back, unless it asked for the promotion to wait for before there was one.
THEOREM SettingsAreKept == SessionSpec => SettingsKept
<1>1. ASSUME SessionInv, [SessionNext]_sessionVars, races \cap {"promotion"} = {}
      PROVE  settings' >= settings
  <2>1. ASSUME NEW e \in Call, Created(e) PROVE settings' >= settings
    BY <1>1, <2>1 DEF SessionInv, SessionTypeOK, Fresh, StaleEpoch, Opening, Created
  <2>2. CASE ChangeSettings \/ MoveDone
    BY <1>1, <2>2 DEF SessionInv, SessionTypeOK, ChangeSettings, MoveDone
  <2>3. ASSUME UNCHANGED settings PROVE settings' >= settings
    BY <1>1, <2>3 DEF SessionInv, SessionTypeOK
  <2>4. CASE Continuation
    BY <2>3, <2>4 DEF Continuation, PassPromotion, Decide, Join, StartAttempt, CheckAttached,
       NestedDone, Settle, PromotionDone, Destroy
  <2>5. CASE Completion
    BY <2>1, <2>2, <2>3, <2>5 DEF Completion, AcquireLease, AttemptFails, Discard, Attach,
       AccountFailure, ShutdownDone, MoveFails, MoveFinalized, Archive, DestroyDispose
  <2>6. CASE Request
    BY <2>2, <2>3, <2>6 DEF Request, EnsureLive, Promote, BeginRemoval, RestoreTask
  <2>7. CASE UNCHANGED sessionVars
    BY <2>3, <2>7 DEF sessionVars
  <2> QED
    BY <1>1, <2>4, <2>5, <2>6, <2>7 DEF SessionNext, Event
<1>2. SessionInv /\ [SessionNext]_sessionVars =>
        [races \cap {"promotion"} = {} => settings' >= settings]_sessionVars
  BY <1>1
<1> QED
  BY <1>2, SessionSpecInv, PTL DEF SessionSpec, SettingsKept
=============================================================================
