-------------------------- MODULE ExclusiveSection --------------------------
(***************************************************************************)
(* What the reclaim lock of backend/core/task-runtime-lease.mjs promises   *)
(* to the two sections it guards: one process at a time is inside, and the *)
(* death of the process inside lets another one in.                        *)
(***************************************************************************)
CONSTANT Proc

VARIABLES
  inside,  \* the processes in the section
  gone     \* the processes that died

vars == <<inside, gone>>

Init == inside = {} /\ gone = {}

Enter(p) ==
  /\ p \notin gone
  /\ inside = {}
  /\ inside' = {p}
  /\ UNCHANGED gone

Leave(p) ==
  /\ p \in inside
  /\ inside' = inside \ {p}
  /\ UNCHANGED gone

Die(p) ==
  /\ p \notin gone
  /\ gone' = gone \cup {p}
  /\ inside' = inside \ {p}

Next == \E p \in Proc : Enter(p) \/ Leave(p) \/ Die(p)

Spec == Init /\ [][Next]_vars
=============================================================================
