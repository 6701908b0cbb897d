--------------------------- MODULE MCReclaimLock ---------------------------
(* Two pids, one of them used by two incarnations in turn. *)
EXTENDS ReclaimLock, TLC

CONSTANTS a1, a2, b1, b2

MCProc3 == {a1, a2, b1}
MCPid3  == [p \in MCProc3 |-> IF p = b1 THEN 2 ELSE 1]

MCProc4 == {a1, a2, b1, b2}
MCPid4  == [p \in MCProc4 |-> IF p \in {a1, a2} THEN 1 ELSE 2]
=============================================================================
