--------------------------- MODULE MCRuntimeOwner ---------------------------
EXTENDS RuntimeOwner, TLC

CONSTANTS p1, p2, p3

OwnPid    == [p \in Proc |-> p]
SharedPid == [p \in Proc |-> IF p = p2 THEN p1 ELSE p]
=============================================================================
