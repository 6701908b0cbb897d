-------------------------- MODULE MCDirectoryLock --------------------------
EXTENDS DirectoryLock, TLC

CONSTANTS p1, p2, p3

\* Every incarnation under a pid of its own, or p2 under the pid of p1.
OwnPid    == [p \in Proc |-> p]
SharedPid == [p \in Proc |-> IF p = p2 THEN p1 ELSE p]
=============================================================================
