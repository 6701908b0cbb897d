-------------------------- MODULE MCRestartResume --------------------------
EXTENDS RestartResume

CONSTANTS b1, b2, b3, t1, t2
=============================================================================
