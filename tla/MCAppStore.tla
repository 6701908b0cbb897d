----------------------------- MODULE MCAppStore -----------------------------
(* Two processes over a store of two records whose stamps come back.       *)
EXTENDS AppStore

CONSTANTS p1, p2, r1, r2, s1, s2
=============================================================================
