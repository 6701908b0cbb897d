-------------------------- MODULE MCPendingPrompts --------------------------
EXTENDS PendingPrompts, TLC

CONSTANTS c1, c2, c3, c4, c5, s1, s2, s3, t1, t2, a, b

\* Two sessions of one task and one of another; ids that are sent again, that
\* collide within the task and that collide across tasks.
Sessions == s1 :> t1 @@ s2 :> t1 @@ s3 :> t2
Senders  == [c \in Call |-> IF c \in {c1, c2} THEN s1 ELSE IF c = c5 THEN s3 ELSE s2]
Ids      == [c \in Call |-> IF c \in {c1, c2, c3} THEN a ELSE b]
=============================================================================
