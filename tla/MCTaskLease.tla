---------------------------- MODULE MCTaskLease ----------------------------
EXTENDS TaskLease

CONSTANTS w1, w2, w3

\* Workers that keep the pace of their timers, the heartbeats of one failing, as the
\* runtime has them: nobody listens.  w3 runs under the pid of w1.
Punctual ==
  [pid |-> [w \in Worker |-> IF w = w3 THEN w1 ELSE w], stallAt |-> {},
   starting |-> Worker, failing |-> {w1}, listening |-> {}, reconciling |-> {}]

\* A worker that may listen, and the one that follows it under its pid and reconciles.
Replaced == [Punctual EXCEPT !.starting = {w1, w3}, !.listening = {w1}, !.reconciling = {w3}]

\* Workers under pids of their own, held up in their session writes; one reconciles orphans.
Stalling ==
  [Punctual EXCEPT !.pid = [w \in Worker |-> w], !.starting = {w1, w2}, !.failing = {},
                   !.stallAt = {"write"}, !.reconciling = {w2}]

MCSetups == {Punctual, Replaced, Stalling}
=============================================================================
