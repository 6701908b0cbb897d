---------------------------- MODULE AtomicStore ----------------------------
(***************************************************************************)
(* What the application store promises its callers (app-store.mjs): every  *)
(* update is applied in one step to the records as they are at that time,  *)
(* and a file that cannot be interpreted is never replaced by an update.   *)
(***************************************************************************)
EXTENDS Naturals

CONSTANTS Records

VARIABLES
    value,     \* the records
    damaged,   \* nobody can read them
    restores   \* times the file was replaced by hand

vars == <<value, damaged, restores>>

Toggle(s, r) == (s \ {r}) \cup ({r} \ s)

Init == value = {} /\ damaged = FALSE /\ restores = 0

\* A record is added, or taken away.
Update ==
    /\ ~damaged
    /\ \E r \in Records : value' = Toggle(value, r)
    /\ UNCHANGED <<damaged, restores>>

\* Somebody restores, damages or removes the file.
Restore ==
    /\ value' \in SUBSET Records /\ damaged' \in BOOLEAN
    /\ restores' = restores + 1

Next == Update \/ Restore
Spec == Init /\ [][Next]_vars
=============================================================================
