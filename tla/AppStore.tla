------------------------------ MODULE AppStore ------------------------------
(***************************************************************************)
(* The application store (app-store.mjs): one JSON file, updated under the *)
(* lock of FileLock and read without it through a cache in every process,  *)
(* which is served as long as the file looks the same (modification and    *)
(* change time, size, inode: here one stamp, which can come back).  An     *)
(* update changes the cached store in place before it writes it.           *)
(*                                                                         *)
(* The records are a set and an update adds or removes one; the backups,   *)
(* whose failures change nothing, are left out.  A process runs one call   *)
(* at a time; the file is replaced by hand only between updates.           *)
(***************************************************************************)
EXTENDS FileLock

CONSTANTS
    Readers,   \* processes that also read outside an update
    Records,
    Stamps

ASSUME StoreAssumption == None \notin Stamps /\ Readers \subseteq Procs

VARIABLES
    file,      \* the store: absent, good or damaged, its records and its stamp
    cache,     \* per process: the text it was read from, the store, the stamp
    at,        \* per process: how far its update is
    buffer,    \* per process: the store it is about to write
    loading,   \* per process: the stamp its read began with
    collided,  \* history: the file has again had the stamp a process keeps
    forgetful, \* the second look of the update has failed
    lapses,    \* history: updates written from a store taken for empty
    restores

storeVars == <<file, cache, at, buffer, loading, collided, forgetful, lapses, restores>>
vars == <<lockVars, storeVars>>

Toggle(s, r) == (s \ {r}) \cup ({r} \ s)

NoCache == [there |-> FALSE, raw |-> {}, value |-> {}, stamp |-> None]
Cached(s, stamp) == [there |-> TRUE, raw |-> s, value |-> s, stamp |-> stamp]
There == file.state # "absent"

Init ==
    /\ LockInit
    /\ file = [state |-> "absent", records |-> {}, stamp |-> None]
    /\ cache = [p \in Procs |-> NoCache]
    /\ at = [p \in Procs |-> "no"]
    /\ buffer = [p \in Procs |-> {}]
    /\ loading = [p \in Procs |-> None]
    /\ collided = {}
    /\ forgetful = [p \in Procs |-> FALSE]
    /\ lapses = 0 /\ restores = 0

SetCache(p, c) == cache' = [cache EXCEPT ![p] = c] /\ collided' = collided \ {p}
Step(p, s) == at' = [at EXCEPT ![p] = s]

\* The same text keeps the store that is cached and takes the new stamp.
Loaded(p, stamp) ==
    IF cache[p].there /\ cache[p].raw = file.records
    THEN [cache[p] EXCEPT !.stamp = stamp] ELSE Cached(file.records, stamp)

\* The file is replaced by another: its stamp differs from the one it replaces.
Replace(state, records) ==
    \E s \in Stamps \ {file.stamp} :
       /\ file' = [state |-> state, records |-> records, stamp |-> s]
       /\ collided' = collided \cup {p \in Procs : s \in {cache[p].stamp, loading[p]}}

-----------------------------------------------------------------------------
(* Reads without the lock: the stamp first, then the text                  *)

Hit(p) == cache[p].there /\ cache[p].stamp = file.stamp

ReadBegins(p) ==
    /\ p \in Readers /\ pc[p] = "idle" /\ loading[p] = None
    /\ There /\ ~Hit(p)
    /\ loading' = [loading EXCEPT ![p] = file.stamp]
    /\ UNCHANGED <<lockVars, file, cache, at, buffer, collided, forgetful, lapses, restores>>

\* No file: an empty store, and nothing is cached.
ReadMissing(p) ==
    /\ p \in Readers /\ pc[p] = "idle" /\ loading[p] = None
    /\ ~There /\ cache[p].there
    /\ SetCache(p, NoCache)
    /\ UNCHANGED <<lockVars, file, at, buffer, loading, forgetful, lapses, restores>>

ReadEnds(p) ==
    /\ loading[p] # None
    /\ SetCache(p, IF file.state = "good" THEN Loaded(p, loading[p]) ELSE NoCache)
    /\ loading' = [loading EXCEPT ![p] = None]
    /\ UNCHANGED <<lockVars, file, at, buffer, forgetful, lapses, restores>>

ReadFails(p) ==
    /\ loading[p] # None /\ Fault
    /\ SetCache(p, NoCache)
    /\ loading' = [loading EXCEPT ![p] = None]
    /\ UNCHANGED <<sql, dir, reclaim, pc, file, at, buffer, forgetful, lapses, restores>>

-----------------------------------------------------------------------------
(* mutate: the update under the lock                                       *)

Outside == UNCHANGED <<sql, dir, reclaim>>

\* The update throws: nothing of the store it has changed stays cached.
KeepsCache(p) == cache[p]                                         \* (mutant)
CacheAfterThrow(p) == NoCache

Throws(p) ==
    /\ SetCache(p, CacheAfterThrow(p))
    /\ GoTo(p, "out")
    /\ Step(p, "no")

\* A strict and fresh read: what is there must be readable.
FreshUnlessHit(p) == ~Hit(p)                                      \* (mutant)
Fresh(p) == TRUE

StrictRead(p) ==
    /\ pc[p] = "in" /\ at[p] = "no"
    /\ file.state # "damaged"
    /\ SetCache(p, IF ~There THEN NoCache
                   ELSE IF Fresh(p) THEN Loaded(p, file.stamp) ELSE cache[p])
    /\ Step(p, "look")
    /\ UNCHANGED <<lockVars, file, buffer, loading, forgetful, lapses, restores>>

StrictReadThrows(p) ==
    /\ pc[p] = "in" /\ at[p] = "no"
    /\ \/ file.state = "damaged" /\ UNCHANGED faults
       \/ Fault
    /\ Throws(p)
    /\ Outside
    /\ UNCHANGED <<file, buffer, loading, forgetful, lapses, restores>>

\* The update reads again, through the cache, and changes what it is given.
Change(p, store) ==
    /\ \E r \in Records : buffer' = [buffer EXCEPT ![p] = Toggle(store, r)]
    /\ Step(p, "write")

Look(p) ==
    /\ at[p] = "look"
    /\ Change(p, IF There THEN cache[p].value ELSE {})
    /\ cache' = IF There THEN [cache EXCEPT ![p].value = buffer'[p]] ELSE cache
    /\ UNCHANGED <<lockVars, file, loading, collided, forgetful, lapses, restores>>

\* This read is not strict: if it fails, the store is taken for empty.
LookFails(p) ==
    /\ at[p] = "look" /\ Fault
    /\ Change(p, {})
    /\ SetCache(p, NoCache)
    /\ forgetful' = [forgetful EXCEPT ![p] = TRUE]
    /\ Outside
    /\ UNCHANGED <<pc, file, loading, lapses, restores>>

\* There is nothing to change, or the update throws before it writes.
NoChange(p) ==
    /\ at[p] = "look"
    /\ GoTo(p, "out") /\ Step(p, "no")
    /\ UNCHANGED <<cache, collided>> \/ SetCache(p, NoCache)
    /\ Outside
    /\ UNCHANGED <<faults, file, buffer, loading, forgetful, lapses, restores>>

\* writeStore: a temporary file renamed over the store.
Write(p) ==
    /\ at[p] = "write"
    /\ Replace("good", buffer[p])
    /\ lapses' = IF forgetful[p] THEN lapses + 1 ELSE lapses
    /\ forgetful' = [forgetful EXCEPT ![p] = FALSE]
    /\ Step(p, "stat")
    /\ UNCHANGED <<lockVars, cache, buffer, loading, restores>>

WriteFails(p) ==
    /\ at[p] = "write" /\ Fault
    /\ Throws(p)
    /\ forgetful' = [forgetful EXCEPT ![p] = FALSE]
    /\ buffer' = [buffer EXCEPT ![p] = {}]
    /\ Outside
    /\ UNCHANGED <<file, loading, lapses, restores>>

\* The stamp of what was written; without it the next read refreshes.
Written(p) ==
    /\ at[p] = "stat"
    /\ \/ SetCache(p, Cached(buffer[p], file.stamp)) /\ UNCHANGED faults
       \/ SetCache(p, Cached(buffer[p], None)) /\ Fault
    /\ GoTo(p, "out") /\ Step(p, "no")
    /\ buffer' = [buffer EXCEPT ![p] = {}]
    /\ Outside
    /\ UNCHANGED <<file, loading, forgetful, lapses, restores>>

-----------------------------------------------------------------------------
\* A copy or restore tool, or a user, replaces the file (counted as a fault).
Restore ==
    /\ Fault /\ restores' = restores + 1
    /\ \A p \in Procs : at[p] = "no"
    /\ \/ \E s \in SUBSET Records : Replace("good", s)
       \/ Replace("damaged", {})
       \/ /\ file' = [state |-> "absent", records |-> {}, stamp |-> None]
          /\ UNCHANGED collided
    /\ Outside
    /\ UNCHANGED <<pc, cache, at, buffer, loading, forgetful, lapses>>

Crash(p) ==
    /\ LockCrash(p)
    /\ SetCache(p, NoCache) /\ Step(p, "no")
    /\ buffer' = [buffer EXCEPT ![p] = {}]
    /\ loading' = [loading EXCEPT ![p] = None]
    /\ forgetful' = [forgetful EXCEPT ![p] = FALSE]
    /\ UNCHANGED <<file, lapses, restores>>

Begin(p) == LockBegins(p) /\ loading[p] = None /\ UNCHANGED storeVars

UpdateStep(p) ==
    \/ LockStep(p) /\ UNCHANGED storeVars
    \/ StrictRead(p) \/ StrictReadThrows(p) \/ Look(p) \/ LookFails(p) \/ NoChange(p)
    \/ Write(p) \/ WriteFails(p) \/ Written(p)

ReadStep(p) == ReadEnds(p) \/ ReadFails(p)

Next ==
    \/ \E p \in Procs :
          \/ Begin(p) \/ UpdateStep(p) \/ ReadBegins(p) \/ ReadMissing(p) \/ ReadStep(p)
          \/ Crash(p)
    \/ (DirAges \/ ReclaimAges) /\ UNCHANGED storeVars
    \/ Restore

\* Calls run to their end, time passes (it does not wait for the
\* transaction to be free), and somebody goes on to update.
Fairness ==
    /\ \A p \in Procs : WF_vars(UpdateStep(p)) /\ WF_vars(ReadStep(p))
    /\ SF_vars(\E p \in Procs : Begin(p))
    /\ SF_vars((DirAges \/ ReclaimAges) /\ UNCHANGED storeVars)

Spec == Init /\ [][Next]_vars
LiveSpec == Spec /\ Fairness

-----------------------------------------------------------------------------
TypeOK ==
    /\ LockTypeOK
    /\ file \in [state : {"absent", "good", "damaged"}, records : SUBSET Records,
                 stamp : Stamps \cup {None}]
    /\ cache \in [Procs -> [there : BOOLEAN, raw : SUBSET Records, value : SUBSET Records,
                            stamp : Stamps \cup {None}]]
    /\ at \in [Procs -> {"no", "look", "write", "stat"}]
    /\ buffer \in [Procs -> SUBSET Records]
    /\ loading \in [Procs -> Stamps \cup {None}]
    /\ collided \subseteq Procs
    /\ forgetful \in [Procs -> BOOLEAN]
    /\ lapses \in Nat /\ restores \in Nat

\* A cache that would be served holds what is in the file, whoever wrote it and
\* between whichever calls, unless the file's stamp has come back; nothing of a
\* failed update is ever served (readStore, writeStore).
CacheCurrent ==
    /\ TypeOK
    /\ \A p \in Procs : pc[p] = "idle" /\ There /\ Hit(p) =>
          /\ cache[p].value = cache[p].raw
          /\ p \notin collided => file.state = "good" /\ cache[p].value = file.records

Atomic == INSTANCE AtomicStore WITH value <- file.records, damaged <- (file.state = "damaged")

\* A step that writes what was taken for an empty store, and no other.
Lapse == lapses' # lapses

\* Every update changes the records that are stored at that moment by its own
\* one change, and a damaged file is left alone, even when a stale cache is
\* served before it (mutate, readStore strict).  One kind of update is not one
\* of the register and is excepted: the read that follows the strict one is not
\* strict, and when it fails the update writes its change to an empty store and
\* loses every record (readStore's emptyStore()).
ImplementsAtomicStore ==
    /\ Atomic!Init
    /\ [][Lapse \/ [Atomic!Next]_(Atomic!vars)]_vars

\* A lock that no transaction stands behind was left by a crash or by a removal
\* that failed: it is removed, with the reclaim directory of a second crash if
\* there is one (abandoned).
LeftoverRemoved == (dir.there /\ sql = None) ~> ~dir.there
=============================================================================
