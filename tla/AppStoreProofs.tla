--------------------------- MODULE AppStoreProofs ---------------------------
(***************************************************************************)
(* Proofs about AppStore, for any processes, records, stamps and number of *)
(* faults: one process at a time is between the beginning and the end of   *)
(* its transaction, its directory names it throughout its update, a cache  *)
(* that would be served is current, and the store implements AtomicStore.  *)
(***************************************************************************)
EXTENDS AppStore, TLAPS

PCs    == {"idle", "lock", "own", "reclaim", "recheck", "unreclaim", "in", "out", "closing"}
Ats    == {"no", "look", "write", "stat"}
Marks  == Stamps \cup {None}
States == {"absent", "good", "damaged"}
Files  == [state : States, records : SUBSET Records, stamp : Marks]
Caches == [there : BOOLEAN, raw : SUBSET Records, value : SUBSET Records, stamp : Marks]

\* The types, one group of variables each.
DirTyped    == dir \in Dirs /\ reclaim \in Dirs
LockTyped   == sql \in Procs \cup {None} /\ pc \in [Procs -> PCs]
FaultTyped  == faults \in Nat /\ faults <= MaxFaults
FileTyped   == file \in Files
CacheTyped  == cache \in [Procs -> Caches] /\ collided \subseteq Procs
UpdateTyped == at \in [Procs -> Ats] /\ buffer \in [Procs -> SUBSET Records]
LoadTyped   == loading \in [Procs -> Marks]
ForgetTyped == forgetful \in [Procs -> BOOLEAN]
CountTyped  == lapses \in Nat /\ restores \in Nat

Typed ==
    /\ DirTyped /\ LockTyped /\ FaultTyped /\ FileTyped /\ CacheTyped
    /\ UpdateTyped /\ LoadTyped /\ ForgetTyped /\ CountTyped

\* The groups together are TypeOK.
LEMMA TypedMeans == Typed => TypeOK
<1> SUFFICES ASSUME Typed PROVE TypeOK
  OBVIOUS
<1> USE LockAssumption DEF Typed
<1>1. LockTypeOK
  BY DEF LockTypeOK, DirTyped, LockTyped, FaultTyped, PCs
<1>2. file \in [state : {"absent", "good", "damaged"}, records : SUBSET Records,
                 stamp : Stamps \cup {None}]
  BY DEF FileTyped, Files, States, Marks
<1>3. cache \in [Procs -> [there : BOOLEAN, raw : SUBSET Records, value : SUBSET Records,
                            stamp : Stamps \cup {None}]] /\ collided \subseteq Procs
  BY DEF CacheTyped, Caches, Marks
<1>4. /\ at \in [Procs -> {"no", "look", "write", "stat"}] /\ buffer \in [Procs -> SUBSET Records]
      /\ loading \in [Procs -> Stamps \cup {None}] /\ forgetful \in [Procs -> BOOLEAN]
      /\ lapses \in Nat /\ restores \in Nat
  BY DEF UpdateTyped, Ats, LoadTyped, Marks, ForgetTyped, CountTyped
<1> QED BY <1>1, <1>2, <1>3, <1>4 DEF TypeOK

\* The records the actions write.
LEMMA Rows ==
  /\ Absent \in Dirs /\ Created \in Dirs
  /\ \A d \in Dirs : /\ \A o \in Procs : [d EXCEPT !.owner = o] \in Dirs
                     /\ Older(d) \in Dirs
                     /\ \A p : \A o \in {None, Dead, Recycled} : LeftBy(p, d, o) \in Dirs
  /\ NoCache \in Caches /\ ~NoCache.there /\ NoCache.value = NoCache.raw
  /\ \A s \in SUBSET Records, m \in Marks :
       /\ Cached(s, m) \in Caches /\ Cached(s, m).there /\ Cached(s, m).stamp = m
       /\ Cached(s, m).raw = s /\ Cached(s, m).value = s
<1>1. Absent \in Dirs /\ Created \in Dirs
  BY DEF Absent, Created, Dirs, Ages
<1>2. ASSUME NEW d \in Dirs, NEW o \in Procs PROVE [d EXCEPT !.owner = o] \in Dirs
  BY DEF Dirs
<1>3. ASSUME NEW d \in Dirs PROVE Older(d) \in Dirs
  <2> DEFINE a == IF d.age = "fresh" THEN "halfMinute" ELSE "tenMinutes"
  <2>1. Older(d) = [d EXCEPT !.age = a] /\ a \in Ages
    BY DEF Older, Ages
  <2> HIDE DEF a
  <2> QED BY <2>1 DEF Dirs
<1>4. ASSUME NEW d \in Dirs, NEW p, NEW pid \in {None, Dead, Recycled}
      PROVE  LeftBy(p, d, pid) \in Dirs
  <2> DEFINE o == IF d.owner = p THEN pid ELSE d.owner
  <2>1. LeftBy(p, d, pid) = [d EXCEPT !.owner = o]
    BY Zenon DEF LeftBy
  <2>2. o \in Procs \cup {None, Dead, Recycled}
    BY DEF Dirs
  <2> HIDE DEF o
  <2> QED BY <2>1, <2>2 DEF Dirs
<1>5. NoCache \in Caches /\ ~NoCache.there /\ NoCache.value = NoCache.raw
  BY DEF NoCache, Caches, Marks
<1>6. ASSUME NEW s \in SUBSET Records, NEW m \in Marks
      PROVE  /\ Cached(s, m) \in Caches /\ Cached(s, m).there /\ Cached(s, m).stamp = m
             /\ Cached(s, m).raw = s /\ Cached(s, m).value = s
  BY DEF Cached, Caches
<1> QED BY <1>1, <1>2, <1>3, <1>4, <1>5, <1>6

\* The text of the file, with the stamp the read began with.
LEMMA LoadedText ==
  ASSUME Typed, NEW p \in Procs, NEW m \in Marks, cache[p].value = cache[p].raw,
         NEW c, c = Loaded(p, m)
  PROVE  /\ c \in Caches /\ c.there /\ c.stamp = m
         /\ c.raw = file.records /\ c.value = c.raw
<1>1. cache[p] \in Caches /\ file.records \in SUBSET Records
  BY DEF Typed, CacheTyped, FileTyped, Files
<1>2. CASE cache[p].there /\ cache[p].raw = file.records
  <2>1. c = [cache[p] EXCEPT !.stamp = m]
    BY <1>2 DEF Loaded
  <2> QED BY <1>1, <1>2, <2>1 DEF Caches
<1>3. CASE ~(cache[p].there /\ cache[p].raw = file.records)
  <2>1. c = Cached(file.records, m)
    BY <1>3 DEF Loaded
  <2> QED BY <1>1, <2>1, Rows
<1> QED BY <1>2, <1>3

LEMMA InitTyped == Init => Typed
<1> SUFFICES ASSUME Init PROVE Typed
  OBVIOUS
<1> USE LockAssumption DEF Init, LockInit
<1>1. DirTyped /\ LockTyped /\ FaultTyped
  BY Rows DEF DirTyped, LockTyped, FaultTyped, PCs
<1>2. FileTyped
  BY DEF FileTyped, Files, States, Marks
<1>3. CacheTyped
  BY Rows DEF CacheTyped
<1>4. UpdateTyped /\ LoadTyped /\ ForgetTyped /\ CountTyped
  BY DEF UpdateTyped, LoadTyped, ForgetTyped, CountTyped, Ats, Marks
<1> QED BY <1>1, <1>2, <1>3, <1>4 DEF Typed

\* What an action leaves alone keeps its type.
LEMMA Kept ==
  ASSUME Typed
  PROVE  /\ UNCHANGED <<dir, reclaim>> => DirTyped'
         /\ UNCHANGED <<sql, pc>> => LockTyped'
         /\ UNCHANGED faults => FaultTyped'
         /\ UNCHANGED file => FileTyped'
         /\ UNCHANGED <<cache, collided>> => CacheTyped'
         /\ UNCHANGED <<at, buffer>> => UpdateTyped'
         /\ UNCHANGED loading => LoadTyped'
         /\ UNCHANGED forgetful => ForgetTyped'
         /\ UNCHANGED <<lapses, restores>> => CountTyped'
BY DEF Typed, DirTyped, LockTyped, FaultTyped, FileTyped, CacheTyped, UpdateTyped, LoadTyped,
   ForgetTyped, CountTyped

LEMMA Faulty == Typed /\ Fault => FaultTyped'
BY LockAssumption DEF Typed, FaultTyped, Fault

LEMMA CacheSet ==
  ASSUME Typed, NEW p \in Procs, NEW c \in Caches, SetCache(p, c)
  PROVE  CacheTyped'
BY DEF Typed, CacheTyped, SetCache

LEMMA Replaced ==
  ASSUME Typed, NEW s \in SUBSET Records, NEW st \in States, Replace(st, s)
  PROVE  /\ FileTyped' /\ collided' \subseteq Procs /\ collided \subseteq collided'
         /\ file'.state = st /\ file'.records = s /\ file'.stamp \in Stamps
         /\ \A p \in Procs : cache[p].stamp = file'.stamp => p \in collided'
<1>1. PICK m \in Stamps \ {file.stamp} :
        /\ file' = [state |-> st, records |-> s, stamp |-> m]
        /\ collided' = collided \cup {p \in Procs : m \in {cache[p].stamp, loading[p]}}
  BY DEF Replace
<1>2. FileTyped' /\ file'.state = st /\ file'.records = s /\ file'.stamp = m
  BY <1>1 DEF FileTyped, Files, Marks
<1> QED BY <1>1, <1>2 DEF Typed, CacheTyped

LEMMA Toggled == \A s \in SUBSET Records, r \in Records : Toggle(s, r) \in SUBSET Records
BY DEF Toggle
-----------------------------------------------------------------------------
(***************************************************************************)
(* The invariant.                                                          *)
(***************************************************************************)
\* The transaction is held by whoever is not idle.
Alone == \A p \in Procs : pc[p] # "idle" => sql = p

\* An update is under way only inside the lock, a read only outside.
Placed == \A p \in Procs : /\ at[p] # "no" => pc[p] = "in"
                           /\ loading[p] # None => pc[p] = "idle"

FileSound ==
    /\ file.state = "absent" => file.records = {}
    /\ file.state # "absent" => file.stamp \in Stamps

\* What an update has read, and what it is about to write and has written.
Looks(p) == /\ file.state # "damaged"
            /\ There => cache[p].raw = file.records
Writes(p) == /\ file.state # "damaged"
             /\ \E r \in Records :
                  buffer[p] = IF forgetful[p] THEN {r} ELSE Toggle(file.records, r)
Stats(p) == file.state = "good" /\ buffer[p] = file.records

UpdateSound(p) == /\ at[p] = "look"  => Looks(p)
                  /\ at[p] = "write" => Writes(p)
                  /\ at[p] = "stat"  => Stats(p)
                  /\ at[p] # "write" => ~forgetful[p]

\* The store in the cache is the text it was read from while no update changes
\* it, and that text is the file's where the stamps agree.
CacheSound(p) == /\ at[p] \in {"no", "look"} => cache[p].value = cache[p].raw
                 /\ There /\ Hit(p) /\ p \notin collided
                      => file.state = "good" /\ cache[p].raw = file.records

Sound == \A p \in Procs : UpdateSound(p) /\ CacheSound(p)
IInv  == Typed /\ Alone /\ Placed /\ FileSound /\ Sound

LEMMA InitInv == Init => IInv
<1> SUFFICES ASSUME Init PROVE IInv
  OBVIOUS
<1> USE DEF Init, LockInit
<1>1. Alone /\ Placed /\ FileSound
  BY DEF Alone, Placed, FileSound
<1>2. ASSUME NEW p \in Procs PROVE UpdateSound(p) /\ CacheSound(p)
  BY Rows DEF UpdateSound, CacheSound, There
<1> QED BY <1>1, <1>2, InitTyped DEF IInv, Sound

\* A process whose own entries stay as they are keeps what is said of it.
LEMMA OthersSound ==
  ASSUME Sound, NEW q \in Procs, UNCHANGED file, cache'[q] = cache[q], at'[q] = at[q],
         buffer'[q] = buffer[q], forgetful'[q] = forgetful[q],
         q \in collided' <=> q \in collided
  PROVE  UpdateSound(q)' /\ CacheSound(q)'
BY DEF Sound, UpdateSound, CacheSound, Looks, Writes, Stats, There, Hit

\* While one process updates, every other is idle.
LEMMA OthersIdle ==
  ASSUME IInv, NEW p \in Procs, NEW q \in Procs, pc[p] # "idle", q # p
  PROVE  pc[q] = "idle" /\ at[q] = "no"
BY DEF IInv, Alone, Placed

Moves(p) ==
    \E s \in PCs : /\ pc' = [pc EXCEPT ![p] = s]
                   /\ (sql' = sql /\ s # "idle") \/ (sql' = None /\ s = "idle")

\* Every step of the lock is one of the process that holds it, outside its update.
LEMMA LockMoves ==
  ASSUME Typed, NEW p \in Procs, LockStep(p)
  PROVE  /\ DirTyped' /\ FaultTyped' /\ pc[p] \notin {"idle", "in"}
         /\ Moves(p)
<1>0. dir \in Dirs /\ reclaim \in Dirs
  BY DEF Typed, DirTyped
<1>1. /\ dir' \in Dirs /\ reclaim' \in Dirs
      /\ FaultTyped'
  <2>1. Absent \in Dirs /\ Created \in Dirs
    BY Rows
  <2>2. [dir EXCEPT !.owner = p] \in Dirs /\ [reclaim EXCEPT !.owner = p] \in Dirs
    BY <1>0, Rows
  <2>3. UNCHANGED faults \/ Fault
    BY DEF LockStep, LockTaken, LockOwned, LockOwnerFails, ReclaimTaken, ReclaimOwned, ReclaimFails,
       Rechecked, ReclaimReturned, ReclaimCleared, LockTimesOut, Unlock, UnlockFails, Close
  <2>4. /\ \/ dir' \in {dir, Absent, Created, [dir EXCEPT !.owner = p]}
           \/ \E owner \in {None, Recycled} : dir' = LeftBy(p, dir, owner)
        /\ reclaim' \in {reclaim, Absent, Created, [reclaim EXCEPT !.owner = p]}
    BY DEF LockStep, LockTaken, LockOwned, LockOwnerFails, ReclaimTaken, ReclaimOwned, ReclaimFails,
       Rechecked, ReclaimReturned, ReclaimCleared, LockTimesOut, Unlock, UnlockFails, Close
  <2>5. \A owner \in {None, Recycled} : LeftBy(p, dir, owner) \in Dirs
    BY <1>0, Rows
  <2>6. dir' \in Dirs /\ reclaim' \in Dirs
    BY <1>0, <2>1, <2>2, <2>4, <2>5
  <2> QED BY <2>3, <2>6, Kept, Faulty
<1>2. pc[p] \notin {"idle", "in"}
  BY DEF LockStep, LockTaken, LockOwned, LockOwnerFails, ReclaimTaken, ReclaimOwned, ReclaimFails,
     Rechecked, ReclaimReturned, ReclaimCleared, LockTimesOut, Unlock, UnlockFails, Close
<1>3. Moves(p)
  <2>1. CASE Close(p)
    BY <2>1 DEF Close, GoTo, PCs, Moves
  <2>2. CASE ~Close(p)
    <3>1. /\ sql' = sql
          /\ \/ GoTo(p, "own") \/ GoTo(p, "in") \/ GoTo(p, "closing") \/ GoTo(p, "reclaim")
             \/ GoTo(p, "recheck") \/ GoTo(p, "unreclaim") \/ GoTo(p, "lock")
      BY <2>2 DEF LockStep, LockTaken, LockOwned, LockOwnerFails, ReclaimTaken, ReclaimOwned,
         ReclaimFails, Rechecked, ReclaimReturned, ReclaimCleared, LockTimesOut, Unlock,
         UnlockFails
    <3> QED BY <3>1 DEF GoTo, PCs, Moves
  <2> QED BY <2>1, <2>2
<1>4. DirTyped'
  BY <1>1 DEF DirTyped
<1> QED BY <1>1, <1>2, <1>3, <1>4

\* A process moves through its transaction.
LEMMA Moved ==
  ASSUME IInv, NEW p \in Procs, pc[p] # "idle", at'[p] # "no" => pc'[p] = "in",
         Moves(p), \A q \in Procs \ {p} : at'[q] = at[q], UNCHANGED loading
  PROVE  LockTyped' /\ Alone' /\ Placed'
<1>1. PICK s \in PCs : /\ pc' = [pc EXCEPT ![p] = s]
                       /\ (sql' = sql /\ s # "idle") \/ (sql' = None /\ s = "idle")
  BY DEF Moves
<1> USE <1>1 DEF IInv, Typed, LockTyped
<1>2. LockTyped'
  OBVIOUS
<1>3. Alone'
  BY OthersIdle DEF Alone
<1>4. Placed'
  BY OthersIdle DEF Placed
<1> QED BY <1>2, <1>3, <1>4

\* The process stays where it is.
LEMMA Stayed ==
  ASSUME IInv, UNCHANGED <<sql, pc>>,
         \A p \in Procs : /\ at'[p] # "no" => pc[p] = "in"
                          /\ loading'[p] # None => pc[p] = "idle"
  PROVE  Alone' /\ Placed'
BY DEF IInv, Alone, Placed

\* What is said of the process that steps is enough while the file stays.
LEMMA OneSound ==
  ASSUME IInv, NEW p \in Procs, UNCHANGED file,
         \A q \in Procs \ {p} :
           /\ cache'[q] = cache[q] /\ at'[q] = at[q] /\ buffer'[q] = buffer[q]
           /\ forgetful'[q] = forgetful[q] /\ (q \in collided' <=> q \in collided),
         UpdateSound(p)', CacheSound(p)'
  PROVE  FileSound' /\ Sound'
<1>1. FileSound'
  BY DEF IInv, FileSound
<1>2. ASSUME NEW q \in Procs PROVE UpdateSound(q)' /\ CacheSound(q)'
  <2>1. CASE q = p
    BY <2>1
  <2>2. CASE q # p
    BY <2>2, OthersSound DEF IInv
  <2> QED BY <2>1, <2>2
<1>3. Sound'
  BY <1>2 DEF Sound
<1> QED BY <1>1, <1>3

\* A step that leaves the store alone.
LEMMA StoreStays == IInv /\ UNCHANGED storeVars => FileSound' /\ Sound'
<1> SUFFICES ASSUME IInv, UNCHANGED storeVars PROVE FileSound' /\ Sound'
  OBVIOUS
<1> USE DEF storeVars
<1>1. FileSound'
  BY DEF IInv, FileSound
<1>2. ASSUME NEW q \in Procs PROVE UpdateSound(q)' /\ CacheSound(q)'
  BY OthersSound DEF IInv
<1> QED BY <1>1, <1>2 DEF Sound

\* The cache of a process that does not update is emptied or read again.
LEMMA Emptied ==
  ASSUME IInv, NEW p \in Procs, SetCache(p, NoCache), at'[p] = "no", ~forgetful'[p]
  PROVE  CacheTyped' /\ UpdateSound(p)' /\ CacheSound(p)'
<1>1. CacheTyped'
  BY CacheSet, Rows DEF IInv
<1>2. cache'[p] = NoCache
  BY DEF SetCache, IInv, Typed, CacheTyped
<1> QED BY <1>1, <1>2, Rows DEF UpdateSound, CacheSound, Hit

LEMMA Refreshed ==
  ASSUME IInv, NEW p \in Procs, NEW m \in Marks, SetCache(p, Loaded(p, m)),
         at[p] = "no", at'[p] \in {"no", "look"}, ~forgetful'[p],
         file.state = "good", UNCHANGED file
  PROVE  CacheTyped' /\ UpdateSound(p)' /\ CacheSound(p)'
<1> DEFINE c == Loaded(p, m)
<1>1. cache[p].value = cache[p].raw
  BY DEF IInv, Sound, CacheSound
<1>2. /\ c \in Caches /\ c.there /\ c.stamp = m
      /\ c.raw = file.records /\ c.value = c.raw
  BY <1>1, LoadedText DEF IInv
<1> HIDE DEF c
<1>3. SetCache(p, c)
  BY DEF c
<1>4. CacheTyped'
  BY <1>2, <1>3, CacheSet DEF IInv
<1>5. cache'[p] = c
  BY <1>3 DEF SetCache, IInv, Typed, CacheTyped
<1>6. UpdateSound(p)'
  BY <1>2, <1>5 DEF UpdateSound, Looks
<1>7. CacheSound(p)'
  BY <1>2, <1>5 DEF CacheSound
<1> QED BY <1>4, <1>6, <1>7

\* Every step of the store keeps the invariant.
LEMMA InvStep == IInv /\ [Next]_vars => IInv'
<1> SUFFICES ASSUME IInv, [Next]_vars PROVE IInv'
  OBVIOUS
<1>0. /\ Typed /\ Alone /\ Placed /\ FileSound /\ Sound
      /\ at \in [Procs -> Ats] /\ pc \in [Procs -> PCs] /\ loading \in [Procs -> Marks]
      /\ buffer \in [Procs -> SUBSET Records] /\ cache \in [Procs -> Caches]
      /\ forgetful \in [Procs -> BOOLEAN] /\ collided \subseteq Procs
      /\ file.state \in States /\ file.records \in SUBSET Records /\ file.stamp \in Marks
  BY DEF IInv, Typed, LockTyped, CacheTyped, UpdateTyped, LoadTyped, ForgetTyped, FileTyped, Files
<1> USE <1>0, Kept
<1>1. CASE UNCHANGED vars
  <2>1. Alone' /\ Placed'
    BY <1>1 DEF vars, lockVars, storeVars, Alone, Placed
  <2> QED BY <1>1, <2>1, StoreStays DEF vars, lockVars, storeVars, IInv, Typed
<1>2. ASSUME NEW p \in Procs, Begin(p) PROVE IInv'
  <2>1. LockTyped' /\ Alone' /\ Placed'
    <3>1. sql = None /\ sql' = p /\ pc[p] = "idle" /\ pc' = [pc EXCEPT ![p] = "lock"]
          /\ UNCHANGED <<at, loading>> /\ loading[p] = None
      BY <1>2 DEF Begin, LockBegins, GoTo, storeVars
    <3>2. \A q \in Procs : pc[q] = "idle"
      BY <3>1, LockAssumption DEF Alone
    <3> QED BY <3>1, <3>2 DEF LockTyped, PCs, Alone, Placed
  <2> QED BY <1>2, <2>1, StoreStays DEF Begin, LockBegins, storeVars, IInv, Typed
<1>3. ASSUME NEW p \in Procs, LockStep(p), UNCHANGED storeVars PROVE IInv'
  <2>1. DirTyped' /\ FaultTyped' /\ pc[p] \notin {"idle", "in"} /\ Moves(p)
    BY <1>3, LockMoves
  <2>2. at[p] = "no"
    BY <2>1 DEF Placed
  <2>3. LockTyped' /\ Alone' /\ Placed'
    BY <1>3, <2>1, <2>2, Moved DEF storeVars
  <2> QED BY <1>3, <2>1, <2>3, StoreStays DEF storeVars, IInv, Typed
<1>4. ASSUME NEW p \in Procs, ReadBegins(p) PROVE IInv'
  <2>1. Alone' /\ Placed'
    BY <1>4, Stayed DEF ReadBegins, Placed, lockVars
  <2>2. LoadTyped'
    BY <1>4 DEF ReadBegins, LoadTyped
  <2>3. FileSound' /\ Sound'
    <3>1. FileSound'
      BY <1>4 DEF ReadBegins, FileSound
    <3>2. ASSUME NEW q \in Procs PROVE UpdateSound(q)' /\ CacheSound(q)'
      BY <1>4, OthersSound DEF ReadBegins
    <3> QED BY <3>1, <3>2 DEF Sound
  <2> QED BY <1>4, <2>1, <2>2, <2>3 DEF ReadBegins, lockVars, IInv, Typed
<1>5. ASSUME NEW p \in Procs, ReadMissing(p) PROVE IInv'
  <2>1. at[p] = "no" /\ ~forgetful[p]
    BY <1>5 DEF ReadMissing, Placed, Sound, UpdateSound
  <2>2. Alone' /\ Placed'
    BY <1>5, Stayed DEF ReadMissing, Placed, lockVars
  <2>3. CacheTyped' /\ UpdateSound(p)' /\ CacheSound(p)'
    BY <1>5, <2>1, Emptied DEF ReadMissing
  <2>4. FileSound' /\ Sound'
    BY <1>5, <2>3, OneSound DEF ReadMissing, SetCache
  <2> QED BY <1>5, <2>2, <2>3, <2>4 DEF ReadMissing, lockVars, IInv, Typed
<1>6. ASSUME NEW p \in Procs, ReadStep(p) PROVE IInv'
  <2>1. loading[p] # None /\ pc[p] = "idle" /\ at[p] = "no" /\ ~forgetful[p]
    BY <1>6 DEF ReadStep, ReadEnds, ReadFails, Placed, Sound, UpdateSound
  <2>2. LoadTyped'
    BY <1>6 DEF ReadStep, ReadEnds, ReadFails, LoadTyped, Marks
  <2>3. Alone' /\ Placed'
    BY <1>6, Stayed DEF ReadStep, ReadEnds, ReadFails, Placed, lockVars
  <2>4. CacheTyped' /\ UpdateSound(p)' /\ CacheSound(p)'
    <3>1. CASE SetCache(p, NoCache)
      BY <1>6, <2>1, <3>1, Emptied DEF ReadStep, ReadEnds, ReadFails
    <3>2. CASE SetCache(p, Loaded(p, loading[p])) /\ file.state = "good"
      BY <1>6, <2>1, <3>2, Refreshed DEF ReadStep, ReadEnds, ReadFails
    <3> QED BY <1>6, <3>1, <3>2 DEF ReadStep, ReadEnds, ReadFails
  <2>5. FileSound' /\ Sound'
    BY <1>6, <2>4, OneSound DEF ReadStep, ReadEnds, ReadFails, SetCache
  <2>6. FaultTyped'
    BY <1>6, Faulty DEF ReadStep, ReadEnds, ReadFails, lockVars
  <2> QED BY <1>6, <2>2, <2>3, <2>4, <2>5, <2>6
      DEF ReadStep, ReadEnds, ReadFails, lockVars, IInv, Typed
<1>7. ASSUME NEW p \in Procs, StrictRead(p) PROVE IInv'
  <2>1. ~forgetful[p] /\ at'[p] = "look" /\ loading[p] = None
    BY <1>7 DEF StrictRead, Step, Placed, Sound, UpdateSound
  <2>2. Alone' /\ Placed'
    BY <1>7, Stayed DEF StrictRead, Step, Placed, lockVars
  <2>3. UpdateTyped'
    BY <1>7 DEF StrictRead, Step, UpdateTyped, Ats
  <2>4. CacheTyped' /\ UpdateSound(p)' /\ CacheSound(p)'
    <3>1. CASE There
      <4>1. file.state = "good" /\ SetCache(p, Loaded(p, file.stamp))
        BY <1>7, <3>1 DEF StrictRead, Fresh, There, States
      <4> QED BY <1>7, <2>1, <4>1, Refreshed DEF StrictRead
    <3>2. CASE ~There
      <4>1. SetCache(p, NoCache)
        BY <1>7, <3>2 DEF StrictRead
      <4>2. CacheTyped'
        BY <4>1, CacheSet, Rows
      <4>3. cache'[p] = NoCache
        BY <4>1 DEF SetCache
      <4> QED BY <1>7, <2>1, <3>2, <4>2, <4>3, Rows
          DEF StrictRead, UpdateSound, CacheSound, Looks, Hit, There
    <3> QED BY <3>1, <3>2
  <2>5. FileSound' /\ Sound'
    BY <1>7, <2>4, OneSound DEF StrictRead, SetCache, Step
  <2> QED BY <1>7, <2>2, <2>3, <2>4, <2>5 DEF StrictRead, lockVars, IInv, Typed
<1>8. ASSUME NEW p \in Procs, StrictReadThrows(p) PROVE IInv'
  <2>1. SetCache(p, NoCache) /\ at' = [at EXCEPT ![p] = "no"] /\ pc' = [pc EXCEPT ![p] = "out"]
        /\ UNCHANGED <<sql, dir, reclaim>>
    BY <1>8 DEF StrictReadThrows, Throws, CacheAfterThrow, Step, GoTo, Outside
  <2>2. pc[p] = "in" /\ ~forgetful[p]
    BY <1>8 DEF StrictReadThrows, Sound, UpdateSound
  <2>3. LockTyped' /\ Alone' /\ Placed'
    <3>1. Moves(p)
      BY <2>1 DEF Moves, PCs
    <3> QED BY <1>8, <2>1, <2>2, <3>1, Moved DEF StrictReadThrows
  <2>4. UpdateTyped'
    BY <1>8, <2>1 DEF StrictReadThrows, UpdateTyped, Ats
  <2>5. CacheTyped' /\ UpdateSound(p)' /\ CacheSound(p)'
    BY <1>8, <2>1, <2>2, Emptied DEF StrictReadThrows
  <2>6. FileSound' /\ Sound'
    BY <1>8, <2>1, <2>5, OneSound DEF StrictReadThrows, SetCache
  <2>7. FaultTyped'
    BY <1>8, Faulty DEF StrictReadThrows
  <2> QED BY <1>8, <2>1, <2>3, <2>4, <2>5, <2>6, <2>7 DEF StrictReadThrows, IInv, Typed
<1>9. ASSUME NEW p \in Procs, Look(p) PROVE IInv'
  <2>1. /\ ~forgetful[p] /\ pc[p] = "in" /\ file.state # "damaged"
        /\ There => cache[p].raw = file.records
        /\ cache[p].value = cache[p].raw
    BY <1>9 DEF Look, Placed, Sound, UpdateSound, CacheSound, Looks
  <2>2. Alone' /\ Placed'
    BY <1>9, <2>1, Stayed DEF Look, Change, Step, Placed, lockVars
  <2>3. PICK r \in Records : buffer' = [buffer EXCEPT ![p] = Toggle(file.records, r)]
    <3>1. (IF There THEN cache[p].value ELSE {}) = file.records
      BY <2>1 DEF FileSound, There
    <3> QED BY <1>9, <3>1 DEF Look, Change
  <2>4. Toggle(file.records, r) \in SUBSET Records
    BY Toggled
  <2>5. UpdateTyped'
    BY <1>9, <2>3, <2>4 DEF Look, Change, Step, UpdateTyped, Ats
  <2> DEFINE b == Toggle(file.records, r)
  <2>6. /\ buffer'[p] = b /\ at'[p] = "write"
        /\ cache' = IF There THEN [cache EXCEPT ![p] = [cache[p] EXCEPT !.value = b]] ELSE cache
    BY <1>9, <2>3 DEF Look, Change, Step
  <2>7. b \in SUBSET Records
    BY <2>4
  <2>8. UpdateSound(p)'
    BY <1>9, <2>1, <2>6 DEF Look, UpdateSound, Writes
  <2> HIDE DEF b
  <2>9. CacheTyped'
    <3>1. [cache[p] EXCEPT !.value = b] \in Caches
      BY <2>7 DEF Caches
    <3> QED BY <1>9, <2>6, <3>1 DEF Look, CacheTyped
  <2>10. cache'[p].raw = cache[p].raw /\ cache'[p].there = cache[p].there
         /\ cache'[p].stamp = cache[p].stamp
    BY <2>6 DEF Caches
  <2>11. CacheSound(p)'
    BY <1>9, <2>6, <2>10 DEF Look, Sound, CacheSound, Hit, There
  <2>12. FileSound' /\ Sound'
    BY <1>9, <2>3, <2>6, <2>8, <2>11, OneSound DEF Look, Change, Step
  <2> QED BY <1>9, <2>2, <2>5, <2>9, <2>12 DEF Look, lockVars, IInv, Typed
<1>10. ASSUME NEW p \in Procs, LookFails(p) PROVE IInv'
  <2>1. /\ pc[p] = "in" /\ file.state # "damaged"
    BY <1>10 DEF LookFails, Placed, Sound, UpdateSound, Looks
  <2>2. Alone' /\ Placed'
    BY <1>10, <2>1, Stayed DEF LookFails, Change, Step, Placed, Outside
  <2>3. PICK r \in Records : buffer' = [buffer EXCEPT ![p] = {r}]
    BY <1>10 DEF LookFails, Change, Toggle
  <2>4. UpdateTyped' /\ ForgetTyped'
    BY <1>10, <2>3 DEF LookFails, Change, Step, UpdateTyped, Ats, ForgetTyped
  <2>5. CacheTyped' /\ cache'[p] = NoCache
    BY <1>10, CacheSet, Rows DEF LookFails, SetCache
  <2>6. UpdateSound(p)' /\ CacheSound(p)'
    BY <1>10, <2>1, <2>3, <2>5, Rows
    DEF LookFails, Change, Step, UpdateSound, Writes, CacheSound, Hit
  <2>7. FileSound' /\ Sound'
    BY <1>10, <2>3, <2>6, OneSound DEF LookFails, Change, Step, SetCache
  <2>8. FaultTyped'
    BY <1>10, Faulty DEF LookFails
  <2> QED BY <1>10, <2>2, <2>4, <2>5, <2>7, <2>8 DEF LookFails, Outside, IInv, Typed
<1>11. ASSUME NEW p \in Procs, NoChange(p) PROVE IInv'
  <2>1. /\ at' = [at EXCEPT ![p] = "no"] /\ pc' = [pc EXCEPT ![p] = "out"]
        /\ UNCHANGED <<sql, dir, reclaim>> /\ pc[p] = "in" /\ ~forgetful[p]
    BY <1>11 DEF NoChange, Step, GoTo, Outside, Placed, Sound, UpdateSound
  <2>2. LockTyped' /\ Alone' /\ Placed'
    <3>1. Moves(p)
      BY <2>1 DEF Moves, PCs
    <3> QED BY <1>11, <2>1, <3>1, Moved DEF NoChange
  <2>3. UpdateTyped'
    BY <1>11, <2>1 DEF NoChange, UpdateTyped, Ats
  <2>4. CacheTyped' /\ UpdateSound(p)' /\ CacheSound(p)'
    <3>1. CASE SetCache(p, NoCache)
      BY <1>11, <2>1, <3>1, Emptied DEF NoChange
    <3>2. CASE UNCHANGED <<cache, collided>>
      BY <1>11, <2>1, <3>2 DEF NoChange, Sound, UpdateSound, CacheSound, Hit, There
    <3> QED BY <1>11, <3>1, <3>2 DEF NoChange
  <2>5. FileSound' /\ Sound'
    BY <1>11, <2>1, <2>4, OneSound DEF NoChange, SetCache
  <2> QED BY <1>11, <2>1, <2>2, <2>3, <2>4, <2>5 DEF NoChange, IInv, Typed
<1>12. ASSUME NEW p \in Procs, Write(p) PROVE IInv'
  <2>1. pc[p] = "in" /\ at[p] = "write" /\ "good" \in States
    BY <1>12 DEF Write, Placed, States
  <2>2. Alone' /\ Placed'
    BY <1>12, <2>1, Stayed DEF Write, Step, Placed, lockVars
  <2>3. /\ FileTyped' /\ collided' \subseteq Procs
        /\ file'.state = "good" /\ file'.records = buffer[p] /\ file'.stamp \in Stamps
        /\ \A q \in Procs : cache[q].stamp = file'.stamp => q \in collided'
    BY <1>12, <2>1, Replaced DEF Write
  <2>4. UpdateTyped' /\ ForgetTyped' /\ CountTyped' /\ CacheTyped'
    BY <1>12, <2>3 DEF Write, Step, UpdateTyped, Ats, ForgetTyped, CountTyped, CacheTyped, Typed
  <2>5. ASSUME NEW q \in Procs PROVE UpdateSound(q)' /\ CacheSound(q)'
    <3>1. CASE q = p
      BY <1>12, <2>3, <3>1 DEF Write, Step, UpdateSound, Stats, CacheSound, Hit
    <3>2. CASE q # p
      <4>1. at[q] = "no" /\ ~forgetful[q] /\ cache[q].value = cache[q].raw
        BY <2>1, <3>2, OthersIdle DEF Sound, UpdateSound, CacheSound
      <4> QED BY <1>12, <2>3, <3>2, <4>1 DEF Write, Step, UpdateSound, CacheSound, Hit
    <3> QED BY <3>1, <3>2
  <2>6. FileSound' /\ Sound'
    BY <2>3, <2>5 DEF FileSound, Sound
  <2> QED BY <1>12, <2>2, <2>3, <2>4, <2>6 DEF Write, lockVars, IInv, Typed
<1>13. ASSUME NEW p \in Procs, WriteFails(p) PROVE IInv'
  <2>1. /\ SetCache(p, NoCache) /\ at' = [at EXCEPT ![p] = "no"] /\ pc' = [pc EXCEPT ![p] = "out"]
        /\ UNCHANGED <<sql, dir, reclaim>> /\ pc[p] = "in"
        /\ forgetful' = [forgetful EXCEPT ![p] = FALSE] /\ buffer' = [buffer EXCEPT ![p] = {}]
    BY <1>13 DEF WriteFails, Throws, CacheAfterThrow, Step, GoTo, Outside, Placed
  <2>2. LockTyped' /\ Alone' /\ Placed'
    <3>1. Moves(p)
      BY <2>1 DEF Moves, PCs
    <3> QED BY <1>13, <2>1, <3>1, Moved DEF WriteFails
  <2>3. UpdateTyped' /\ ForgetTyped'
    BY <2>1 DEF UpdateTyped, Ats, ForgetTyped
  <2>4. CacheTyped' /\ UpdateSound(p)' /\ CacheSound(p)'
    BY <2>1, Emptied
  <2>5. FileSound' /\ Sound'
    BY <1>13, <2>1, <2>4, OneSound DEF WriteFails, SetCache
  <2>6. FaultTyped'
    BY <1>13, Faulty DEF WriteFails
  <2> QED BY <1>13, <2>1, <2>2, <2>3, <2>4, <2>5, <2>6 DEF WriteFails, IInv, Typed
<1>14. ASSUME NEW p \in Procs, Written(p) PROVE IInv'
  <2>1. /\ at' = [at EXCEPT ![p] = "no"] /\ pc' = [pc EXCEPT ![p] = "out"]
        /\ UNCHANGED <<sql, dir, reclaim>> /\ pc[p] = "in" /\ ~forgetful[p]
        /\ buffer' = [buffer EXCEPT ![p] = {}]
        /\ file.state = "good" /\ buffer[p] = file.records
    BY <1>14 DEF Written, Step, GoTo, Outside, Placed, Sound, UpdateSound, Stats
  <2>2. LockTyped' /\ Alone' /\ Placed'
    <3>1. Moves(p)
      BY <2>1 DEF Moves, PCs
    <3> QED BY <1>14, <2>1, <3>1, Moved DEF Written
  <2>3. UpdateTyped'
    BY <2>1 DEF UpdateTyped, Ats
  <2>4. PICK m \in Marks : SetCache(p, Cached(file.records, m)) /\ m \in {file.stamp, None}
    BY <1>14, <2>1 DEF Written, Marks
  <2> DEFINE c == Cached(file.records, m)
  <2>5. c \in Caches /\ c.raw = file.records /\ c.value = file.records
    BY Rows
  <2> HIDE DEF c
  <2>6. CacheTyped' /\ cache'[p] = c
    BY <2>4, <2>5, CacheSet DEF SetCache, c
  <2>7. UpdateSound(p)' /\ CacheSound(p)'
    BY <1>14, <2>1, <2>5, <2>6 DEF Written, UpdateSound, CacheSound
  <2>8. FileSound' /\ Sound'
    BY <1>14, <2>1, <2>4, <2>7, OneSound DEF Written, SetCache
  <2>9. FaultTyped'
    BY <1>14, Faulty DEF Written
  <2> QED BY <1>14, <2>1, <2>2, <2>3, <2>6, <2>8, <2>9 DEF Written, IInv, Typed
<1>15. CASE Restore
  <2>1. Alone' /\ Placed'
    BY <1>15, Stayed DEF Restore, Placed, Outside
  <2>2. /\ FileTyped' /\ collided' \subseteq Procs /\ FileSound'
        /\ \A q \in Procs : There' /\ cache[q].stamp = file'.stamp => q \in collided'
    <3>1. ASSUME NEW st \in {"good", "damaged"}, NEW s \in SUBSET Records, Replace(st, s)
          PROVE  /\ FileTyped' /\ collided' \subseteq Procs /\ FileSound'
                 /\ \A q \in Procs : There' /\ cache[q].stamp = file'.stamp => q \in collided'
      <4>1. st \in States /\ st # "absent"
        BY DEF States
      <4> QED BY <3>1, <4>1, Replaced DEF FileSound
    <3>2. CASE file' = [state |-> "absent", records |-> {}, stamp |-> None] /\ UNCHANGED collided
      BY <3>2 DEF FileTyped, Files, States, Marks, FileSound, There
    <3>3. {} \in SUBSET Records
      OBVIOUS
    <3> QED BY <1>15, <3>1, <3>2, <3>3 DEF Restore
  <2>3. ASSUME NEW q \in Procs PROVE UpdateSound(q)' /\ CacheSound(q)'
    BY <1>15, <2>2 DEF Restore, Sound, UpdateSound, CacheSound, Hit
  <2>4. Sound'
    BY <2>3 DEF Sound
  <2>5. FaultTyped' /\ CountTyped' /\ CacheTyped'
    BY <1>15, <2>2, Faulty DEF Restore, CountTyped, CacheTyped, Typed
  <2> QED BY <1>15, <2>1, <2>2, <2>4, <2>5 DEF Restore, Outside, IInv, Typed
<1>16. ASSUME NEW p \in Procs, Crash(p) PROVE IInv'
  <2>1. /\ SetCache(p, NoCache) /\ at' = [at EXCEPT ![p] = "no"] /\ pc' = [pc EXCEPT ![p] = "idle"]
        /\ forgetful' = [forgetful EXCEPT ![p] = FALSE] /\ buffer' = [buffer EXCEPT ![p] = {}]
        /\ loading' = [loading EXCEPT ![p] = None] /\ sql' = IF sql = p THEN None ELSE sql
    BY <1>16 DEF Crash, LockCrash, Step, GoTo
  <2>2. DirTyped'
    <3>1. PICK pid \in {Dead, Recycled} : /\ dir' = LeftBy(p, dir, pid)
                                          /\ reclaim' = LeftBy(p, reclaim, pid)
      BY <1>16 DEF Crash, LockCrash
    <3>2. \A d \in Dirs : LeftBy(p, d, pid) \in Dirs
      BY Rows
    <3> QED BY <3>1, <3>2 DEF DirTyped, Typed
  <2>3. LockTyped' /\ UpdateTyped' /\ LoadTyped' /\ ForgetTyped'
    BY <2>1 DEF LockTyped, PCs, UpdateTyped, Ats, LoadTyped, Marks, ForgetTyped, Typed
  <2>4. Alone' /\ Placed'
    BY <2>1 DEF Alone, Placed
  <2>5. CacheTyped' /\ UpdateSound(p)' /\ CacheSound(p)'
    BY <2>1, Emptied
  <2>6. FileSound' /\ Sound'
    BY <1>16, <2>1, <2>5, OneSound DEF Crash, SetCache
  <2>7. FaultTyped'
    BY <1>16, Faulty DEF Crash, LockCrash
  <2> QED BY <1>16, <2>2, <2>3, <2>4, <2>5, <2>6, <2>7 DEF Crash, IInv, Typed
<1>17. CASE (DirAges \/ ReclaimAges) /\ UNCHANGED storeVars
  <2>1. DirTyped' /\ UNCHANGED <<sql, pc, faults>>
    BY <1>17, Rows DEF DirAges, ReclaimAges, DirTyped, Typed
  <2>2. Alone' /\ Placed'
    BY <1>17, <2>1 DEF storeVars, Alone, Placed
  <2> QED BY <1>17, <2>1, <2>2, StoreStays DEF storeVars, IInv, Typed
<1> QED
  BY <1>1, <1>2, <1>3, <1>4, <1>5, <1>6, <1>7, <1>8, <1>9, <1>10, <1>11, <1>12, <1>13, <1>14,
     <1>15, <1>16, <1>17
  DEF Next, UpdateStep

LEMMA SpecInv == Spec => []IInv
BY InitInv, InvStep, PTL DEF Spec
-----------------------------------------------------------------------------
(***************************************************************************)
(* What the store promises.                                                *)
(***************************************************************************)
\* The lock, the file and the caches have their types.
THEOREM TypeCorrect == Spec => []TypeOK
<1>1. IInv => TypeOK
  BY TypedMeans DEF IInv
<1> QED BY <1>1, SpecInv, PTL

\* One process at a time is in its update.
THEOREM OneUpdates ==
  Spec => [](\A p, q \in Procs : at[p] # "no" /\ at[q] # "no" => p = q)
<1>1. IInv => \A p, q \in Procs : at[p] # "no" /\ at[q] # "no" => p = q
  BY DEF IInv, Alone, Placed
<1> QED BY <1>1, SpecInv, PTL

\* A cache that would be served holds what is in the file, unless the file's
\* stamp has come back.
THEOREM ServedCacheCurrent == Spec => []CacheCurrent
<1>1. IInv => CacheCurrent
  <2> SUFFICES ASSUME IInv PROVE CacheCurrent
    OBVIOUS
  <2>1. ASSUME NEW p \in Procs, pc[p] = "idle", There, Hit(p)
        PROVE  /\ cache[p].value = cache[p].raw
               /\ p \notin collided => file.state = "good" /\ cache[p].value = file.records
    <3>1. at[p] = "no"
      BY <2>1 DEF IInv, Placed, Typed, UpdateTyped, Ats
    <3> QED BY <2>1, <3>1 DEF IInv, Sound, CacheSound
  <2> QED BY <2>1, TypedMeans DEF IInv, CacheCurrent
<1> QED BY <1>1, SpecInv, PTL

\* What is written is one change to the file as it is, unless the update lapsed.
LEMMA WriteIsUpdate ==
  ASSUME IInv, NEW p \in Procs, Write(p)
  PROVE  Lapse \/ Atomic!Update
<1>1. /\ file.state # "damaged"
      /\ file'.state = "good" /\ file'.records = buffer[p] /\ UNCHANGED restores
      /\ lapses' = IF forgetful[p] THEN lapses + 1 ELSE lapses
  BY DEF Write, Replace, IInv, Sound, UpdateSound, Writes
<1>2. PICK r \in Records : buffer[p] = IF forgetful[p] THEN {r} ELSE Toggle(file.records, r)
  BY DEF Write, IInv, Sound, UpdateSound, Writes
<1>3. CASE forgetful[p]
  BY <1>1, <1>3 DEF Lapse, IInv, Typed, CountTyped
<1>4. CASE ~forgetful[p]
  BY <1>1, <1>2, <1>4 DEF Atomic!Update, Atomic!Toggle, Toggle
<1> QED BY <1>3, <1>4

\* The store implements the register of AtomicStore but for the updates that
\* lapse: the file is replaced by one change of what is in it or by hand, and
\* nothing else moves it.
THEOREM Implements == Spec => ImplementsAtomicStore
<1>1. Init => Atomic!Init
  BY DEF Init, Atomic!Init
<1>2. IInv /\ IInv' /\ [Next]_vars => [Lapse \/ [Atomic!Next]_(Atomic!vars)]_vars
  <2> SUFFICES ASSUME IInv, IInv', [Next]_vars
               PROVE  Lapse \/ Atomic!Next \/ UNCHANGED Atomic!vars
    OBVIOUS
  <2>1. ASSUME NEW p \in Procs, Write(p) PROVE Lapse \/ Atomic!Next
    BY <2>1, WriteIsUpdate DEF Atomic!Next
  <2>2. CASE Restore
    <3>1. file'.records \in SUBSET Records /\ (file'.state = "damaged") \in BOOLEAN
          /\ restores' = restores + 1
      BY <2>2 DEF Restore, IInv, Typed, FileTyped, Files
    <3> QED BY <3>1 DEF Atomic!Next, Atomic!Restore
  <2>3. CASE UNCHANGED <<file, restores>>
    BY <2>3 DEF Atomic!vars
  <2>4. ASSUME NEW p \in Procs, ~Write(p),
               \/ Begin(p) \/ UpdateStep(p) \/ ReadBegins(p) \/ ReadMissing(p) \/ ReadStep(p)
               \/ Crash(p)
        PROVE  UNCHANGED <<file, restores>>
    BY <2>4 DEF Begin, UpdateStep, StrictRead, StrictReadThrows, Look, LookFails, NoChange,
       WriteFails, Written, ReadBegins, ReadMissing, ReadStep, ReadEnds, ReadFails, Crash, storeVars
  <2> QED BY <2>1, <2>2, <2>3, <2>4 DEF Next, vars, storeVars
<1> QED BY <1>1, <1>2, SpecInv, PTL DEF Spec, ImplementsAtomicStore
-----------------------------------------------------------------------------
(***************************************************************************)
(* What the lock directory says.                                           *)
(***************************************************************************)
\* Whoever is in its update has its own, young record in the directory, and the record of
\* an acquisition that is not over is of one in its update; a directory that nobody made or holds
\* was left by a crash or a call that failed.
NamesHolder ==
  \A p \in Procs : pc[p] \in {"in", "out"} => dir.there /\ dir.owner = p /\ dir.age = "fresh"
MadeByOwner ==
  \A p \in Procs : pc[p] = "own" => dir.there /\ dir.owner = None /\ dir.age = "fresh"
NamesNoOther == dir.owner \in Procs => pc[dir.owner] \in {"in", "out"}
LeftByFault ==
  dir.there /\ faults = 0 => \E p \in Procs : pc[p] \in {"own", "in", "out"}
DirectoryInv == NamesHolder /\ MadeByOwner /\ NamesNoOther /\ LeftByFault

LEMMA DirectoryInit == Init => DirectoryInv
BY LockAssumption DEF Init, LockInit, Absent, DirectoryInv, NamesHolder, MadeByOwner, NamesNoOther,
   LeftByFault

\* Only one process is anywhere but idle, so nobody else's place in the lock matters.
LEMMA OwnDirectory ==
  ASSUME IInv, NEW p \in Procs, pc[p] # "idle"
  PROVE  sql = p /\ \A q \in Procs \ {p} : pc[q] = "idle"
BY DEF IInv, Alone

\* A step of p's own that leaves no fault behind is judged by where it takes p.
LEMMA OwnStep ==
  ASSUME IInv, DirectoryInv, NEW p \in Procs, pc[p] # "idle",
         pc' \in [Procs -> PCs], \A q \in Procs \ {p} : pc'[q] = pc[q],
         faults' \in Nat, faults' = 0 => faults = 0,
         pc'[p] \in {"in", "out"} => dir'.there /\ dir'.owner = p /\ dir'.age = "fresh",
         pc'[p] = "own" => dir'.there /\ dir'.owner = None /\ dir'.age = "fresh",
         pc'[p] \notin {"in", "out"} => dir'.owner \notin Procs,
         dir'.there /\ faults' = 0 => pc'[p] \in {"own", "in", "out"}
  PROVE  DirectoryInv'
<1>1. \A q \in Procs \ {p} : pc'[q] = "idle"
  BY OwnDirectory
<1> QED
  BY <1>1, LockAssumption DEF DirectoryInv, NamesHolder, MadeByOwner, NamesNoOther, LeftByFault

\* Before p has its directory, it names nobody who lives, and is there only after a fault.
LEMMA NobodysDirectory ==
  ASSUME IInv, DirectoryInv, NEW p \in Procs, pc[p] \notin {"idle", "own", "in", "out"}
  PROVE  dir.owner \notin Procs /\ (dir.there => faults # 0)
BY OwnDirectory DEF DirectoryInv, NamesNoOther, LeftByFault

LEMMA LockStepDirectory ==
  ASSUME IInv, DirectoryInv, NEW p \in Procs, LockStep(p)
  PROVE  DirectoryInv'
<1> USE DEF GoTo
<1>1. /\ pc \in [Procs -> PCs] /\ faults \in Nat /\ MaxFaults \in Nat
      /\ dir \in [there : BOOLEAN, owner : Procs \cup {None, Dead, Recycled}, age : Ages]
  BY LockAssumption DEF IInv, Typed, LockTyped, FaultTyped, DirTyped, Dirs
<1>2. CASE LockTaken(p)
  BY <1>1, <1>2, OwnStep, LockAssumption DEF LockTaken, Created, PCs
<1>3. CASE LockOwned(p)
  <2>1. dir.there /\ dir.owner = None /\ dir.age = "fresh"
    BY <1>3 DEF LockOwned, DirectoryInv, MadeByOwner
  <2>2. dir'.there /\ dir'.owner = p /\ dir'.age = "fresh"
    BY <1>1, <1>3, <2>1 DEF LockOwned
  <2> QED
    BY <1>1, <1>3, <2>2, OwnStep DEF LockOwned, PCs
<1>4. CASE LockOwnerFails(p)
  BY <1>1, <1>4, OwnStep, LockAssumption DEF LockOwnerFails, Fault, Absent, PCs
<1>5. CASE ReclaimTaken(p) \/ ReclaimCleared(p)
  BY <1>1, <1>5, OwnStep, NobodysDirectory DEF ReclaimTaken, ReclaimCleared, PCs
<1>6. CASE ReclaimOwned(p) \/ ReclaimReturned(p)
  BY <1>1, <1>6, OwnStep, NobodysDirectory DEF ReclaimOwned, ReclaimReturned, PCs
<1>7. CASE ReclaimFails(p)
  BY <1>1, <1>7, OwnStep, NobodysDirectory DEF ReclaimFails, Fault, PCs
<1>8. CASE Rechecked(p)
  BY <1>1, <1>8, OwnStep, NobodysDirectory, LockAssumption DEF Rechecked, Absent, PCs
<1>9. CASE LockTimesOut(p)
  BY <1>1, <1>9, OwnStep, NobodysDirectory DEF LockTimesOut, PCs
<1>10. CASE Unlock(p)
  <2>1. dir.owner = p
    BY <1>10 DEF Unlock, DirectoryInv, NamesHolder
  <2> QED
    BY <1>1, <1>10, <2>1, OwnStep, LockAssumption DEF Unlock, Absent, PCs
<1>11. CASE Close(p)
  BY <1>1, <1>11, OwnStep, NobodysDirectory DEF Close, PCs
<1>12. CASE UnlockFails(p)
  <2>1. PICK owner \in {None, Recycled} : dir' = LeftBy(p, dir, owner)
    BY <1>12 DEF UnlockFails
  <2>2. dir.owner = p
    BY <1>12 DEF UnlockFails, DirectoryInv, NamesHolder
  <2>3. dir'.owner \notin Procs
    BY <1>1, <2>1, <2>2, LockAssumption DEF LeftBy
  <2> QED
    BY <1>1, <1>12, <2>3, OwnStep DEF UnlockFails, Fault, PCs
<1> QED
  BY <1>2, <1>3, <1>4, <1>5, <1>6, <1>7, <1>8, <1>9, <1>10, <1>11, <1>12 DEF LockStep

LEMMA UpdateStepDirectory ==
  ASSUME IInv, DirectoryInv, NEW p \in Procs, UpdateStep(p)
  PROVE  DirectoryInv'
<1>1. CASE LockStep(p)
  BY <1>1, LockStepDirectory
<1>2. CASE ~LockStep(p)
  <2>1. /\ pc[p] = "in" /\ pc'[p] \in {"in", "out"} /\ dir' = dir
        /\ pc' \in [Procs -> PCs] /\ \A q \in Procs \ {p} : pc'[q] = pc[q]
        /\ faults' \in Nat /\ (faults' = 0 => faults = 0)
    BY <1>2, LockAssumption
       DEF UpdateStep, StrictRead, StrictReadThrows, Look, LookFails, NoChange, Write, WriteFails,
           Written, Throws, GoTo, Fault, Outside, IInv, Typed, LockTyped, FaultTyped, Placed, PCs, lockVars
  <2>2. dir.there /\ dir.owner = p /\ dir.age = "fresh"
    BY <2>1 DEF DirectoryInv, NamesHolder
  <2> QED
    BY <2>1, <2>2, OwnStep
<1> QED
  BY <1>1, <1>2

LEMMA CrashDirectory ==
  ASSUME IInv, DirectoryInv, NEW p \in Procs, LockCrash(p)
  PROVE  DirectoryInv'
<1>1. PICK pid \in {Dead, Recycled} : dir' = LeftBy(p, dir, pid)
  BY DEF LockCrash
<1>2. /\ dir'.there = dir.there /\ dir'.age = dir.age
      /\ dir'.owner = IF dir.owner = p THEN pid ELSE dir.owner
  BY <1>1 DEF IInv, Typed, DirTyped, Dirs, LeftBy
<1>3. /\ pc'[p] = "idle" /\ \A q \in Procs \ {p} : pc'[q] = pc[q]
      /\ faults' = faults + 1 /\ faults \in Nat
  BY DEF LockCrash, GoTo, Fault, IInv, Typed, LockTyped, FaultTyped
<1>4. pid \notin Procs
  BY LockAssumption
<1> QED
  BY <1>2, <1>3, <1>4, LockAssumption
     DEF DirectoryInv, NamesHolder, MadeByOwner, NamesNoOther, LeftByFault

LEMMA DirectoryStep == IInv /\ DirectoryInv /\ [Next]_vars => DirectoryInv'
<1> SUFFICES ASSUME IInv, DirectoryInv, [Next]_vars PROVE DirectoryInv'
  OBVIOUS
<1>1. ASSUME NEW p \in Procs, Begin(p) PROVE DirectoryInv'
  <2>1. \A q \in Procs : pc[q] = "idle"
    BY <1>1, LockAssumption DEF Begin, LockBegins, IInv, Alone
  <2>2. dir.owner \notin Procs /\ (dir.there => faults # 0)
    BY <2>1 DEF DirectoryInv, NamesNoOther, LeftByFault
  <2>3. pc'[p] = "lock" /\ (\A q \in Procs \ {p} : pc'[q] = pc[q]) /\ UNCHANGED <<dir, faults>>
    BY <1>1 DEF Begin, LockBegins, GoTo, IInv, Typed, LockTyped
  <2> QED
    BY <2>1, <2>2, <2>3 DEF DirectoryInv, NamesHolder, MadeByOwner, NamesNoOther, LeftByFault
<1>2. ASSUME NEW p \in Procs, UpdateStep(p) PROVE DirectoryInv'
  BY <1>2, UpdateStepDirectory
<1>3. ASSUME NEW p \in Procs, ReadBegins(p) \/ ReadMissing(p) \/ ReadEnds(p) PROVE DirectoryInv'
  BY <1>3 DEF ReadBegins, ReadMissing, ReadEnds, lockVars, DirectoryInv, NamesHolder, MadeByOwner,
     NamesNoOther, LeftByFault
<1>4. CASE Restore \/ \E p \in Procs : ReadFails(p)
  <2>1. UNCHANGED <<dir, pc>> /\ faults' # 0
    BY <1>4 DEF Restore, ReadFails, Outside, Fault, IInv, Typed, FaultTyped
  <2> QED
    BY <2>1 DEF DirectoryInv, NamesHolder, MadeByOwner, NamesNoOther, LeftByFault
<1>5. ASSUME NEW p \in Procs, Crash(p) PROVE DirectoryInv'
  BY <1>5, CrashDirectory DEF Crash
<1>6. CASE DirAges
  <2>1. \A q \in Procs : pc[q] = "idle"
    BY <1>6, LockAssumption DEF DirAges, IInv, Alone
  <2>2. dir'.there = dir.there /\ dir'.owner = dir.owner /\ UNCHANGED <<pc, faults>>
    BY <1>6 DEF DirAges, Older, IInv, Typed, DirTyped, Dirs
  <2> QED
    BY <2>1, <2>2 DEF DirectoryInv, NamesHolder, MadeByOwner, NamesNoOther, LeftByFault
<1>7. CASE ReclaimAges \/ UNCHANGED vars
  BY <1>7 DEF ReclaimAges, vars, lockVars, DirectoryInv, NamesHolder, MadeByOwner, NamesNoOther,
     LeftByFault
<1> QED
  BY <1>1, <1>2, <1>3, <1>4, <1>5, <1>6, <1>7 DEF Next, ReadStep

\* While a process is in its update the directory is there with its own record, too young
\* for anyone to take over; the record of an acquisition that is not over is of one in its
\* update; and a directory that nobody made or holds has been left by a crash or a failed
\* call (withDirectoryLock, abandoned).
THEOREM DirectoryNamesHolder ==
  Spec => [](/\ \A p \in Procs : pc[p] \in {"in", "out"} =>
                  dir.there /\ dir.owner = p /\ ~Abandoned(dir)
             /\ dir.owner \in Procs => pc[dir.owner] \in {"in", "out"}
             /\ dir.there /\ faults = 0 => \E p \in Procs : pc[p] \in {"own", "in", "out"})
<1>1. IInv /\ DirectoryInv =>
        /\ \A p \in Procs : pc[p] \in {"in", "out"} =>
             dir.there /\ dir.owner = p /\ ~Abandoned(dir)
        /\ dir.owner \in Procs => pc[dir.owner] \in {"in", "out"}
        /\ dir.there /\ faults = 0 => \E p \in Procs : pc[p] \in {"own", "in", "out"}
  BY LockAssumption DEF DirectoryInv, NamesHolder, NamesNoOther, LeftByFault, Abandoned
<1> QED
  BY <1>1, DirectoryInit, DirectoryStep, SpecInv, PTL DEF Spec
=============================================================================
