-------------------------- MODULE FlockCountProofs --------------------------
(***************************************************************************)
(* The third layer of the proofs about FileFlock: the counters of every     *)
(* flock_t, and mutual exclusion.                                           *)
(***************************************************************************)
EXTENDS FileFlockProofs

USE DEF FlockState, Held, LockType, FLOCK_INACTIVE, FLOCK_SHARED, FLOCK_EXCLUSIVE,
        NONE, LOCK_SH, LOCK_EX, BAD

-----------------------------------------------------------------------------
(* The third layer: the counters of every flock_t.                           *)

\* waiting_shared and waiting_exclusive count the threads in the while loops.
WaitsCounted ==
  \A i \in Inode : /\ flock[i].waiting_shared    = Cardinality(Waiters(i, LOCK_SH))
                   /\ flock[i].waiting_exclusive = Cardinality(Waiters(i, LOCK_EX))

Counted == StateAgrees /\ WaitsCounted

\* The sets behind the counters of one flock_t are finite.
LEMMA FiniteHolders ==
  ASSUME NEW i, NEW t
  PROVE  /\ IsFiniteSet(FileHolders(i, t)) /\ Cardinality(FileHolders(i, t)) \in Nat
         /\ IsFiniteSet(Closers(i, t)) /\ Cardinality(Closers(i, t)) \in Nat
         /\ IsFiniteSet(Waiters(i, t)) /\ Cardinality(Waiters(i, t)) \in Nat
         /\ Holders(i, t) \in Nat
<1>1. /\ FileHolders(i, t) \in SUBSET File /\ Closers(i, t) \in SUBSET Pid
      /\ Waiters(i, t) \in SUBSET Pid
  BY DEF FileHolders, Closers, Waiters, WaitingOn
<1>2. /\ IsFiniteSet(FileHolders(i, t)) /\ Cardinality(FileHolders(i, t)) \in Nat
      /\ IsFiniteSet(Closers(i, t)) /\ Cardinality(Closers(i, t)) \in Nat
      /\ IsFiniteSet(Waiters(i, t)) /\ Cardinality(Waiters(i, t)) \in Nat
  BY <1>1, Finite
<1> QED
  BY <1>2 DEF Holders

\* An open file that holds a lock is counted.
LEMMA HolderCounts ==
  ASSUME NEW i, NEW t, NEW f \in FileHolders(i, t)
  PROVE  Holders(i, t) > 0
<1>1. Cardinality(FileHolders(i, t)) > 0
  BY Zenon, FiniteHolders, CardDel
<1> QED
  BY <1>1, FiniteHolders DEF Holders

\* Two open files that hold a lock of the same type are counted twice.
LEMMA TwoHoldersCount ==
  ASSUME NEW i, NEW t, NEW f \in FileHolders(i, t), NEW g \in FileHolders(i, t), f # g
  PROVE  Holders(i, t) > 1
<1> DEFINE S == FileHolders(i, t)
<1>1. IsFiniteSet(S) /\ Cardinality(S) \in Nat
  BY FiniteHolders
<1>2. IsFiniteSet(S \ {f}) /\ Cardinality(S \ {f}) = Cardinality(S) - 1
  BY <1>1, FS_RemoveElement
<1>3. Cardinality(S \ {f}) > 0
  <2>1. g \in S \ {f}
    OBVIOUS
  <2> HIDE DEF S
  <2> QED
    BY Zenon, <1>2, <2>1, CardDel
<1> QED
  BY <1>1, <1>2, <1>3, FiniteHolders DEF Holders

\* StateAgrees in the form of the lemmas on Flock.
LEMMA StateAgreesForm ==
  StateAgrees <=> \A i \in Inode : Agrees(flock[i], Holders(i, LOCK_SH), Holders(i, LOCK_EX))
BY DEF StateAgrees, Agrees

\* Nobody holds or waits for the lock of an entry that nothing refers to.
LEMMA UnreferencedIdle ==
  ASSUME Shape, NEW i \in Inode, RefFiles(i) = {}, RefCalls(i) = {}, NEW t
  PROVE  FileHolders(i, t) = {} /\ Closers(i, t) = {} /\ Waiters(i, t) = {}
<1>1. FileHolders(i, t) = {}
  BY DEF RefFiles, FileHolders
<1>2. Closers(i, t) = {}
  BY DEF RefCalls, Closers
<1>3. Waiters(i, t) = {}
  <2> SUFFICES ASSUME NEW q \in Waiters(i, t) PROVE FALSE
    OBVIOUS
  <2>1. q \in Pid /\ pc[q] = "wait" /\ call[q].ip = i
    BY DEF Waiters, WaitingOn
  <2>2. /\ call[q].file \in openfiles[q]
        /\ file[call[q].file] = [ref |-> 1, ip |-> call[q].ip, holding |-> NONE]
    BY <2>1 DEF Shape, CallShape
  <2>3. call[q].file \in File
    BY <2>1, <2>2 DEF Shape, TypeOK
  <2>4. file[call[q].file].ref = 1 /\ file[call[q].file].ip = i
    BY <2>1, <2>2
  <2> QED
    BY <2>3, <2>4 DEF RefFiles
<1> QED
  BY <1>1, <1>2, <1>3

\* Nobody holds or waits when the kernel has booted.
LEMMA CountedInit == Init => Counted
<1> SUFFICES ASSUME Init PROVE Counted
  OBVIOUS
<1>1. \A i \in Inode, t \in LockType :
        FileHolders(i, t) = {} /\ Closers(i, t) = {} /\ Waiters(i, t) = {}
  BY DEF Init, DataInit, FileHolders, Closers, Waiters, WaitingOn
<1>2. \A i \in Inode, t \in LockType : Holders(i, t) = 0 /\ Cardinality(Waiters(i, t)) = 0
  BY <1>1, FS_EmptySet DEF Holders
<1>3. \A i \in Inode : flock[i] = flock_init
  BY DEF Init, DataInit
<1> QED
  BY <1>2, <1>3, StateAgreesForm, FlockInit DEF Counted, WaitsCounted

\* Steps that change neither a flock_t nor who holds it or waits for it.
LEMMA CountedSame ==
  ASSUME Counted, flock' = flock,
         \A i \in Inode, t \in LockType : /\ FileHolders(i, t)' = FileHolders(i, t)
                                          /\ Closers(i, t)' = Closers(i, t)
                                          /\ Waiters(i, t)' = Waiters(i, t)
  PROVE  Counted'
BY DEF Counted, StateAgrees, WaitsCounted, Holders

\* Steps that concern the flock_t of one entry only.
LEMMA CountedAt ==
  ASSUME Counted, NEW i \in Inode,
         \A j \in Inode \ {i} : flock'[j] = flock[j],
         \A j \in Inode \ {i}, t \in LockType : /\ Holders(j, t)' = Holders(j, t)
                                                /\ Waiters(j, t)' = Waiters(j, t),
         Agrees(flock'[i], Holders(i, LOCK_SH)', Holders(i, LOCK_EX)'),
         flock'[i].waiting_shared = Cardinality(Waiters(i, LOCK_SH)'),
         flock'[i].waiting_exclusive = Cardinality(Waiters(i, LOCK_EX)')
  PROVE  Counted'
<1>1. \A j \in Inode : Agrees(flock'[j], Holders(j, LOCK_SH)', Holders(j, LOCK_EX)')
  <2>1. \A j \in Inode \ {i} : Agrees(flock'[j], Holders(j, LOCK_SH)', Holders(j, LOCK_EX)')
    BY StateAgreesForm DEF Counted
  <2> QED
    BY <2>1
<1>2. \A j \in Inode : /\ flock'[j].waiting_shared = Cardinality(Waiters(j, LOCK_SH)')
                       /\ flock'[j].waiting_exclusive = Cardinality(Waiters(j, LOCK_EX)')
  BY DEF Counted, WaitsCounted
<1>3. StateAgrees'
  BY <1>1 DEF StateAgrees, Agrees
<1> QED
  BY <1>2, <1>3 DEF Counted, WaitsCounted

\* A release of a lock of type h on entry i, told by what becomes of the sets.
LEMMA CountedRelease ==
  ASSUME Shape, Counted, NEW i \in Inode, NEW h \in LockType,
         flock' = [flock EXCEPT ![i] = flock_release(@, h)],
         Holders(i, h) > 0, Holders(i, h)' = Holders(i, h) - 1,
         \A j \in Inode, t \in LockType : <<j, t>> # <<i, h>> => Holders(j, t)' = Holders(j, t),
         \A j \in Inode, t \in LockType : Waiters(j, t)' = Waiters(j, t)
  PROVE  Counted'
<1>1. flock \in [Inode -> FlockT] /\ flock[i] \in FlockT
  BY DEF Shape, TypeOK
<1>2. /\ flock'[i] = flock_release(flock[i], h)
      /\ \A j \in Inode \ {i} : flock'[j] = flock[j]
  BY <1>1
<1>3. Holders(i, LOCK_SH) \in Nat /\ Holders(i, LOCK_EX) \in Nat
  BY FiniteHolders
<1>4. Agrees(flock[i], Holders(i, LOCK_SH), Holders(i, LOCK_EX))
  BY StateAgreesForm DEF Counted
<1>5. Agrees(flock'[i], Holders(i, LOCK_SH)', Holders(i, LOCK_EX)')
  <2>1. Agrees(flock'[i], Holders(i, LOCK_SH) - (IF h = LOCK_SH THEN 1 ELSE 0),
                          Holders(i, LOCK_EX) - (IF h = LOCK_EX THEN 1 ELSE 0))
    BY <1>1, <1>2, <1>3, <1>4, ReleaseAgrees
  <2>2. /\ Holders(i, LOCK_SH)' = Holders(i, LOCK_SH) - (IF h = LOCK_SH THEN 1 ELSE 0)
        /\ Holders(i, LOCK_EX)' = Holders(i, LOCK_EX) - (IF h = LOCK_EX THEN 1 ELSE 0)
    BY <1>3
  <2> QED
    BY <2>1, <2>2
<1>6. /\ flock'[i].waiting_shared = flock[i].waiting_shared
      /\ flock'[i].waiting_exclusive = flock[i].waiting_exclusive
  BY <1>1, <1>2, ReleaseWaiting
<1> QED
  BY <1>2, <1>5, <1>6, CountedAt DEF Counted, WaitsCounted

\* A grant of a lock of type h on entry i, to a new request or to a waiting one
\* (which w tells): the flock_t granted is gl.
LEMMA CountedGrant ==
  ASSUME Shape, Counted, NEW i \in Inode, NEW h \in LockType, NEW gl \in FlockT,
         flock' = [flock EXCEPT ![i] = Grant(gl, h)],
         gl.state = flock[i].state, gl.shared_holders = flock[i].shared_holders,
         ~ MustWait(flock[i], h),
         Holders(i, h)' = Holders(i, h) + 1,
         \A j \in Inode, t \in LockType : <<j, t>> # <<i, h>> => Holders(j, t)' = Holders(j, t),
         \A j \in Inode \ {i}, t \in LockType : Waiters(j, t)' = Waiters(j, t),
         h = LOCK_SH => gl.waiting_exclusive = flock[i].waiting_exclusive,
         gl.waiting_shared = Cardinality(Waiters(i, LOCK_SH)'),
         gl.waiting_exclusive = Cardinality(Waiters(i, LOCK_EX)')
  PROVE  Counted'
<1>1. flock \in [Inode -> FlockT] /\ flock[i] \in FlockT
  BY DEF Shape, TypeOK
<1>2. /\ flock'[i] = Grant(gl, h)
      /\ \A j \in Inode \ {i} : flock'[j] = flock[j]
  BY <1>1
<1>3. Holders(i, LOCK_SH) \in Nat /\ Holders(i, LOCK_EX) \in Nat
  BY FiniteHolders
<1>4. Agrees(gl, Holders(i, LOCK_SH), Holders(i, LOCK_EX))
  BY StateAgreesForm DEF Counted, Agrees
<1>5. ~ MustWait(gl, h)
  BY DEF MustWait
<1>6. Agrees(flock'[i], Holders(i, LOCK_SH)', Holders(i, LOCK_EX)')
  <2>1. Agrees(flock'[i], Holders(i, LOCK_SH) + (IF h = LOCK_SH THEN 1 ELSE 0),
                          Holders(i, LOCK_EX) + (IF h = LOCK_EX THEN 1 ELSE 0))
    BY <1>2, <1>3, <1>4, <1>5, GrantAgrees
  <2>2. /\ Holders(i, LOCK_SH)' = Holders(i, LOCK_SH) + (IF h = LOCK_SH THEN 1 ELSE 0)
        /\ Holders(i, LOCK_EX)' = Holders(i, LOCK_EX) + (IF h = LOCK_EX THEN 1 ELSE 0)
    BY <1>3
  <2> QED
    BY <2>1, <2>2
<1>7. /\ flock'[i].waiting_shared = gl.waiting_shared
      /\ flock'[i].waiting_exclusive = gl.waiting_exclusive
  BY <1>2, GrantWaiting
<1> QED
  BY <1>2, <1>6, <1>7, CountedAt

\* A request that starts to wait for a lock of type h on entry i.
LEMMA CountedWait ==
  ASSUME Shape, Counted, NEW i \in Inode, NEW h \in LockType, NEW p \in Pid,
         flock' = [flock EXCEPT ![i] = StartWait(@, p, h)],
         \A j \in Inode, t \in LockType : Holders(j, t)' = Holders(j, t),
         p \notin Waiters(i, h), Waiters(i, h)' = Waiters(i, h) \cup {p},
         \A j \in Inode, t \in LockType : <<j, t>> # <<i, h>> => Waiters(j, t)' = Waiters(j, t)
  PROVE  Counted'
<1>1. flock \in [Inode -> FlockT] /\ flock[i] \in FlockT
  BY DEF Shape, TypeOK
<1>2. /\ flock'[i] = StartWait(flock[i], p, h)
      /\ \A j \in Inode \ {i} : flock'[j] = flock[j]
  BY <1>1
<1>3. Cardinality(Waiters(i, h)') = Cardinality(Waiters(i, h)) + 1
  BY FiniteHolders, CardAdd
<1>4. Agrees(flock'[i], Holders(i, LOCK_SH)', Holders(i, LOCK_EX)')
  BY <1>1, <1>2, StartWaitFields, StateAgreesForm DEF Counted, Agrees
<1>5. /\ flock'[i].waiting_shared = Cardinality(Waiters(i, LOCK_SH)')
      /\ flock'[i].waiting_exclusive = Cardinality(Waiters(i, LOCK_EX)')
  <2>1. /\ flock[i].waiting_shared = Cardinality(Waiters(i, LOCK_SH))
        /\ flock[i].waiting_exclusive = Cardinality(Waiters(i, LOCK_EX))
        /\ Cardinality(Waiters(i, LOCK_SH)) \in Nat
        /\ Cardinality(Waiters(i, LOCK_EX)) \in Nat
    BY FiniteHolders DEF Counted, WaitsCounted
  <2>2. /\ flock'[i].waiting_shared = flock[i].waiting_shared + (IF h = LOCK_SH THEN 1 ELSE 0)
        /\ flock'[i].waiting_exclusive =
             flock[i].waiting_exclusive + (IF h = LOCK_EX THEN 1 ELSE 0)
    BY <1>1, <1>2, StartWaitFields
  <2>3. CASE h = LOCK_SH
    <3>1. Waiters(i, LOCK_EX)' = Waiters(i, LOCK_EX)
      BY <2>3
    <3>2. Cardinality(Waiters(i, LOCK_SH)') = Cardinality(Waiters(i, LOCK_SH)) + 1
      BY <1>3, <2>3
    <3> QED
      BY <2>1, <2>2, <2>3, <3>1, <3>2
  <2>4. CASE h = LOCK_EX
    <3>1. Waiters(i, LOCK_SH)' = Waiters(i, LOCK_SH)
      BY <2>4
    <3>2. Cardinality(Waiters(i, LOCK_EX)') = Cardinality(Waiters(i, LOCK_EX)) + 1
      BY <1>3, <2>4
    <3> QED
      BY <2>1, <2>2, <2>4, <3>1, <3>2
  <2> QED
    BY <2>3, <2>4
<1> QED
  BY <1>2, <1>4, <1>5, CountedAt

\* inode_get runs flock_init on an entry that nothing refers to.
LEMMA CountedRecycled ==
  ASSUME Shape, Counted, NEW i \in Inode, RefFiles(i) = {}, RefCalls(i) = {},
         flock' = [flock EXCEPT ![i] = flock_init],
         \A j \in Inode, t \in LockType : /\ FileHolders(j, t)' = FileHolders(j, t)
                                          /\ Closers(j, t)' = Closers(j, t)
                                          /\ Waiters(j, t)' = Waiters(j, t)
  PROVE  Counted'
<1>1. flock \in [Inode -> FlockT]
  BY DEF Shape, TypeOK
<1>2. flock'[i] = flock_init /\ \A j \in Inode \ {i} : flock'[j] = flock[j]
  BY <1>1
<1>3. \A t \in LockType : /\ FileHolders(i, t)' = {} /\ Closers(i, t)' = {}
                          /\ Waiters(i, t)' = {}
  BY UnreferencedIdle
<1>4. \A t \in LockType : Holders(i, t)' = 0 /\ Cardinality(Waiters(i, t)') = 0
  BY <1>3, FS_EmptySet DEF Holders
<1>5. \A j \in Inode, t \in LockType : Holders(j, t)' = Holders(j, t)
  BY DEF Holders
<1>6. Agrees(flock'[i], Holders(i, LOCK_SH)', Holders(i, LOCK_EX)')
  BY <1>2, <1>4, FlockInit
<1> QED
  BY <1>2, <1>4, <1>5, <1>6, FlockInit, CountedAt

\* The sets behind the counters of the flock_t do not change.
SameHolders ==
  \A i \in Inode, t \in LockType : /\ FileHolders(i, t)' = FileHolders(i, t)
                                   /\ Closers(i, t)' = Closers(i, t)
SameWaiters == \A i \in Inode, t \in LockType : Waiters(i, t)' = Waiters(i, t)

\* Every step keeps the counters right.
LEMMA CountedStep ==
  ASSUME Shape, ReferencesCounted, Counted, NEW p \in Pid, StepOf(p)
  PROVE  Counted'
<1> USE DEF Goto, Return
<1>0. /\ file \in [File -> FileT] /\ openfiles \in [Pid -> SUBSET File]
      /\ pc \in [Pid -> Place] /\ call \in [Pid -> Call] /\ CallShape(p)
  BY Types DEF Shape
<1>1. ASSUME SameHolders
      PROVE  \A i \in Inode, t \in LockType : Holders(i, t)' = Holders(i, t)
  BY <1>1 DEF SameHolders, Holders
<1>2. ASSUME file' = file
      PROVE  \A i \in Inode, t \in LockType : FileHolders(i, t)' = FileHolders(i, t)
  BY <1>2 DEF FileHolders
<1>3. ASSUME pc' \in [Pid -> Place], pc[p] # "wait", pc'[p] # "wait",
             \A q \in Pid \ {p} : pc'[q] = pc[q] /\ call'[q] = call[q]
      PROVE  SameWaiters
  BY <1>3 DEF SameWaiters, Waiters, WaitingOn
<1>4. ASSUME pc[p] # "release", pc'[p] # "release",
             \A q \in Pid \ {p} : pc'[q] = pc[q] /\ call'[q] = call[q]
      PROVE  \A i \in Inode, t \in LockType : Closers(i, t)' = Closers(i, t)
  BY <1>4 DEF Closers
<1>5. ASSUME flock' = flock, SameHolders, SameWaiters
      PROVE  Counted'
  BY <1>5, CountedSame DEF SameHolders, SameWaiters
<1>6. CASE \E n \in Inum, i \in Inode : GetCached(p, n, i) /\ UNCHANGED asleep
  <2>1. /\ flock' = flock /\ file' = file /\ pc[p] = "user" /\ pc'[p] = "open"
        /\ pc' \in [Pid -> Place]
        /\ \A q \in Pid \ {p} : pc'[q] = pc[q] /\ call'[q] = call[q]
    BY <1>0, <1>6 DEF GetCached, Place
  <2> QED
    BY <2>1, <1>2, <1>3, <1>4, <1>5 DEF SameHolders
<1>7. CASE \E n \in Inum, i \in Inode : GetRecycled(p, n, i) /\ UNCHANGED asleep
  <2> PICK n \in Inum, i \in Inode : GetRecycled(p, n, i)
    BY <1>7
  <2>1. /\ flock' = [flock EXCEPT ![i] = flock_init] /\ inode[i].ref = 0
        /\ file' = file /\ pc[p] = "user" /\ pc'[p] = "open" /\ pc' \in [Pid -> Place]
        /\ \A q \in Pid \ {p} : pc'[q] = pc[q] /\ call'[q] = call[q]
    BY <1>0 DEF GetRecycled, Place
  <2>2. RefFiles(i) = {} /\ RefCalls(i) = {}
    BY <2>1, Unreferenced
  <2>3. \A j \in Inode, t \in LockType : /\ FileHolders(j, t)' = FileHolders(j, t)
                                         /\ Closers(j, t)' = Closers(j, t)
                                         /\ Waiters(j, t)' = Waiters(j, t)
    BY <2>1, <1>2, <1>3, <1>4 DEF SameWaiters
  <2>4. flock' = [flock EXCEPT ![i] = flock_init]
    BY <2>1
  <2> QED
    BY <2>2, <2>3, <2>4, CountedRecycled, Zenon
<1>8. CASE \E f \in File : OpenFile(p, f) /\ UNCHANGED asleep
  <2> PICK f \in File : OpenFile(p, f)
    BY <1>8
  <2>1. /\ flock' = flock /\ pc[p] = "open" /\ pc'[p] = "user" /\ pc' \in [Pid -> Place]
        /\ \A q \in Pid \ {p} : pc'[q] = pc[q] /\ call'[q] = call[q]
        /\ file[f].ref = 0 /\ file'[f].holding = NONE
        /\ \A g \in File \ {f} : file'[g] = file[g]
    BY <1>0 DEF OpenFile, Place
  <2>2. \A i \in Inode, t \in LockType : FileHolders(i, t)' = FileHolders(i, t)
    BY <2>1 DEF FileHolders
  <2> QED
    BY <2>1, <2>2, <1>3, <1>4, <1>5 DEF SameHolders
<1>9. CASE OpenFails(p) /\ UNCHANGED asleep
  <2>1. /\ flock' = flock /\ file' = file /\ pc[p] = "open" /\ pc'[p] = "put"
        /\ pc' \in [Pid -> Place]
        /\ \A q \in Pid \ {p} : pc'[q] = pc[q] /\ call'[q] = call[q]
    BY <1>0, <1>9 DEF OpenFails, Place
  <2> QED
    BY <2>1, <1>2, <1>3, <1>4, <1>5 DEF SameHolders
<1>10. CASE Put(p) /\ UNCHANGED asleep
  <2>1. /\ flock' = flock /\ file' = file /\ pc[p] = "put" /\ pc'[p] = "user"
        /\ pc' \in [Pid -> Place]
        /\ \A q \in Pid \ {p} : pc'[q] = pc[q] /\ call'[q] = call[q]
    BY <1>0, <1>10 DEF Put, Place
  <2> QED
    BY <2>1, <1>2, <1>3, <1>4, <1>5 DEF SameHolders
<1>11. CASE \E f \in File, type \in {LOCK_SH, LOCK_EX, BAD}, nb \in BOOLEAN :
              Lock(p, f, type, nb) /\ UNCHANGED asleep
  <2>1. /\ flock' = flock /\ file' = file /\ pc[p] = "user" /\ pc'[p] = "acquire"
        /\ pc' \in [Pid -> Place]
        /\ \A q \in Pid \ {p} : pc'[q] = pc[q] /\ call'[q] = call[q]
    BY <1>0, <1>11 DEF Lock, Calls, Place
  <2> QED
    BY <2>1, <1>2, <1>3, <1>4, <1>5 DEF SameHolders
<1>12. CASE AcquireRefused(p) /\ UNCHANGED asleep
  <2>1. /\ flock' = flock /\ file' = file /\ pc[p] = "acquire" /\ pc'[p] = "user"
        /\ pc' \in [Pid -> Place]
        /\ \A q \in Pid \ {p} : pc'[q] = pc[q] /\ call'[q] = call[q]
    BY <1>0, <1>12 DEF AcquireRefused, Place
  <2> QED
    BY <2>1, <1>2, <1>3, <1>4, <1>5 DEF SameHolders
<1>13. CASE p \notin asleep /\ ResumeBlocked(p) /\ thread_sleep(p)
  <2>1. SameHolders /\ SameWaiters /\ flock' = flock
    BY <1>13 DEF ResumeBlocked, dataVars, SameHolders, SameWaiters, FileHolders, Closers,
       Waiters, WaitingOn
  <2> QED
    BY <2>1, <1>5
<1>14. ASSUME NEW f \in File, Calls(p, f), file[f].holding # NONE,
              file' = [file EXCEPT ![f].holding = NONE],
              flock' = [flock EXCEPT ![file[f].ip] = flock_release(@, file[f].holding)],
              SameWaiters,
              \A i \in Inode, t \in LockType : Closers(i, t)' = Closers(i, t)
       PROVE  Counted'
  <2>1. file[f].ref = 1 /\ file[f].ip \in Inode /\ file[f].holding \in LockType
    BY <1>0, <1>14, CalledFile DEF FileT
  <2>2. PICK i \in Inode, h \in LockType : i = file[f].ip /\ h = file[f].holding
    BY <2>1
  <2>3. \A g \in File : /\ file'[g].ref = file[g].ref /\ file'[g].ip = file[g].ip
                        /\ file'[g].holding = IF g = f THEN NONE ELSE file[g].holding
    BY <1>0, <1>14, SetHolding
  <2>4. f \in FileHolders(i, h) /\ FileHolders(i, h)' = FileHolders(i, h) \ {f}
    BY <2>1, <2>2, <2>3 DEF FileHolders
  <2>5. \A j \in Inode, t \in LockType :
          <<j, t>> # <<i, h>> => FileHolders(j, t)' = FileHolders(j, t)
    BY <2>1, <2>2, <2>3 DEF FileHolders
  <2>6. Holders(i, h) > 0 /\ Holders(i, h)' = Holders(i, h) - 1
    <3>1. /\ Cardinality(FileHolders(i, h)') = Cardinality(FileHolders(i, h)) - 1
          /\ Cardinality(FileHolders(i, h)) > 0
      BY <2>4, FiniteHolders, CardDel
    <3>2. Cardinality(Closers(i, h)') = Cardinality(Closers(i, h))
      BY <1>14
    <3> QED
      BY <3>1, <3>2, FiniteHolders DEF Holders
  <2>7. \A j \in Inode, t \in LockType : <<j, t>> # <<i, h>> => Holders(j, t)' = Holders(j, t)
    BY <1>14, <2>5 DEF Holders
  <2>8. flock' = [flock EXCEPT ![i] = flock_release(@, h)]
    BY <1>14, <2>2
  <2>9. \A j \in Inode, t \in LockType : Waiters(j, t)' = Waiters(j, t)
    BY <1>14 DEF SameWaiters
  <2> QED
    BY <2>6, <2>7, <2>8, <2>9, CountedRelease, Zenon
<1>15. CASE \E f \in File : Unlock(p, f) /\ Wakeup(file[f].ip, file[f].holding)
  <2> PICK f \in File : Unlock(p, f)
    BY <1>15
  <2>1. SameWaiters /\ \A i \in Inode, t \in LockType : Closers(i, t)' = Closers(i, t)
    BY DEF Unlock, SameWaiters, Waiters, WaitingOn, Closers
  <2>2. /\ Calls(p, f) /\ file[f].holding # NONE
        /\ file' = [file EXCEPT ![f].holding = NONE]
        /\ flock' = [flock EXCEPT ![file[f].ip] = flock_release(@, file[f].holding)]
    BY DEF Unlock
  <2> QED
    BY <2>1, <2>2, <1>14, Zenon
<1>16. CASE \E f \in File, type \in {LOCK_SH, LOCK_EX, BAD}, nb \in BOOLEAN :
              Convert(p, f, type, nb) /\ Wakeup(file[f].ip, file[f].holding)
  <2> PICK f \in File, type \in {LOCK_SH, LOCK_EX, BAD}, nb \in BOOLEAN :
             Convert(p, f, type, nb)
    BY <1>16
  <2>1. /\ pc[p] = "user" /\ pc'[p] = "acquire" /\ pc' \in [Pid -> Place]
        /\ \A q \in Pid \ {p} : pc'[q] = pc[q] /\ call'[q] = call[q]
    BY <1>0 DEF Convert, Calls, Place
  <2>2. SameWaiters /\ \A i \in Inode, t \in LockType : Closers(i, t)' = Closers(i, t)
    BY <2>1, <1>3, <1>4
  <2>3. /\ Calls(p, f) /\ file[f].holding # NONE
        /\ file' = [file EXCEPT ![f].holding = NONE]
        /\ flock' = [flock EXCEPT ![file[f].ip] = flock_release(@, file[f].holding)]
    BY DEF Convert
  <2> QED
    BY <2>2, <2>3, <1>14, Zenon
<1>17. CASE AcquireBlocked(p) /\ thread_sleep(p)
  <2>1. PICK i \in Inode, h \in LockType : i = call[p].ip /\ h = call[p].type
    BY <1>0, <1>17 DEF AcquireBlocked, CallShape
  <2>2. /\ file' = file /\ pc[p] = "acquire" /\ pc'[p] = "wait" /\ pc' \in [Pid -> Place]
        /\ call'[p] = call[p]
        /\ \A q \in Pid \ {p} : pc'[q] = pc[q] /\ call'[q] = call[q]
    BY <1>0, <1>17 DEF AcquireBlocked, Place
  <2>3. flock' = [flock EXCEPT ![i] = StartWait(@, p, h)]
    BY <1>17, <2>1 DEF AcquireBlocked
  <2>4. \A j \in Inode, t \in LockType : Holders(j, t)' = Holders(j, t)
    BY <2>2, <1>1, <1>2, <1>4 DEF SameHolders
  <2>5. p \notin Waiters(i, h) /\ Waiters(i, h)' = Waiters(i, h) \cup {p}
    BY <2>1, <2>2 DEF Waiters, WaitingOn
  <2>6. \A j \in Inode, t \in LockType : <<j, t>> # <<i, h>> => Waiters(j, t)' = Waiters(j, t)
    BY <2>1, <2>2 DEF Waiters, WaitingOn
  <2> QED
    BY <2>3, <2>4, <2>5, <2>6, CountedWait, Zenon
<1>18. ASSUME NEW i \in Inode, NEW h \in LockType, NEW gl \in FlockT,
              i = call[p].ip, h = call[p].type, pc[p] \in {"acquire", "wait"},
              ~ MustWait(flock[i], h),
              flock' = [flock EXCEPT ![i] = Grant(gl, h)],
              file' = [file EXCEPT ![call[p].file].holding = call[p].type],
              gl.state = flock[i].state, gl.shared_holders = flock[i].shared_holders,
              h = LOCK_SH => gl.waiting_exclusive = flock[i].waiting_exclusive,
              \A j \in Inode \ {i}, t \in LockType : Waiters(j, t)' = Waiters(j, t),
              gl.waiting_shared = Cardinality(Waiters(i, LOCK_SH)'),
              gl.waiting_exclusive = Cardinality(Waiters(i, LOCK_EX)'),
              \A j \in Inode, t \in LockType : Closers(j, t)' = Closers(j, t)
       PROVE  Counted'
  <2>1. PICK f \in File : f = call[p].file
    BY <1>0, <1>18 DEF CallShape
  <2>2. file[f].ref = 1 /\ file[f].ip = i /\ file[f].holding = NONE
    BY <1>0, <1>18, <2>1 DEF CallShape
  <2>3. \A g \in File : /\ file'[g].ref = file[g].ref /\ file'[g].ip = file[g].ip
                        /\ file'[g].holding = IF g = f THEN h ELSE file[g].holding
    <3>1. file' = [file EXCEPT ![f].holding = h] /\ h \in Held
      BY <1>18, <2>1
    <3> QED
      BY <1>0, <3>1, SetHolding
  <2>4. f \notin FileHolders(i, h) /\ FileHolders(i, h)' = FileHolders(i, h) \cup {f}
    BY <2>2, <2>3 DEF FileHolders
  <2>5. \A j \in Inode, t \in LockType :
          <<j, t>> # <<i, h>> => FileHolders(j, t)' = FileHolders(j, t)
    BY <2>2, <2>3 DEF FileHolders
  <2>6. Holders(i, h)' = Holders(i, h) + 1
    <3>1. Cardinality(FileHolders(i, h)') = Cardinality(FileHolders(i, h)) + 1
      BY <2>4, FiniteHolders, CardAdd
    <3>2. Cardinality(Closers(i, h)') = Cardinality(Closers(i, h))
      BY <1>18
    <3> QED
      BY <3>1, <3>2, FiniteHolders DEF Holders
  <2>7. \A j \in Inode, t \in LockType : <<j, t>> # <<i, h>> => Holders(j, t)' = Holders(j, t)
    BY <1>18, <2>5 DEF Holders
  <2> QED
    BY <1>18, <2>6, <2>7, CountedGrant, Zenon
<1>19. CASE AcquireGranted(p) /\ UNCHANGED asleep
  <2>1. PICK i \in Inode, h \in LockType : i = call[p].ip /\ h = call[p].type
    BY <1>0, <1>19 DEF AcquireGranted, CallShape
  <2>2. /\ pc[p] = "acquire" /\ pc'[p] = "user" /\ pc' \in [Pid -> Place]
        /\ \A q \in Pid \ {p} : pc'[q] = pc[q] /\ call'[q] = call[q]
    BY <1>0, <1>19 DEF AcquireGranted, Place
  <2>3. SameWaiters /\ \A j \in Inode, t \in LockType : Closers(j, t)' = Closers(j, t)
    BY <2>2, <1>3, <1>4
  <2>4. PICK gl \in FlockT : gl = flock[i]
    BY DEF Shape, TypeOK
  <2>5. /\ ~ MustWait(flock[i], h)
        /\ flock' = [flock EXCEPT ![i] = Grant(gl, h)]
        /\ file' = [file EXCEPT ![call[p].file].holding = call[p].type]
    BY <1>19, <2>1, <2>4 DEF AcquireGranted
  <2>6. /\ gl.waiting_shared = Cardinality(Waiters(i, LOCK_SH)')
        /\ gl.waiting_exclusive = Cardinality(Waiters(i, LOCK_EX)')
    BY <2>3, <2>4 DEF SameWaiters, Counted, WaitsCounted
  <2>7. /\ gl.state = flock[i].state /\ gl.shared_holders = flock[i].shared_holders
        /\ gl.waiting_exclusive = flock[i].waiting_exclusive
        /\ pc[p] \in {"acquire", "wait"}
        /\ \A j \in Inode \ {i}, t \in LockType : Waiters(j, t)' = Waiters(j, t)
    BY <2>2, <2>3, <2>4 DEF SameWaiters
  <2> QED
    BY <2>1, <2>3, <2>5, <2>6, <2>7, <1>18, Zenon
<1>20. CASE p \notin asleep /\ ResumeGranted(p) /\ UNCHANGED asleep
  <2>1. PICK i \in Inode, h \in LockType : i = call[p].ip /\ h = call[p].type
    BY <1>0, <1>20 DEF ResumeGranted, CallShape
  <2>2. /\ pc[p] = "wait" /\ pc'[p] = "user" /\ pc' \in [Pid -> Place]
        /\ \A q \in Pid \ {p} : pc'[q] = pc[q] /\ call'[q] = call[q]
    BY <1>0, <1>20 DEF ResumeGranted, Place
  <2>3. \A j \in Inode, t \in LockType : Closers(j, t)' = Closers(j, t)
    BY <2>2, <1>4
  <2>4. /\ p \in Waiters(i, h) /\ Waiters(i, h)' = Waiters(i, h) \ {p}
        /\ \A j \in Inode, t \in LockType :
             <<j, t>> # <<i, h>> => Waiters(j, t)' = Waiters(j, t)
    BY <2>1, <2>2 DEF Waiters, WaitingOn
  <2>5. Cardinality(Waiters(i, h)') = Cardinality(Waiters(i, h)) - 1
    BY <2>4, FiniteHolders, CardDel
  <2>6. flock[i] \in FlockT
    BY DEF Shape, TypeOK
  <2>7. PICK gl \in FlockT : gl = EndWait(flock[i], p, h)
    BY <2>6, EndWaitFields
  <2>8. /\ gl.state = flock[i].state /\ gl.shared_holders = flock[i].shared_holders
        /\ gl.waiting_shared = flock[i].waiting_shared - (IF h = LOCK_SH THEN 1 ELSE 0)
        /\ gl.waiting_exclusive =
             flock[i].waiting_exclusive - (IF h = LOCK_EX THEN 1 ELSE 0)
    BY <2>6, <2>7, EndWaitFields
  <2>9. /\ ~ MustWait(flock[i], h)
        /\ flock' = [flock EXCEPT ![i] = Grant(gl, h)]
        /\ file' = [file EXCEPT ![call[p].file].holding = call[p].type]
    BY <1>20, <2>1, <2>7 DEF ResumeGranted
  <2>10. /\ flock[i].waiting_shared = Cardinality(Waiters(i, LOCK_SH))
         /\ flock[i].waiting_exclusive = Cardinality(Waiters(i, LOCK_EX))
         /\ Cardinality(Waiters(i, LOCK_SH)) \in Nat
         /\ Cardinality(Waiters(i, LOCK_EX)) \in Nat
    BY FiniteHolders DEF Counted, WaitsCounted
  <2>11. /\ gl.waiting_shared = Cardinality(Waiters(i, LOCK_SH)')
         /\ gl.waiting_exclusive = Cardinality(Waiters(i, LOCK_EX)')
         /\ h = LOCK_SH => gl.waiting_exclusive = flock[i].waiting_exclusive
    <3>1. CASE h = LOCK_SH
      <4>1. /\ Waiters(i, LOCK_EX)' = Waiters(i, LOCK_EX)
            /\ Cardinality(Waiters(i, LOCK_SH)') = Cardinality(Waiters(i, LOCK_SH)) - 1
        BY <2>4, <2>5, <3>1
      <4> QED
        BY <2>8, <2>10, <3>1, <4>1
    <3>2. CASE h = LOCK_EX
      <4>1. /\ Waiters(i, LOCK_SH)' = Waiters(i, LOCK_SH)
            /\ Cardinality(Waiters(i, LOCK_EX)') = Cardinality(Waiters(i, LOCK_EX)) - 1
        BY <2>4, <2>5, <3>2
      <4> QED
        BY <2>8, <2>10, <3>2, <4>1
    <3> QED
      BY <3>1, <3>2
  <2>12. /\ pc[p] \in {"acquire", "wait"}
         /\ \A j \in Inode \ {i}, t \in LockType : Waiters(j, t)' = Waiters(j, t)
    BY <2>2, <2>4
  <2> QED
    BY <2>1, <2>3, <2>8, <2>9, <2>11, <2>12, <1>18, Zenon
<1>21. CASE \E f \in File : CloseFile(p, f) /\ UNCHANGED asleep
  <2> PICK f \in File : CloseFile(p, f)
    BY <1>21
  <2>1. file[f].ref = 1 /\ file[f].ip \in Inode /\ file[f].holding \in Held
    BY <1>0, CalledFile DEF CloseFile, FileT
  <2>2. /\ flock' = flock /\ pc[p] = "user"
        /\ pc'[p] = IF file[f].holding = NONE THEN "put" ELSE "release"
        /\ call'[p].ip = file[f].ip /\ call'[p].type = file[f].holding
        /\ pc' \in [Pid -> Place]
        /\ \A q \in Pid \ {p} : pc'[q] = pc[q] /\ call'[q] = call[q]
        /\ file'[f].ref = 0 /\ \A g \in File \ {f} : file'[g] = file[g]
    BY <1>0 DEF CloseFile, Calls, Place, FileT
  <2>3. SameWaiters
    BY <2>2, <1>3
  <2>4. CASE file[f].holding = NONE
    <3>1. \A i \in Inode, t \in LockType : FileHolders(i, t)' = FileHolders(i, t)
      <4> SUFFICES ASSUME NEW i \in Inode, NEW t \in LockType
                   PROVE  FileHolders(i, t)' = FileHolders(i, t)
        OBVIOUS
      <4>1. \A g \in File \ {f} : g \in FileHolders(i, t)' <=> g \in FileHolders(i, t)
        BY <2>2 DEF FileHolders
      <4>2. f \notin FileHolders(i, t) /\ f \notin FileHolders(i, t)'
        BY <2>2, <2>4 DEF FileHolders
      <4>3. FileHolders(i, t) \subseteq File /\ FileHolders(i, t)' \subseteq File
        BY DEF FileHolders
      <4> QED
        BY <4>1, <4>2, <4>3
    <3> QED
      BY <2>2, <2>3, <2>4, <3>1, <1>4, <1>5 DEF SameHolders
  <2>5. CASE file[f].holding # NONE
    <3>1. PICK i \in Inode, h \in LockType : i = file[f].ip /\ h = file[f].holding
      BY <2>1, <2>5
    <3>2. /\ f \in FileHolders(i, h) /\ FileHolders(i, h)' = FileHolders(i, h) \ {f}
          /\ \A j \in Inode, t \in LockType :
               <<j, t>> # <<i, h>> => FileHolders(j, t)' = FileHolders(j, t)
      <4>1. \A j \in Inode, t \in LockType :
              /\ FileHolders(j, t) \subseteq File /\ FileHolders(j, t)' \subseteq File
              /\ f \notin FileHolders(j, t)'
              /\ \A g \in File \ {f} :
                   g \in FileHolders(j, t)' <=> g \in FileHolders(j, t)
        BY <2>2, SMTT(30) DEF FileHolders
      <4>2. \A j \in Inode, t \in LockType :
              f \in FileHolders(j, t) <=> j = i /\ t = h
        BY <2>1, <3>1 DEF FileHolders
      <4>3. f \in FileHolders(i, h) /\ FileHolders(i, h)' = FileHolders(i, h) \ {f}
        BY <4>1, <4>2
      <4>4. ASSUME NEW j \in Inode, NEW t \in LockType, <<j, t>> # <<i, h>>
            PROVE  FileHolders(j, t)' = FileHolders(j, t)
        <5>1. f \notin FileHolders(j, t)
          BY <4>2, <4>4
        <5> QED
          BY <4>1, <5>1, SMTT(30)
      <4> QED
        BY <4>3, <4>4
    <3>3. /\ p \notin Closers(i, h) /\ Closers(i, h)' = Closers(i, h) \cup {p}
          /\ \A j \in Inode, t \in LockType :
               <<j, t>> # <<i, h>> => Closers(j, t)' = Closers(j, t)
      BY <2>2, <2>5, <3>1, SMTT(30) DEF Closers
    <3>4. Holders(i, h)' = Holders(i, h)
      <4>1. Cardinality(FileHolders(i, h)') = Cardinality(FileHolders(i, h)) - 1
        BY <3>2, FiniteHolders, CardDel
      <4>2. Cardinality(Closers(i, h)') = Cardinality(Closers(i, h)) + 1
        BY <3>3, FiniteHolders, CardAdd
      <4> QED
        BY <4>1, <4>2, FiniteHolders DEF Holders
    <3>5. \A j \in Inode, t \in LockType : Holders(j, t)' = Holders(j, t)
      <4>1. \A j \in Inode, t \in LockType :
              <<j, t>> # <<i, h>> => Holders(j, t)' = Holders(j, t)
        BY <3>2, <3>3 DEF Holders
      <4> QED
        BY <3>4, <4>1
    <3> QED
      BY <2>2, <2>3, <3>5, ZenonT(40) DEF Counted, StateAgrees, WaitsCounted, SameWaiters
  <2> QED
    BY <2>4, <2>5
<1>22. CASE CloseRelease(p) /\ Wakeup(call[p].ip, call[p].type)
  <2>1. PICK i \in Inode, h \in LockType : i = call[p].ip /\ h = call[p].type
    BY <1>0, <1>22 DEF CloseRelease, CallShape
  <2>2. /\ file' = file /\ pc[p] = "release" /\ pc'[p] = "put" /\ pc' \in [Pid -> Place]
        /\ \A q \in Pid \ {p} : pc'[q] = pc[q] /\ call'[q] = call[q]
    BY <1>0, <1>22 DEF CloseRelease, Place
  <2>3. \A j \in Inode, t \in LockType : Waiters(j, t)' = Waiters(j, t)
    BY <2>2, <1>3 DEF SameWaiters
  <2>4. /\ p \in Closers(i, h) /\ Closers(i, h)' = Closers(i, h) \ {p}
        /\ \A j \in Inode, t \in LockType :
             <<j, t>> # <<i, h>> => Closers(j, t)' = Closers(j, t)
    BY <2>1, <2>2 DEF Closers
  <2>5. \A j \in Inode, t \in LockType : FileHolders(j, t)' = FileHolders(j, t)
    BY <2>2, <1>2
  <2>6. Holders(i, h) > 0 /\ Holders(i, h)' = Holders(i, h) - 1
    <3>1. /\ Cardinality(Closers(i, h)') = Cardinality(Closers(i, h)) - 1
          /\ Cardinality(Closers(i, h)) > 0
      <4>1. IsFiniteSet(Closers(i, h))
        BY FiniteHolders
      <4>2. /\ Cardinality(Closers(i, h) \ {p}) = Cardinality(Closers(i, h)) - 1
            /\ Cardinality(Closers(i, h)) > 0
        BY <2>4, <4>1, CardDel
      <4> QED
        BY <2>4, <4>2
    <3>2. Cardinality(FileHolders(i, h)') = Cardinality(FileHolders(i, h))
      BY <2>5
    <3> QED
      BY <3>1, <3>2, FiniteHolders DEF Holders
  <2>7. \A j \in Inode, t \in LockType : <<j, t>> # <<i, h>> => Holders(j, t)' = Holders(j, t)
    BY <2>4, <2>5 DEF Holders
  <2>8. flock' = [flock EXCEPT ![i] = flock_release(@, h)]
    BY <1>22, <2>1 DEF CloseRelease
  <2> QED
    BY <2>3, <2>6, <2>7, <2>8, CountedRelease, Zenon
<1> QED
  BY <1>6, <1>7, <1>8, <1>9, <1>10, <1>11, <1>12, <1>13, <1>15, <1>16, <1>17, <1>19,
     <1>20, <1>21, <1>22 DEF StepOf

\* The counters of every flock_t are exact in every reachable state.
LEMMA CountedInvariant == Spec => []Counted
<1>1. Shape /\ ReferencesCounted /\ Counted /\ [Next]_vars => Counted'
  <2> SUFFICES ASSUME Shape, ReferencesCounted, Counted, [Next]_vars PROVE Counted'
    OBVIOUS
  <2>1. CASE UNCHANGED vars
    <3>1. /\ flock' = flock
          /\ \A i \in Inode, t \in LockType : /\ FileHolders(i, t)' = FileHolders(i, t)
                                              /\ Closers(i, t)' = Closers(i, t)
                                              /\ Waiters(i, t)' = Waiters(i, t)
      BY <2>1 DEF vars, FileHolders, Closers, Waiters, WaitingOn
    <3> QED
      BY <3>1, CountedSame
  <2>2. CASE Next
    BY <2>2, NextSteps, CountedStep
  <2> QED
    BY <2>1, <2>2
<1> QED
  BY <1>1, CountedInit, ShapeInvariant, ReferencesInvariant, PTL DEF Spec

-----------------------------------------------------------------------------
(* The fourth layer: the wait queues.                                        *)

\* The request that every thread would queue.
Wanted == [q \in Pid |-> call[q].type]

\* The wait queue of every flock_t holds the threads in the while loops.
QueuesHold == \A i \in Inode : QueueHolds(flock[i], WaitingOn(i), Wanted)

\* Steps that change neither a wait queue nor who waits.
LEMMA QueuesSame ==
  ASSUME QueuesHold,
         \A i \in Inode : SameQueue(flock[i], flock'[i]) /\ WaitingOn(i)' = WaitingOn(i),
         \A q \in Pid : pc[q] = "wait" => call'[q] = call[q]
  PROVE  QueuesHold'
<1> SUFFICES ASSUME NEW i \in Inode
             PROVE  QueueHolds(flock'[i], WaitingOn(i)', Wanted')
  BY DEF QueuesHold
<1>1. \A q \in WaitingOn(i) : Wanted'[q] = Wanted[q]
  BY DEF WaitingOn, Wanted
<1>2. QueueHolds(flock[i], WaitingOn(i), Wanted) /\ SameQueue(flock[i], flock'[i])
  BY DEF QueuesHold
<1>3. PICK gl, after : gl = flock'[i] /\ after = Wanted'
  OBVIOUS
<1>4. QueueHolds(gl, WaitingOn(i), after)
  <2>1. \A q \in WaitingOn(i) : after[q] = Wanted[q]
    BY <1>1, <1>3
  <2>2. SameQueue(flock[i], gl)
    BY <1>2, <1>3
  <2> QED
    BY <1>2, <2>1, <2>2, QueueSame, SMT
<1> QED
  BY <1>3, <1>4

\* Steps that concern the queue of one entry only.
LEMMA QueuesAt ==
  ASSUME QueuesHold, NEW i \in Inode, QueueHolds(flock'[i], WaitingOn(i)', Wanted'),
         \A j \in Inode \ {i} : flock'[j] = flock[j] /\ WaitingOn(j)' = WaitingOn(j),
         NEW p \in Pid, \A j \in Inode \ {i} : p \notin WaitingOn(j),
         \A q \in Pid \ {p} : call'[q] = call[q]
  PROVE  QueuesHold'
<1> SUFFICES ASSUME NEW j \in Inode \ {i}
             PROVE  QueueHolds(flock'[j], WaitingOn(j)', Wanted')
  BY DEF QueuesHold
<1>1. \A q \in WaitingOn(j) : Wanted'[q] = Wanted[q]
  BY DEF WaitingOn, Wanted
<1>2. QueueHolds(flock[j], WaitingOn(j), Wanted) /\ SameQueue(flock[j], flock'[j])
  BY DEF QueuesHold, SameQueue
<1>3. PICK gl, after : gl = flock'[j] /\ after = Wanted'
  OBVIOUS
<1>4. QueueHolds(gl, WaitingOn(j), after)
  <2>1. \A q \in WaitingOn(j) : after[q] = Wanted[q]
    BY <1>1, <1>3
  <2>2. SameQueue(flock[j], gl)
    BY <1>2, <1>3
  <2> QED
    BY <1>2, <2>1, <2>2, QueueSame, SMT
<1> QED
  BY <1>3, <1>4

\* A flock_release on one entry leaves all queues alone.
LEMMA ReleaseQueues ==
  ASSUME Shape, NEW i \in Inode, NEW h, flock' = [flock EXCEPT ![i] = flock_release(@, h)]
  PROVE  \A j \in Inode : SameQueue(flock[j], flock'[j])
<1>1. flock \in [Inode -> FlockT]
  BY DEF Shape, TypeOK
<1>2. \A j \in Inode : flock'[j] = IF j = i THEN flock_release(flock[i], h) ELSE flock[j]
  BY <1>1
<1>3. SameQueue(flock[i], flock_release(flock[i], h))
  BY <1>1, GrantQueue
<1> QED
  BY <1>2, <1>3 DEF SameQueue

\* Every step keeps the wait queues right.
LEMMA QueuesStep ==
  ASSUME Shape, ReferencesCounted, QueuesHold, NEW p \in Pid, StepOf(p)
  PROVE  QueuesHold'
<1> USE DEF Goto, Return
<1>0. /\ file \in [File -> FileT] /\ openfiles \in [Pid -> SUBSET File]
      /\ pc \in [Pid -> Place] /\ call \in [Pid -> Call] /\ CallShape(p)
      /\ flock \in [Inode -> FlockT]
  BY Types DEF Shape, TypeOK
<1>1. ASSUME \A i \in Inode : SameQueue(flock[i], flock'[i]),
             pc[p] # "wait", pc'[p] # "wait",
             \A q \in Pid \ {p} : pc'[q] = pc[q] /\ call'[q] = call[q]
      PROVE  QueuesHold'
  <2>1. \A i \in Inode : WaitingOn(i)' = WaitingOn(i)
    BY <1>1 DEF WaitingOn
  <2>2. \A q \in Pid : pc[q] = "wait" => call'[q] = call[q]
    BY <1>1
  <2> QED
    BY <1>1, <2>1, <2>2, QueuesSame
<1>2. ASSUME flock' = flock, pc[p] # "wait", pc'[p] # "wait",
             \A q \in Pid \ {p} : pc'[q] = pc[q] /\ call'[q] = call[q]
      PROVE  QueuesHold'
  BY <1>1, <1>2 DEF SameQueue
<1>3. CASE \E n \in Inum, i \in Inode : GetCached(p, n, i) /\ UNCHANGED asleep
  BY <1>0, <1>2, <1>3 DEF GetCached
<1>4. CASE \E n \in Inum, i \in Inode : GetRecycled(p, n, i) /\ UNCHANGED asleep
  <2> PICK n \in Inum, i \in Inode : GetRecycled(p, n, i)
    BY <1>4
  <2>1. /\ flock' = [flock EXCEPT ![i] = flock_init] /\ inode[i].ref = 0
        /\ pc[p] = "user" /\ pc'[p] = "open"
        /\ \A q \in Pid \ {p} : pc'[q] = pc[q] /\ call'[q] = call[q]
    BY <1>0 DEF GetRecycled
  <2>2. RefFiles(i) = {} /\ RefCalls(i) = {}
    BY <2>1, Unreferenced
  <2>3. \A j \in Inode : WaitingOn(j)' = WaitingOn(j) /\ p \notin WaitingOn(j)
    BY <2>1 DEF WaitingOn
  <2>4. WaitingOn(i) = {}
    <3> SUFFICES ASSUME NEW q \in WaitingOn(i) PROVE FALSE
      OBVIOUS
    <3>1. Waiters(i, call[q].type) = {}
      BY <2>2, UnreferencedIdle
    <3> QED
      BY <3>1 DEF Waiters
  <2>5. flock'[i] = flock_init /\ \A j \in Inode \ {i} : flock'[j] = flock[j]
    BY <1>0, <2>1
  <2>6. QueueHolds(flock'[i], WaitingOn(i)', Wanted')
    <3>1. QueueHolds(flock_init, {}, Wanted')
      BY InitQueue
    <3> QED
      BY <2>3, <2>4, <2>5, <3>1
  <2> QED
    BY <2>1, <2>3, <2>5, <2>6, QueuesAt
<1>5. CASE \E f \in File : OpenFile(p, f) /\ UNCHANGED asleep
  BY <1>0, <1>2, <1>5 DEF OpenFile
<1>6. CASE OpenFails(p) /\ UNCHANGED asleep
  BY <1>0, <1>2, <1>6 DEF OpenFails
<1>7. CASE Put(p) /\ UNCHANGED asleep
  BY <1>0, <1>2, <1>7 DEF Put
<1>8. CASE \E f \in File : Unlock(p, f) /\ Wakeup(file[f].ip, file[f].holding)
  <2> PICK f \in File : Unlock(p, f)
    BY <1>8
  <2>1. file[f].ip \in Inode
    BY CalledFile DEF Unlock
  <2>2. /\ flock' = [flock EXCEPT ![file[f].ip] = flock_release(@, file[f].holding)]
        /\ pc' = pc /\ call' = call /\ pc[p] = "user"
    BY DEF Unlock, Calls
  <2> QED
    BY ZenonT(40), <1>1, <2>1, <2>2, ReleaseQueues
<1>9. CASE \E f \in File, type \in {LOCK_SH, LOCK_EX, BAD}, nb \in BOOLEAN :
             Lock(p, f, type, nb) /\ UNCHANGED asleep
  BY <1>0, <1>2, <1>9 DEF Lock, Calls
<1>10. CASE \E f \in File, type \in {LOCK_SH, LOCK_EX, BAD}, nb \in BOOLEAN :
              Convert(p, f, type, nb) /\ Wakeup(file[f].ip, file[f].holding)
  <2> PICK f \in File, type \in {LOCK_SH, LOCK_EX, BAD}, nb \in BOOLEAN :
             Convert(p, f, type, nb)
    BY <1>10
  <2>1. file[f].ip \in Inode
    BY CalledFile DEF Convert
  <2>2. /\ flock' = [flock EXCEPT ![file[f].ip] = flock_release(@, file[f].holding)]
        /\ pc[p] = "user" /\ pc'[p] = "acquire"
        /\ \A q \in Pid \ {p} : pc'[q] = pc[q] /\ call'[q] = call[q]
    BY <1>0 DEF Convert, Calls
  <2> QED
    BY Zenon, <1>1, <2>1, <2>2, ReleaseQueues
<1>11. CASE AcquireGranted(p) /\ UNCHANGED asleep
  <2>1. PICK i \in Inode, h \in LockType : i = call[p].ip /\ h = call[p].type
    BY <1>0, <1>11 DEF AcquireGranted, CallShape
  <2>2. /\ pc[p] = "acquire" /\ pc'[p] = "user"
        /\ \A q \in Pid \ {p} : pc'[q] = pc[q] /\ call'[q] = call[q]
        /\ flock' = [flock EXCEPT ![i] = Grant(@, h)]
    BY <1>0, <1>11, <2>1 DEF AcquireGranted
  <2>3. \A j \in Inode : flock'[j] = IF j = i THEN Grant(flock[i], h) ELSE flock[j]
    BY <1>0, <2>2
  <2>4. SameQueue(flock[i], Grant(flock[i], h))
    BY <1>0, GrantQueue
  <2>5. \A j \in Inode : SameQueue(flock[j], flock'[j])
    BY <2>3, <2>4 DEF SameQueue
  <2> QED
    BY <1>1, <2>2, <2>5
<1>12. CASE AcquireRefused(p) /\ UNCHANGED asleep
  BY <1>0, <1>2, <1>12 DEF AcquireRefused
<1>13. CASE AcquireBlocked(p) /\ thread_sleep(p)
  <2>1. PICK i \in Inode, h \in LockType : i = call[p].ip /\ h = call[p].type
    BY <1>0, <1>13 DEF AcquireBlocked, CallShape
  <2>2. /\ pc[p] = "acquire" /\ pc'[p] = "wait" /\ call' = call
        /\ \A q \in Pid \ {p} : pc'[q] = pc[q]
        /\ flock' = [flock EXCEPT ![i] = StartWait(@, p, h)]
    BY <1>0, <1>13, <2>1 DEF AcquireBlocked
  <2>3. /\ flock'[i] = StartWait(flock[i], p, h)
        /\ \A j \in Inode \ {i} : flock'[j] = flock[j]
    BY <1>0, <2>2
  <2>4. /\ p \notin WaitingOn(i) /\ WaitingOn(i)' = WaitingOn(i) \cup {p}
        /\ \A j \in Inode \ {i} : WaitingOn(j)' = WaitingOn(j) /\ p \notin WaitingOn(j)
        /\ WaitingOn(i) \subseteq Pid
    BY <2>1, <2>2 DEF WaitingOn
  <2>5. Wanted' = Wanted /\ Wanted[p] = h
    BY <2>1, <2>2 DEF Wanted
  <2>6. QueueHolds(flock[i], WaitingOn(i), Wanted) /\ flock[i] \in FlockT
    BY <1>0 DEF QueuesHold
  <2>7. QueueHolds(StartWait(flock[i], p, h), WaitingOn(i) \cup {p}, Wanted)
    BY <2>4, <2>5, <2>6, StartWaitQueue, Zenon
  <2>8. QueueHolds(flock'[i], WaitingOn(i)', Wanted')
    BY <2>3, <2>4, <2>5, <2>7
  <2> QED
    BY Zenon, <2>2, <2>3, <2>4, <2>8, QueuesAt
<1>14. CASE p \notin asleep /\ ResumeGranted(p) /\ UNCHANGED asleep
  <2>1. PICK i \in Inode, h \in LockType : i = call[p].ip /\ h = call[p].type
    BY <1>0, <1>14 DEF ResumeGranted, CallShape
  <2>2. /\ pc[p] = "wait" /\ pc'[p] = "user"
        /\ \A q \in Pid \ {p} : pc'[q] = pc[q] /\ call'[q] = call[q]
        /\ flock' = [flock EXCEPT ![i] = Grant(EndWait(@, p, h), h)]
    BY <1>0, <1>14, <2>1 DEF ResumeGranted
  <2>3. /\ flock'[i] = Grant(EndWait(flock[i], p, h), h)
        /\ \A j \in Inode \ {i} : flock'[j] = flock[j]
    BY <1>0, <2>2
  <2>4. /\ p \in WaitingOn(i) /\ WaitingOn(i)' = WaitingOn(i) \ {p}
        /\ \A j \in Inode \ {i} : WaitingOn(j)' = WaitingOn(j) /\ p \notin WaitingOn(j)
        /\ WaitingOn(i) \subseteq Pid
    BY <2>1, <2>2 DEF WaitingOn
  <2>5. \A q \in WaitingOn(i) \ {p} : Wanted'[q] = Wanted[q]
    BY <2>2, <2>4 DEF Wanted
  <2>6. QueueHolds(flock[i], WaitingOn(i), Wanted) /\ flock[i] \in FlockT
    BY <1>0 DEF QueuesHold
  <2>7. QueueHolds(EndWait(flock[i], p, h), WaitingOn(i) \ {p}, Wanted')
    BY <2>4, <2>5, <2>6, EndWaitQueue, Zenon
  <2>8. SameQueue(EndWait(flock[i], p, h), Grant(EndWait(flock[i], p, h), h))
    BY <2>6, EndWaitFields, GrantQueue
  <2>9. QueueHolds(flock'[i], WaitingOn(i)', Wanted')
    BY <2>3, <2>4, <2>7, <2>8, QueueSame
  <2> QED
    BY <2>2, <2>3, <2>4, <2>9, QueuesAt
<1>15. CASE p \notin asleep /\ ResumeBlocked(p) /\ thread_sleep(p)
  BY <1>15 DEF ResumeBlocked, dataVars, QueuesHold, WaitingOn, Wanted
<1>16. CASE \E f \in File : CloseFile(p, f) /\ UNCHANGED asleep
  <2> PICK f \in File : CloseFile(p, f)
    BY <1>16
  <2>1. /\ flock' = flock /\ pc[p] = "user" /\ pc'[p] # "wait"
        /\ \A q \in Pid \ {p} : pc'[q] = pc[q] /\ call'[q] = call[q]
    BY <1>0 DEF CloseFile, Calls
  <2> QED
    BY <1>2, <2>1
<1>17. CASE CloseRelease(p) /\ Wakeup(call[p].ip, call[p].type)
  <2>1. PICK i \in Inode : i = call[p].ip
    BY <1>0, <1>17 DEF CloseRelease, CallShape
  <2>2. /\ flock' = [flock EXCEPT ![i] = flock_release(@, call[p].type)]
        /\ pc[p] = "release" /\ pc'[p] = "put"
        /\ \A q \in Pid \ {p} : pc'[q] = pc[q] /\ call'[q] = call[q]
    BY <1>0, <1>17, <2>1 DEF CloseRelease
  <2> QED
    BY Zenon, <1>1, <2>2, ReleaseQueues
<1> QED
  BY ZenonT(40), <1>3, <1>4, <1>5, <1>6, <1>7, <1>8, <1>9, <1>10, <1>11, <1>12, <1>13, <1>14, <1>15,
     <1>16, <1>17 DEF StepOf

\* The wait queues are right in every reachable state.
LEMMA QueuesInvariant == Spec => []QueuesHold
<1>1. Init => QueuesHold
  <2> SUFFICES ASSUME Init, NEW i \in Inode
               PROVE  QueueHolds(flock[i], WaitingOn(i), Wanted)
    BY DEF QueuesHold
  <2>1. flock[i] = flock_init /\ WaitingOn(i) = {}
    BY DEF Init, DataInit, WaitingOn
  <2> QED
    BY <2>1, InitQueue
<1>2. Shape /\ ReferencesCounted /\ QueuesHold /\ [Next]_vars => QueuesHold'
  <2> SUFFICES ASSUME Shape, ReferencesCounted, QueuesHold, [Next]_vars PROVE QueuesHold'
    OBVIOUS
  <2>1. CASE UNCHANGED vars
    BY <2>1 DEF vars, QueuesHold, WaitingOn, Wanted
  <2>2. CASE Next
    BY <2>2, NextSteps, QueuesStep
  <2> QED
    BY <2>1, <2>2
<1> QED
  BY <1>1, <1>2, ShapeInvariant, ReferencesInvariant, PTL DEF Spec

-----------------------------------------------------------------------------
(* The theorems.                                                             *)

\* The state and shared_holders of every flock_t agree with the locks recorded
\* in open files and in closing threads.
THEOREM StateStaysAgreed == Spec => []StateAgrees
BY CountedInvariant, PTL DEF Counted

\* No two open files hold conflicting locks on the same file on disk.
THEOREM LocksExclude == Spec => []MutualExclusion
<1>1. Shape /\ ReferencesCounted /\ Counted => MutualExclusion
  <2> SUFFICES ASSUME Shape, ReferencesCounted, Counted, NEW f \in File, NEW g \in File,
                      f # g, file[f].ref = 1, file[g].ref = 1,
                      inode[file[f].ip].inum = inode[file[g].ip].inum,
                      file[f].holding = LOCK_EX, file[g].holding # NONE
               PROVE  FALSE
    BY DEF MutualExclusion
  <2>1. PICK i \in Inode, k \in Inode : i = file[f].ip /\ k = file[g].ip
    BY DEF Shape
  <2>2. RefFiles(i) # {} /\ RefFiles(k) # {}
    BY <2>1 DEF RefFiles
  <2>3. inode[i].ref > 0 /\ inode[k].ref > 0
    <3>1. inode[i].ref # 0 /\ inode[k].ref # 0
      BY <2>2, Unreferenced
    <3>2. inode[i].ref \in Nat /\ inode[k].ref \in Nat
      BY ReferencesNat
    <3> QED
      BY <3>1, <3>2
  <2>4. i = k
    BY <2>1, <2>3 DEF ReferencesCounted
  <2>5. f \in FileHolders(i, LOCK_EX)
    BY <2>1 DEF FileHolders
  <2>6. Holders(i, LOCK_EX) = 1 /\ flock[i].state = FLOCK_EXCLUSIVE
    <3>1. Holders(i, LOCK_EX) > 0
      BY <2>5, HolderCounts, Zenon
    <3> QED
      BY <3>1 DEF Counted, StateAgrees
  <2>7. CASE file[g].holding = LOCK_SH
    <3>1. g \in FileHolders(i, LOCK_SH)
      BY <2>1, <2>4, <2>7 DEF FileHolders
    <3>2. Holders(i, LOCK_SH) > 0
      BY <3>1, HolderCounts, Zenon
    <3> QED
      BY <2>6, <3>2 DEF Counted, StateAgrees
  <2>8. CASE file[g].holding = LOCK_EX
    <3>1. g \in FileHolders(i, LOCK_EX)
      BY <2>1, <2>4, <2>8 DEF FileHolders
    <3>2. Holders(i, LOCK_EX) > 1
      BY <2>5, <3>1, TwoHoldersCount, Zenon
    <3> QED
      BY <2>6, <3>2
  <2> QED
    BY <2>7, <2>8 DEF Shape, TypeOK
<1> QED
  BY <1>1, ShapeInvariant, ReferencesInvariant, CountedInvariant, PTL

\* The flock_t of every cache entry is accounted for: state and holder count
\* agree with the locks held, the two counters with the threads in the while
\* loops, and the wait queue holds each of these threads once with its request,
\* so that waitq_add never finds the queue full.
THEOREM LocksStayAccounted == Spec => []LocksAccounted
<1>1. Shape /\ Counted /\ QueuesHold => LocksAccounted
  <2> SUFFICES ASSUME Shape, Counted, QueuesHold, NEW i \in Inode
               PROVE  LET q == flock[i].pids IN
                      /\ flock[i].waiting_shared    = Cardinality(Waiters(i, LOCK_SH))
                      /\ flock[i].waiting_exclusive = Cardinality(Waiters(i, LOCK_EX))
                      /\ Len(q) = flock[i].waiting_shared + flock[i].waiting_exclusive
                      /\ \A p \in Pid :
                           /\ p \in WaitingOn(i) <=> \E k \in 1 .. Len(q) : q[k] = p
                           /\ flock[i].inq[p] <=> p \in WaitingOn(i)
                           /\ flock[i].req[p] =
                                IF p \in WaitingOn(i) THEN call[p].type ELSE NONE
    BY DEF LocksAccounted, WaitersCounted, Counted
  <2>1. /\ flock[i].waiting_shared    = Cardinality(Waiters(i, LOCK_SH))
        /\ flock[i].waiting_exclusive = Cardinality(Waiters(i, LOCK_EX))
    BY DEF Counted, WaitsCounted
  <2>2. /\ Len(flock[i].pids) = Cardinality(WaitingOn(i))
        /\ \A p \in Pid :
             /\ p \in WaitingOn(i) <=> \E k \in 1 .. Len(flock[i].pids) : flock[i].pids[k] = p
             /\ flock[i].inq[p] <=> p \in WaitingOn(i)
             /\ flock[i].req[p] = IF p \in WaitingOn(i) THEN call[p].type ELSE NONE
    BY DEF QueuesHold, QueueHolds, Wanted
  <2>3. Cardinality(WaitingOn(i)) =
          Cardinality(Waiters(i, LOCK_SH)) + Cardinality(Waiters(i, LOCK_EX))
    <3>1. /\ IsFiniteSet(Waiters(i, LOCK_SH)) /\ Cardinality(Waiters(i, LOCK_SH)) \in Nat
          /\ IsFiniteSet(Waiters(i, LOCK_EX)) /\ Cardinality(Waiters(i, LOCK_EX)) \in Nat
      BY FiniteHolders
    <3>2. Waiters(i, LOCK_SH) \cap Waiters(i, LOCK_EX) = {}
      BY DEF Waiters
    <3>3. WaitingOn(i) = Waiters(i, LOCK_SH) \cup Waiters(i, LOCK_EX)
      <4>1. \A p \in WaitingOn(i) : call[p].type \in LockType
        BY Zenon DEF WaitingOn, Shape, CallShape
      <4> QED
        BY <4>1 DEF Waiters
    <3>4. Cardinality({}) = 0
      BY FS_EmptySet
    <3>5. Cardinality(Waiters(i, LOCK_SH) \cup Waiters(i, LOCK_EX)) =
            Cardinality(Waiters(i, LOCK_SH)) + Cardinality(Waiters(i, LOCK_EX))
            - Cardinality(Waiters(i, LOCK_SH) \cap Waiters(i, LOCK_EX))
      BY <3>1, FS_Union
    <3>6. /\ Cardinality(Waiters(i, LOCK_SH) \cap Waiters(i, LOCK_EX)) = 0
          /\ Cardinality(WaitingOn(i)) =
               Cardinality(Waiters(i, LOCK_SH) \cup Waiters(i, LOCK_EX))
      BY <3>2, <3>3, <3>4
    <3> QED
      BY <3>1, <3>5, <3>6
  <2> QED
    BY <2>1, <2>2, <2>3
<1> QED
  BY <1>1, ShapeInvariant, CountedInvariant, QueuesInvariant, PTL
=============================================================================
