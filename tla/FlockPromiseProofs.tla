------------------------- MODULE FlockPromiseProofs -------------------------
(***************************************************************************)
(* What FileFlock promises to the callers of file_flock.  No wakeup is      *)
(* lost, and a sleeper has somebody to wait for.                            *)
(*                                                                          *)
(* And FileFlock implements RWLock: per file on disk, the inode cache, the  *)
(* table of open files and the flock_t of kern/flock behave as one          *)
(* reader/writer lock with writer preference. What RWLock counts for a file *)
(* is a function of the flock_t of the cache entry in use for it, so that a *)
(* step of the code is a step of RWLock as soon as it is one on that        *)
(* flock_t, and recycling a cache entry does not show.                      *)
(***************************************************************************)
EXTENDS FlockCountProofs

USE DEF FlockState, Held, LockType, FLOCK_INACTIVE, FLOCK_SHARED, FLOCK_EXCLUSIVE,
        NONE, LOCK_SH, LOCK_EX, BAD

-----------------------------------------------------------------------------
(* No wakeup is lost.                                                        *)

\* A grant ends nobody else's wait: a request that must wait while another need
\* not must still wait when the other has been granted.
LEMMA GrantKeepsWait ==
  ASSUME NEW fl \in FlockT, NEW gl \in FlockT, NEW h \in LockType, NEW t \in LockType,
         ~ MustWait(fl, h), MustWait(fl, t)
  PROVE  MustWait(Grant(gl, h), t)
<1>1. h = LOCK_EX \/ t = LOCK_EX
  OBVIOUS
<1>2. Grant(gl, h).state = IF h = LOCK_SH THEN FLOCK_SHARED ELSE FLOCK_EXCLUSIVE
  BY GrantWaiting
<1> QED
  BY <1>1, <1>2 DEF MustWait

\* Steps after which every sleeper slept before and must still wait.
LEMMA SleepersKept ==
  ASSUME NoLostWakeup,
         \A q \in asleep' : /\ q \in asleep /\ pc'[q] = pc[q] /\ call'[q] = call[q]
                            /\ MustWait(flock'[call[q].ip], call[q].type)
  PROVE  NoLostWakeup'
BY DEF NoLostWakeup

\* Every step that could end the wait of a sleeper wakes it.
LEMMA WakeupStep ==
  ASSUME Shape, ReferencesCounted, NoLostWakeup, NEW p \in Pid, StepOf(p)
  PROVE  NoLostWakeup'
<1> USE DEF Goto, Return
<1>0. /\ flock \in [Inode -> FlockT] /\ file \in [File -> FileT]
      /\ pc \in [Pid -> Place] /\ call \in [Pid -> Call] /\ CallShape(p)
  BY Types DEF Shape
<1>1. \A q \in asleep : /\ q \in Pid /\ pc[q] = "wait" /\ call[q].ip \in Inode
                         /\ call[q].type \in LockType
                         /\ MustWait(flock[call[q].ip], call[q].type)
  <2> SUFFICES ASSUME NEW q \in asleep
               PROVE  /\ q \in Pid /\ pc[q] = "wait" /\ call[q].ip \in Inode
                      /\ call[q].type \in LockType
                      /\ MustWait(flock[call[q].ip], call[q].type)
    OBVIOUS
  <2>1. q \in Pid /\ pc[q] = "wait" /\ MustWait(flock[call[q].ip], call[q].type)
    BY DEF NoLostWakeup, Shape, TypeOK
  <2>2. CallShape(q)
    BY <2>1 DEF Shape
  <2> QED
    BY <2>1, <2>2 DEF CallShape
<1>2. ASSUME flock' = flock, asleep' = asleep, pc[p] # "wait",
             \A q \in Pid \ {p} : pc'[q] = pc[q] /\ call'[q] = call[q]
      PROVE  NoLostWakeup'
  BY <1>1, <1>2, SleepersKept
<1>3. CASE \E n \in Inum, i \in Inode : GetCached(p, n, i) /\ UNCHANGED asleep
  BY <1>0, <1>2, <1>3 DEF GetCached
<1>4. CASE \E n \in Inum, i \in Inode : GetRecycled(p, n, i) /\ UNCHANGED asleep
  <2> PICK n \in Inum, i \in Inode : GetRecycled(p, n, i) /\ asleep' = asleep
    BY <1>4
  <2>1. /\ pc[p] = "user" /\ inode[i].ref = 0
        /\ \A j \in Inode \ {i} : flock'[j] = flock[j]
        /\ \A q \in Pid \ {p} : pc'[q] = pc[q] /\ call'[q] = call[q]
    BY <1>0 DEF GetRecycled
  <2>2. RefFiles(i) = {} /\ RefCalls(i) = {}
    BY <2>1, Unreferenced
  <2>3. \A q \in asleep : call[q].ip # i
    <3> SUFFICES ASSUME NEW q \in asleep, call[q].ip = i PROVE FALSE
      OBVIOUS
    <3>1. q \in Waiters(i, call[q].type)
      BY <1>1 DEF Waiters, WaitingOn
    <3> QED
      BY <2>2, <3>1, UnreferencedIdle
  <2> QED
    BY <1>1, <2>1, <2>3, SleepersKept
<1>5. CASE \E f \in File : OpenFile(p, f) /\ UNCHANGED asleep
  BY <1>0, <1>2, <1>5 DEF OpenFile
<1>6. CASE OpenFails(p) /\ UNCHANGED asleep
  BY <1>0, <1>2, <1>6 DEF OpenFails
<1>7. CASE Put(p) /\ UNCHANGED asleep
  BY <1>0, <1>2, <1>7 DEF Put
<1>8. CASE \E f \in File, type \in {LOCK_SH, LOCK_EX, BAD}, nb \in BOOLEAN :
             Lock(p, f, type, nb) /\ UNCHANGED asleep
  BY <1>0, <1>2, <1>8 DEF Lock, Calls
<1>9. CASE AcquireRefused(p) /\ UNCHANGED asleep
  BY <1>0, <1>2, <1>9 DEF AcquireRefused
<1>10. CASE \E f \in File : CloseFile(p, f) /\ UNCHANGED asleep
  BY <1>0, <1>2, <1>10 DEF CloseFile, Calls
<1>11. ASSUME NEW i \in Inode, NEW h \in Held, pc[p] # "wait",
              flock' = [flock EXCEPT ![i] = flock_release(@, h)], Wakeup(i, h),
              \A q \in Pid \ {p} : pc'[q] = pc[q] /\ call'[q] = call[q]
       PROVE  NoLostWakeup'
  <2>1. /\ flock'[i] = flock_release(flock[i], h)
        /\ \A j \in Inode \ {i} : flock'[j] = flock[j]
        /\ flock[i] \in FlockT
    BY <1>0, <1>11
  <2>2. ASSUME NEW q \in asleep'
        PROVE  /\ q \in asleep /\ pc'[q] = pc[q] /\ call'[q] = call[q]
               /\ MustWait(flock'[call[q].ip], call[q].type)
    <3>1. q \in asleep /\ q # p
      BY <1>1, <1>11, <2>2 DEF Wakeup
    <3>2. CASE call[q].ip # i
      BY <1>1, <1>11, <2>1, <3>1, <3>2
    <3>3. CASE call[q].ip = i
      <4>1. q \in WaitingOn(i)
        BY <1>1, <3>1, <3>3 DEF WaitingOn
      <4>2. ~ NeedWakeup(flock[i], h)
        BY <1>11, <2>2, <4>1 DEF Wakeup
      <4>3. /\ flock'[i].state = flock[i].state
            /\ flock'[i].waiting_exclusive = flock[i].waiting_exclusive
        BY <2>1, <4>2, ReleaseWaiting
      <4>4. MustWait(flock'[i], call[q].type)
        BY <1>1, <3>1, <3>3, <4>3 DEF MustWait
      <4> QED
        BY <1>1, <1>11, <3>1, <3>3, <4>4
    <3> QED
      BY <3>2, <3>3
  <2> QED
    BY <2>2, SleepersKept
<1>12. CASE \E f \in File : Unlock(p, f) /\ Wakeup(file[f].ip, file[f].holding)
  <2> PICK f \in File : Unlock(p, f) /\ Wakeup(file[f].ip, file[f].holding)
    BY <1>12
  <2>1. PICK i \in Inode, h \in Held : i = file[f].ip /\ h = file[f].holding
    BY <1>0, CalledFile DEF Unlock, FileT
  <2>2. /\ pc[p] # "wait" /\ flock' = [flock EXCEPT ![i] = flock_release(@, h)]
        /\ Wakeup(i, h) /\ \A q \in Pid \ {p} : pc'[q] = pc[q] /\ call'[q] = call[q]
    BY <2>1 DEF Unlock, Calls
  <2> QED
    BY <2>2, <1>11, Zenon
<1>13. CASE \E f \in File, type \in {LOCK_SH, LOCK_EX, BAD}, nb \in BOOLEAN :
              Convert(p, f, type, nb) /\ Wakeup(file[f].ip, file[f].holding)
  <2> PICK f \in File, type \in {LOCK_SH, LOCK_EX, BAD}, nb \in BOOLEAN :
             Convert(p, f, type, nb) /\ Wakeup(file[f].ip, file[f].holding)
    BY <1>13
  <2>1. PICK i \in Inode, h \in Held : i = file[f].ip /\ h = file[f].holding
    BY <1>0, CalledFile DEF Convert, FileT
  <2>2. /\ pc[p] # "wait" /\ flock' = [flock EXCEPT ![i] = flock_release(@, h)]
        /\ Wakeup(i, h) /\ \A q \in Pid \ {p} : pc'[q] = pc[q] /\ call'[q] = call[q]
    BY <1>0, <2>1 DEF Convert, Calls
  <2> QED
    BY <2>2, <1>11, Zenon
<1>14. CASE CloseRelease(p) /\ Wakeup(call[p].ip, call[p].type)
  <2>1. PICK i \in Inode, h \in Held : i = call[p].ip /\ h = call[p].type
    BY <1>0, <1>14 DEF CloseRelease, CallShape
  <2>2. /\ pc[p] # "wait" /\ flock' = [flock EXCEPT ![i] = flock_release(@, h)]
        /\ Wakeup(i, h) /\ \A q \in Pid \ {p} : pc'[q] = pc[q] /\ call'[q] = call[q]
    BY <1>0, <1>14, <2>1 DEF CloseRelease
  <2> QED
    BY <2>2, <1>11, Zenon
<1>15. ASSUME NEW i \in Inode, NEW h \in LockType, NEW gl \in FlockT,
              ~ MustWait(flock[i], h), flock' = [flock EXCEPT ![i] = Grant(gl, h)],
              p \notin asleep, asleep' = asleep,
              \A q \in Pid \ {p} : pc'[q] = pc[q] /\ call'[q] = call[q]
       PROVE  NoLostWakeup'
  <2>1. /\ flock'[i] = Grant(gl, h) /\ flock[i] \in FlockT
        /\ \A j \in Inode \ {i} : flock'[j] = flock[j]
    BY <1>0, <1>15
  <2>2. \A q \in asleep : MustWait(flock'[call[q].ip], call[q].type)
    BY <1>1, <1>15, <2>1, GrantKeepsWait
  <2> QED
    BY <1>1, <1>15, <2>2, SleepersKept
<1>16. CASE AcquireGranted(p) /\ UNCHANGED asleep
  <2>1. PICK i \in Inode, h \in LockType : i = call[p].ip /\ h = call[p].type
    BY <1>0, <1>16 DEF AcquireGranted, CallShape
  <2>2. PICK gl \in FlockT : gl = flock[i]
    BY <1>0
  <2>3. /\ ~ MustWait(flock[i], h) /\ flock' = [flock EXCEPT ![i] = Grant(gl, h)]
        /\ p \notin asleep /\ asleep' = asleep
        /\ \A q \in Pid \ {p} : pc'[q] = pc[q] /\ call'[q] = call[q]
    BY <1>0, <1>1, <1>16, <2>1, <2>2 DEF AcquireGranted
  <2> QED
    BY <2>3, <1>15, Zenon
<1>17. CASE p \notin asleep /\ ResumeGranted(p) /\ UNCHANGED asleep
  <2>1. PICK i \in Inode, h \in LockType : i = call[p].ip /\ h = call[p].type
    BY <1>0, <1>17 DEF ResumeGranted, CallShape
  <2>2. PICK gl \in FlockT : gl = EndWait(flock[i], p, h)
    BY <1>0, EndWaitFields
  <2>3. /\ ~ MustWait(flock[i], h) /\ flock' = [flock EXCEPT ![i] = Grant(gl, h)]
        /\ p \notin asleep /\ asleep' = asleep
        /\ \A q \in Pid \ {p} : pc'[q] = pc[q] /\ call'[q] = call[q]
    BY <1>0, <1>1, <1>17, <2>1, <2>2 DEF ResumeGranted
  <2> QED
    BY <2>3, <1>15, Zenon
<1>18. CASE AcquireBlocked(p) /\ thread_sleep(p)
  <2>1. PICK i \in Inode, h \in LockType : i = call[p].ip /\ h = call[p].type
    BY <1>0, <1>18 DEF AcquireBlocked, CallShape
  <2>2. /\ flock'[i] = StartWait(flock[i], p, h) /\ flock[i] \in FlockT
        /\ \A j \in Inode \ {i} : flock'[j] = flock[j]
        /\ MustWait(flock[i], h)
    BY <1>0, <1>18, <2>1 DEF AcquireBlocked
  <2>3. \A t \in LockType : MustWait(flock[i], t) => MustWait(flock'[i], t)
    <3>1. /\ flock'[i].state = flock[i].state
          /\ flock[i].waiting_exclusive > 0 => flock'[i].waiting_exclusive > 0
      <4>1. /\ StartWait(flock[i], p, h).state = flock[i].state
            /\ StartWait(flock[i], p, h).waiting_exclusive =
                 flock[i].waiting_exclusive + (IF h = LOCK_EX THEN 1 ELSE 0)
        BY <2>2, StartWaitFields, Zenon
      <4>2. flock[i].waiting_exclusive \in Int
        BY <2>2 DEF FlockT
      <4>3. /\ flock'[i].state = flock[i].state
            /\ flock'[i].waiting_exclusive =
                 flock[i].waiting_exclusive + (IF h = LOCK_EX THEN 1 ELSE 0)
        BY <2>2, <4>1, Zenon
      <4> QED
        BY <4>2, <4>3
    <3> QED
      BY <3>1 DEF MustWait
  <2>4. /\ asleep' = asleep \cup {p} /\ call' = call
        /\ pc'[p] = "wait" /\ \A q \in Pid \ {p} : pc'[q] = pc[q]
    BY <1>0, <1>18 DEF AcquireBlocked, thread_sleep
  <2>5. \A q \in asleep : pc'[q] = "wait" /\ MustWait(flock'[call'[q].ip], call'[q].type)
    BY <1>1, <2>2, <2>3, <2>4
  <2>6. pc'[p] = "wait" /\ MustWait(flock'[call'[p].ip], call'[p].type)
    BY <2>1, <2>2, <2>3, <2>4
  <2> QED
    BY <2>4, <2>5, <2>6 DEF NoLostWakeup
<1>19. CASE p \notin asleep /\ ResumeBlocked(p) /\ thread_sleep(p)
  BY <1>19 DEF ResumeBlocked, dataVars, thread_sleep, NoLostWakeup
<1> QED
  BY <1>3, <1>4, <1>5, <1>6, <1>7, <1>8, <1>9, <1>10, <1>12, <1>13, <1>14, <1>16,
     <1>17, <1>18, <1>19 DEF StepOf

-----------------------------------------------------------------------------
(* The theorems.                                                             *)

\* No wakeup is lost: whoever sleeps on a flock_t would still have to wait.
THEOREM NoWakeupIsLost == Spec => []NoLostWakeup
<1>1. Init => NoLostWakeup
  BY DEF Init, NoLostWakeup
<1>2. Shape /\ ReferencesCounted /\ NoLostWakeup /\ [Next]_vars => NoLostWakeup'
  <2> SUFFICES ASSUME Shape, ReferencesCounted, NoLostWakeup, [Next]_vars
               PROVE  NoLostWakeup'
    OBVIOUS
  <2>1. CASE UNCHANGED vars
    BY <2>1 DEF vars, NoLostWakeup
  <2>2. CASE Next
    BY <2>2, NextSteps, WakeupStep
  <2> QED
    BY <2>1, <2>2
<1> QED
  BY <1>1, <1>2, ShapeInvariant, ReferencesInvariant, PTL DEF Spec

\* While all who wait for a lock sleep, somebody holds it and will release it.
THEOREM SleepersAreAwaited == Spec => []SleepersHaveHolder
<1>1. Shape /\ Counted /\ NoLostWakeup => SleepersHaveHolder
  <2> SUFFICES ASSUME Shape, Counted, NoLostWakeup, NEW i \in Inode,
                      WaitingOn(i) # {}, WaitingOn(i) \subseteq asleep
               PROVE  Holders(i, LOCK_SH) + Holders(i, LOCK_EX) > 0
    BY DEF SleepersHaveHolder
  <2>1. \A q \in WaitingOn(i) : call[q].type \in LockType /\ MustWait(flock[i], call[q].type)
    <3> SUFFICES ASSUME NEW q \in WaitingOn(i)
                 PROVE  call[q].type \in LockType /\ MustWait(flock[i], call[q].type)
      OBVIOUS
    <3>1. q \in Pid /\ pc[q] = "wait" /\ call[q].ip = i /\ q \in asleep
      BY DEF WaitingOn
    <3> QED
      BY Zenon, <3>1 DEF NoLostWakeup, Shape, CallShape
  <2>2. flock[i].state # FLOCK_INACTIVE
    <3>1. PICK q \in WaitingOn(i) : TRUE
      OBVIOUS
    <3>2. CASE flock[i].waiting_exclusive > 0
      <4>1. Waiters(i, LOCK_EX) # {}
        <5>1. Cardinality(Waiters(i, LOCK_EX)) > 0
          BY <3>2 DEF Counted, WaitsCounted
        <5>2. Cardinality({}) = 0
          BY FS_EmptySet, Zenon
        <5> QED
          BY <5>1, <5>2
      <4>2. PICK w \in WaitingOn(i) : call[w].type = LOCK_EX
        BY <4>1 DEF Waiters
      <4> QED
        BY <2>1, <4>2 DEF MustWait
    <3>3. CASE ~ (flock[i].waiting_exclusive > 0)
      BY <2>1, <3>1, <3>3 DEF MustWait
    <3> QED
      BY <3>2, <3>3
  <2>3. flock[i].state \in FlockState
    BY DEF Shape, TypeOK, FlockT
  <2>4. Holders(i, LOCK_SH) \in Nat /\ Holders(i, LOCK_EX) \in Nat
    BY FiniteHolders
  <2>5. Holders(i, LOCK_SH) > 0 \/ Holders(i, LOCK_EX) = 1
    BY <2>2, <2>3 DEF Counted, StateAgrees
  <2> QED
    BY <2>4, <2>5
<1> QED
  BY <1>1, ShapeInvariant, CountedInvariant, NoWakeupIsLost, PTL

\* Nobody sleeps on a lock in vain: no release is missed, and a lock whose
\* waiters all sleep has a holder.
THEOREM SleepersStayAwaited == Spec => []SleepersAwaited
<1>1. NoLostWakeup /\ SleepersHaveHolder => SleepersAwaited
  BY DEF SleepersAwaited
<1> QED
  BY <1>1, NoWakeupIsLost, SleepersAreAwaited, PTL

-----------------------------------------------------------------------------
(* What RWLock counts, read off a flock_t.                                   *)

\* A cache entry in use stands for a file on disk.
EntriesNamed == \A i \in Inode : inode[i].ref > 0 => inode[i].inum \in Inum

\* The invariant of the lower layers that the simulation rests on.
Sound == Shape /\ ReferencesCounted /\ CallsValid /\ Counted /\ EntriesNamed

\* Entry i is in use for file n.
Caches(i, n) == inode[i].ref > 0 /\ inode[i].inum = n

\* Shared locks, exclusive locks and queued writers, by a flock_t.
View(fl) == <<fl.shared_holders, IF fl.state = FLOCK_EXCLUSIVE THEN 1 ELSE 0,
              fl.waiting_exclusive>>

\* The same for file n, by the open files and the threads.
Seen(n) == <<LocksOn(n, LOCK_SH), LocksOn(n, LOCK_EX), QueuedOn(n)>>

\* Whatever an open file or a system call points to is in use.
LEMMA PointedInUse ==
  ASSUME Sound
  PROVE  /\ \A f \in File :
              file[f].ref = 1 => file[f].ip \in Inode /\ inode[file[f].ip].ref > 0
         /\ \A p \in Pid :
              pc[p] # "user" => call[p].ip \in Inode /\ inode[call[p].ip].ref > 0
<1>1. ASSUME NEW f \in File, file[f].ref = 1
      PROVE  file[f].ip \in Inode /\ inode[file[f].ip].ref > 0
  <2>1. PICK i \in Inode : i = file[f].ip
    BY <1>1 DEF Sound, Shape
  <2>2. f \in RefFiles(i)
    BY <1>1, <2>1 DEF RefFiles
  <2>3. inode[i].ref # 0
    BY <2>2, Unreferenced DEF Sound
  <2>4. inode[i].ref \in Nat
    BY ReferencesNat DEF Sound
  <2>5. inode[i].ref > 0
    BY <2>3, <2>4
  <2> QED
    BY <2>1, <2>5, Zenon
<1> QED
  BY Zenon, <1>1 DEF Sound, CallsValid

\* The counts for a file are those of the flock_t of its cache entry.
LEMMA SeenInCache ==
  ASSUME Sound, NEW n \in Inum, NEW i \in Inode, Caches(i, n)
  PROVE  Seen(n) = View(flock[i])
<1> DEFINE OnFiles(t) == {f \in File : /\ file[f].ref = 1 /\ inode[file[f].ip].inum = n
                                       /\ file[f].holding = t}
           OnCalls(t) == {p \in Pid : /\ pc[p] = "release" /\ inode[call[p].ip].inum = n
                                      /\ call[p].type = t}
           InQueue == {p \in Pid : /\ pc[p] = "wait" /\ inode[call[p].ip].inum = n
                                   /\ call[p].type = LOCK_EX}
<1>1. \A k \in Inode : inode[k].ref > 0 => (inode[k].inum = n <=> k = i)
  BY DEF Sound, ReferencesCounted, Caches
<1>2. \A f \in File : file[f].ref = 1 => (inode[file[f].ip].inum = n <=> file[f].ip = i)
  BY <1>1, PointedInUse
<1>3. \A p \in Pid : pc[p] # "user" => (inode[call[p].ip].inum = n <=> call[p].ip = i)
  BY <1>1, PointedInUse
<1>4. ASSUME NEW t PROVE OnFiles(t) = FileHolders(i, t) /\ OnCalls(t) = Closers(i, t)
  BY <1>2, <1>3 DEF FileHolders, Closers
<1>5. InQueue = Waiters(i, LOCK_EX)
  BY <1>3 DEF Waiters, WaitingOn
<1>6. ASSUME NEW t PROVE LocksOn(n, t) = Holders(i, t)
  <2>1. LocksOn(n, t) = Cardinality(OnFiles(t)) + Cardinality(OnCalls(t))
    BY DEF LocksOn
  <2> QED
    BY <1>4, <2>1, Zenon DEF Holders
<1>7. QueuedOn(n) = Cardinality(Waiters(i, LOCK_EX))
  BY Zenon, <1>5 DEF QueuedOn
<1>8. /\ flock[i].shared_holders = Holders(i, LOCK_SH)
      /\ Holders(i, LOCK_EX) = IF flock[i].state = FLOCK_EXCLUSIVE THEN 1 ELSE 0
      /\ flock[i].waiting_exclusive = Cardinality(Waiters(i, LOCK_EX))
  BY DEF Sound, Counted, StateAgrees, WaitsCounted
<1> HIDE DEF OnFiles, OnCalls, InQueue
<1> QED
  BY <1>6, <1>7, <1>8 DEF Seen, View

\* Nobody holds or wants a lock on a file that is not in the cache.
LEMMA SeenUncached ==
  ASSUME Sound, NEW n \in Inum, \A i \in Inode : ~ Caches(i, n)
  PROVE  Seen(n) = <<0, 0, 0>>
<1>1. \A f \in File : file[f].ref = 1 => inode[file[f].ip].inum # n
  BY PointedInUse DEF Caches
<1>2. \A p \in Pid : pc[p] # "user" => inode[call[p].ip].inum # n
  BY PointedInUse DEF Caches
<1>3. Cardinality({}) = 0
  BY FS_EmptySet
<1>4. \A t : {f \in File : /\ file[f].ref = 1 /\ inode[file[f].ip].inum = n
                           /\ file[f].holding = t} = {}
  BY <1>1
<1>5. \A t : {p \in Pid : /\ pc[p] = "release" /\ inode[call[p].ip].inum = n
                          /\ call[p].type = t} = {}
  BY <1>2
<1>6. {p \in Pid : /\ pc[p] = "wait" /\ inode[call[p].ip].inum = n
                   /\ call[p].type = LOCK_EX} = {}
  BY <1>2
<1>7. \A t : LocksOn(n, t) = 0 + 0
  BY <1>3, <1>4, <1>5, Zenon DEF LocksOn
<1>8. QueuedOn(n) = 0
  BY <1>3, <1>6, Zenon DEF QueuedOn
<1> QED
  BY <1>7, <1>8 DEF Seen

\* The flock_t of an entry that is not in use is that of an idle lock.
LEMMA UnusedIdle ==
  ASSUME Sound, NEW i \in Inode, inode[i].ref = 0
  PROVE  View(flock[i]) = <<0, 0, 0>>
<1>1. RefFiles(i) = {} /\ RefCalls(i) = {}
  BY Unreferenced DEF Sound
<1>2. \A t : FileHolders(i, t) = {} /\ Closers(i, t) = {} /\ Waiters(i, t) = {}
  BY <1>1, UnreferencedIdle DEF Sound
<1>3. \A t : Holders(i, t) = 0 /\ Cardinality(Waiters(i, t)) = 0
  BY <1>2, FS_EmptySet DEF Holders
<1> QED
  BY <1>3 DEF View, Sound, Counted, StateAgrees, WaitsCounted

\* What the lemmas above say of one state, for use in the state before a step
\* and in the state after it.
SeenRight ==
  /\ \A n \in Inum, i \in Inode : Caches(i, n) => Seen(n) = View(flock[i])
  /\ \A n \in Inum : (\A i \in Inode : ~ Caches(i, n)) => Seen(n) = <<0, 0, 0>>
  /\ \A i \in Inode : inode[i].ref \in Nat
  /\ \A i \in Inode : inode[i].ref = 0 => View(flock[i]) = <<0, 0, 0>>

\* It follows from the invariant.
LEMMA SeenIsRight == Sound => SeenRight
<1> SUFFICES ASSUME Sound PROVE SeenRight
  OBVIOUS
<1>1. \A i \in Inode : inode[i].ref \in Nat
  BY ReferencesNat DEF Sound
<1> QED
  BY <1>1, SeenInCache, SeenUncached, UnusedIdle DEF SeenRight

-----------------------------------------------------------------------------
(* Steps, seen per file.                                                     *)

\* Steps that touch no flock_t and rename no entry do not show, even when the
\* last reference to an entry goes.
LEMMA SeenSame ==
  ASSUME SeenRight, SeenRight', flock' = flock,
         \A i \in Inode : inode'[i].inum = inode[i].inum,
         \A i \in Inode : inode[i].ref = 0 => inode'[i].ref = 0
  PROVE  \A n \in Inum : Seen(n)' = Seen(n)
<1> SUFFICES ASSUME NEW n \in Inum PROVE Seen(n)' = Seen(n)
  OBVIOUS
<1>0. \A i \in Inode : inode[i].ref \in Nat /\ inode'[i].ref \in Nat
  BY DEF SeenRight
<1>1. CASE \E i \in Inode : Caches(i, n)'
  <2> PICK i \in Inode : Caches(i, n)'
    BY <1>1
  <2>1. Caches(i, n)
    BY <1>0 DEF Caches
  <2>2. Seen(n) = View(flock[i]) /\ Seen(n)' = View(flock'[i])
    BY <2>1 DEF SeenRight
  <2> QED
    BY <2>2
<1>2. CASE \A i \in Inode : ~ Caches(i, n)'
  <2>1. Seen(n)' = <<0, 0, 0>>
    BY <1>2 DEF SeenRight
  <2>2. CASE \E i \in Inode : Caches(i, n)
    <3> PICK i \in Inode : Caches(i, n)
      BY <2>2
    <3>1. inode'[i].ref = 0
      BY <1>0, <1>2 DEF Caches
    <3>2. Seen(n) = View(flock[i]) /\ View(flock'[i]) = <<0, 0, 0>>
      BY <3>1 DEF SeenRight
    <3> QED
      BY <2>1, <3>2
  <2>3. CASE \A i \in Inode : ~ Caches(i, n)
    BY <2>1, <2>3 DEF SeenRight
  <2> QED
    BY <2>2, <2>3
<1> QED
  BY <1>1, <1>2

\* inode_get gives an unused entry to a file that is not in the cache.
LEMMA SeenRecycled ==
  ASSUME Shape, SeenRight, SeenRight', NEW m \in Inum, NEW i \in Inode,
         inode[i].ref = 0, \A k \in Inode : ~ Caches(k, m),
         inode' = [inode EXCEPT ![i] = [inum |-> m, ref |-> 1]],
         flock' = [flock EXCEPT ![i] = flock_init]
  PROVE  \A n \in Inum : Seen(n)' = Seen(n)
<1> SUFFICES ASSUME NEW n \in Inum PROVE Seen(n)' = Seen(n)
  OBVIOUS
<1>0. /\ inode'[i].inum = m /\ inode'[i].ref = 1 /\ flock'[i] = flock_init
      /\ \A k \in Inode \ {i} : inode'[k] = inode[k] /\ flock'[k] = flock[k]
  BY DEF Shape, TypeOK
<1>1. CASE n = m
  <2>1. Seen(n) = <<0, 0, 0>>
    BY <1>1 DEF SeenRight
  <2>2. Caches(i, n)'
    BY <1>0, <1>1 DEF Caches
  <2>3. Seen(n)' = View(flock_init)
    BY <1>0, <2>2 DEF SeenRight
  <2> QED
    BY <2>1, <2>3 DEF View, flock_init
<1>2. CASE n # m
  <2>1. \A k \in Inode : Caches(k, n)' <=> Caches(k, n)
    BY <1>0, <1>2 DEF Caches
  <2>2. CASE \E k \in Inode : Caches(k, n)
    <3> PICK k \in Inode : Caches(k, n)
      BY <2>2
    <3>1. k # i /\ Caches(k, n)'
      BY <2>1 DEF Caches
    <3>2. Seen(n) = View(flock[k]) /\ Seen(n)' = View(flock'[k])
      BY <3>1 DEF SeenRight
    <3> QED
      BY <1>0, <3>1, <3>2
  <2>3. CASE \A k \in Inode : ~ Caches(k, n)
    BY <2>1, <2>3 DEF SeenRight
  <2> QED
    BY <2>2, <2>3
<1> QED
  BY <1>1, <1>2

\* Steps on the flock_t of one entry in use show for its file only.
LEMMA SeenAt ==
  ASSUME SeenRight, SeenRight', NEW i \in Inode, NEW n \in Inum, Caches(i, n),
         inode' = inode, \A k \in Inode \ {i} : flock'[k] = flock[k]
  PROVE  /\ Seen(n) = View(flock[i]) /\ Seen(n)' = View(flock'[i])
         /\ \A m \in Inum \ {n} : Seen(m)' = Seen(m)
<1>1. \A k \in Inode, m \in Inum : Caches(k, m)' <=> Caches(k, m)
  BY DEF Caches
<1>2. Seen(n) = View(flock[i]) /\ Seen(n)' = View(flock'[i])
  BY <1>1 DEF SeenRight
<1>3. ASSUME NEW m \in Inum \ {n} PROVE Seen(m)' = Seen(m)
  <2>1. CASE \E k \in Inode : Caches(k, m)
    <3> PICK k \in Inode : Caches(k, m)
      BY <2>1
    <3>1. k # i
      BY DEF Caches
    <3>2. Seen(m) = View(flock[k]) /\ Seen(m)' = View(flock'[k])
      BY <1>1 DEF SeenRight
    <3> QED
      BY <3>1, <3>2
  <2>2. CASE \A k \in Inode : ~ Caches(k, m)
    BY <1>1, <2>2 DEF SeenRight
  <2> QED
    BY <2>1, <2>2
<1> QED
  BY <1>2, <1>3

-----------------------------------------------------------------------------
(* Steps of RWLock.                                                          *)

\* A step that does not show is a stuttering step of RWLock.
LEMMA PromiseStutters ==
  ASSUME \A n \in Inum : Seen(n)' = Seen(n)
  PROVE  UNCHANGED Promise!rwVars
<1>1. \A n \in Inum : /\ LocksOn(n, LOCK_SH)' = LocksOn(n, LOCK_SH)
                      /\ LocksOn(n, LOCK_EX)' = LocksOn(n, LOCK_EX)
                      /\ QueuedOn(n)' = QueuedOn(n)
  BY DEF Seen
<1> QED
  BY <1>1 DEF Promise!rwVars

\* A step of RWLock on the counts of one file, from v to w.
LockStep(v, w) ==
  \/ v[2] = 0 /\ v[3] = 0 /\ w = <<v[1] + 1, v[2], v[3]>>
  \/ v[1] > 0 /\ w = <<v[1] - 1, v[2], v[3]>>
  \/ v[1] + v[2] > 0 /\ w = <<v[1], v[2], v[3] + 1>>
  \/ v[1] = 0 /\ v[2] = 0 /\ v[3] >= 0 /\ w = <<v[1], 1, v[3]>>
  \/ v[1] = 0 /\ v[2] = 0 /\ v[3] >= 1 /\ w = <<v[1], 1, v[3] - 1>>
  \/ v[2] = 1 /\ w = <<v[1], 0, v[3]>>

\* A step that shows for one file, and there as a step of the lock, is a step of
\* RWLock.
LEMMA PromiseMoves ==
  ASSUME NEW n \in Inum, \A m \in Inum \ {n} : Seen(m)' = Seen(m),
         NEW v, NEW w, Seen(n) = v, Seen(n)' = w, v = w \/ LockStep(v, w),
         v \in Int \X Int \X Int
  PROVE  [Promise!Next]_(Promise!rwVars)
<1> DEFINE R == [m \in Inum |-> LocksOn(m, LOCK_SH)]
           W == [m \in Inum |-> LocksOn(m, LOCK_EX)]
           Q == [m \in Inum |-> QueuedOn(m)]
<1>1. R[n] = v[1] /\ W[n] = v[2] /\ Q[n] = v[3]
  BY DEF Seen
<1>2. /\ R' = [R EXCEPT ![n] = w[1]] /\ W' = [W EXCEPT ![n] = w[2]]
      /\ Q' = [Q EXCEPT ![n] = w[3]]
  <2>1. \A m \in Inum \ {n} : /\ LocksOn(m, LOCK_SH)' = LocksOn(m, LOCK_SH)
                              /\ LocksOn(m, LOCK_EX)' = LocksOn(m, LOCK_EX)
                              /\ QueuedOn(m)' = QueuedOn(m)
    BY DEF Seen
  <2>2. /\ LocksOn(n, LOCK_SH)' = w[1] /\ LocksOn(n, LOCK_EX)' = w[2]
        /\ QueuedOn(n)' = w[3]
    BY DEF Seen
  <2> QED
    BY Zenon, <2>1, <2>2
<1>3. Promise!Next <=>
        \E m \in Inum : \/ Promise!Share(m) \/ Promise!Unshare(m) \/ Promise!Enqueue(m)
                        \/ Promise!Exclude(m, 0) \/ Promise!Exclude(m, 1)
                        \/ Promise!Unexclude(m)
  BY DEF Promise!Next
<1>4. [R EXCEPT ![n] = R[n]] = R /\ [W EXCEPT ![n] = W[n]] = W /\ [Q EXCEPT ![n] = Q[n]] = Q
  BY Zenon
<1>5. Promise!Share(n) <=> /\ W[n] = 0 /\ Q[n] = 0
                           /\ R' = [R EXCEPT ![n] = R[n] + 1] /\ W' = W /\ Q' = Q
  BY DEF Promise!Share
<1>6. Promise!Unshare(n) <=> /\ R[n] > 0
                             /\ R' = [R EXCEPT ![n] = R[n] - 1] /\ W' = W /\ Q' = Q
  BY DEF Promise!Unshare
<1>7. Promise!Enqueue(n) <=> /\ R[n] + W[n] > 0
                             /\ Q' = [Q EXCEPT ![n] = Q[n] + 1] /\ R' = R /\ W' = W
  BY DEF Promise!Enqueue
<1>8. \A k : Promise!Exclude(n, k) <=>
               /\ R[n] = 0 /\ W[n] = 0 /\ Q[n] >= k /\ W' = [W EXCEPT ![n] = 1]
               /\ Q' = [Q EXCEPT ![n] = Q[n] - k] /\ R' = R
  BY DEF Promise!Exclude
<1>9. Promise!Unexclude(n) <=> /\ W[n] = 1 /\ W' = [W EXCEPT ![n] = 0]
                                /\ R' = R /\ Q' = Q
  BY DEF Promise!Unexclude
<1>10. v[1] \in Int /\ v[2] \in Int /\ v[3] \in Int /\ v = <<v[1], v[2], v[3]>>
  OBVIOUS
<1> HIDE DEF R, W, Q
<1>11. CASE v = w
  <2>1. R' = R /\ W' = W /\ Q' = Q
    BY <1>1, <1>2, <1>4, <1>11
  <2>2. UNCHANGED Promise!rwVars
    BY <2>1 DEF Promise!rwVars, R, W, Q
  <2> QED
    BY <2>2
<1>12. CASE v[2] = 0 /\ v[3] = 0 /\ w = <<v[1] + 1, v[2], v[3]>>
  <2>1. w[1] = v[1] + 1 /\ w[2] = v[2] /\ w[3] = v[3]
    BY <1>12
  <2>2. Promise!Share(n)
    BY <1>1, <1>2, <1>4, <1>5, <1>12, <2>1
  <2> QED
    BY <1>3, <2>2
<1>13. CASE v[1] > 0 /\ w = <<v[1] - 1, v[2], v[3]>>
  <2>1. w[1] = v[1] - 1 /\ w[2] = v[2] /\ w[3] = v[3]
    BY <1>13
  <2>2. Promise!Unshare(n)
    BY <1>1, <1>2, <1>4, <1>6, <1>13, <2>1
  <2> QED
    BY <1>3, <2>2
<1>14. CASE v[1] + v[2] > 0 /\ w = <<v[1], v[2], v[3] + 1>>
  <2>1. w[1] = v[1] /\ w[2] = v[2] /\ w[3] = v[3] + 1
    BY <1>14
  <2>2. Promise!Enqueue(n)
    BY <1>1, <1>2, <1>4, <1>7, <1>14, <2>1
  <2> QED
    BY <1>3, <2>2
<1>15. CASE v[1] = 0 /\ v[2] = 0 /\ v[3] >= 0 /\ w = <<v[1], 1, v[3]>>
  <2>1. w[1] = v[1] /\ w[2] = 1 /\ w[3] = v[3] - 0
    BY <1>10, <1>15
  <2>2. Promise!Exclude(n, 0)
    BY Zenon, <1>1, <1>2, <1>4, <1>8, <1>15, <2>1
  <2> QED
    BY <1>3, <2>2
<1>16. CASE v[1] = 0 /\ v[2] = 0 /\ v[3] >= 1 /\ w = <<v[1], 1, v[3] - 1>>
  <2>1. w[1] = v[1] /\ w[2] = 1 /\ w[3] = v[3] - 1
    BY <1>16
  <2>2. Promise!Exclude(n, 1)
    BY Zenon, <1>1, <1>2, <1>4, <1>8, <1>16, <2>1
  <2> QED
    BY <1>3, <2>2
<1>17. CASE v[2] = 1 /\ w = <<v[1], 0, v[3]>>
  <2>1. w[1] = v[1] /\ w[2] = 0 /\ w[3] = v[3]
    BY <1>17
  <2>2. Promise!Unexclude(n)
    BY <1>1, <1>2, <1>4, <1>9, <1>17, <2>1
  <2> QED
    BY <1>3, <2>2
<1> QED
  BY <1>11, <1>12, <1>13, <1>14, <1>15, <1>16, <1>17 DEF LockStep

-----------------------------------------------------------------------------
(* The operators of Flock as steps of the lock.                              *)

\* A release is a step of the lock, or does nothing.
LEMMA ReleaseMoves ==
  ASSUME NEW fl \in FlockT, NEW h
  PROVE  \/ View(flock_release(fl, h)) = View(fl)
         \/ LockStep(View(fl), View(flock_release(fl, h)))
<1>1. CASE h = LOCK_SH /\ fl.state = FLOCK_SHARED /\ fl.shared_holders > 0
  <2>1. PICK st \in FlockState :
          /\ st = IF fl.shared_holders = 1 THEN FLOCK_INACTIVE ELSE fl.state
          /\ flock_release(fl, h) =
               [fl EXCEPT !.shared_holders = fl.shared_holders - 1, !.state = st]
    BY Zenon, <1>1 DEF flock_release, FlockT
  <2>2. View(flock_release(fl, h)) = <<fl.shared_holders - 1, 0, fl.waiting_exclusive>>
    BY Zenon, <1>1, <2>1 DEF View, FlockT
  <2>3. View(fl) = <<fl.shared_holders, 0, fl.waiting_exclusive>>
    BY <1>1 DEF View
  <2> QED
    BY <1>1, <2>2, <2>3 DEF LockStep
<1>2. CASE h = LOCK_EX /\ fl.state = FLOCK_EXCLUSIVE
  <2>1. View(flock_release(fl, h)) = <<fl.shared_holders, 0, fl.waiting_exclusive>>
    BY <1>2 DEF flock_release, View, FlockT
  <2>2. View(fl) = <<fl.shared_holders, 1, fl.waiting_exclusive>>
    BY <1>2 DEF View
  <2> QED
    BY <2>1, <2>2 DEF LockStep
<1>3. CASE /\ ~ (h = LOCK_SH /\ fl.state = FLOCK_SHARED /\ fl.shared_holders > 0)
           /\ ~ (h = LOCK_EX /\ fl.state = FLOCK_EXCLUSIVE)
  BY <1>3 DEF flock_release
<1> QED
  BY <1>1, <1>2, <1>3

\* A request that need not wait is granted by a step of the lock.
LEMMA GrantMoves ==
  ASSUME NEW fl \in FlockT, NEW h \in LockType, ~ MustWait(fl, h),
         fl.state = FLOCK_SHARED <=> fl.shared_holders > 0,
         fl.shared_holders >= 0, fl.waiting_exclusive >= 0
  PROVE  LockStep(View(fl), View(Grant(fl, h)))
<1>1. fl.shared_holders \in Int /\ fl.waiting_exclusive \in Int /\ fl.state \in FlockState
  BY DEF FlockT
<1>2. CASE h = LOCK_SH
  <2>1. Grant(fl, h) =
          [fl EXCEPT !.state = FLOCK_SHARED, !.shared_holders = fl.shared_holders + 1]
    BY <1>2 DEF Grant
  <2>2. View(Grant(fl, h)) = <<fl.shared_holders + 1, 0, fl.waiting_exclusive>>
    BY <2>1 DEF View, FlockT
  <2>3. View(fl) = <<fl.shared_holders, 0, 0>> /\ fl.waiting_exclusive = 0
    BY <1>1, <1>2 DEF View, MustWait
  <2> QED
    BY <2>2, <2>3 DEF LockStep
<1>3. CASE h = LOCK_EX
  <2>1. View(Grant(fl, h)) = <<fl.shared_holders, 1, fl.waiting_exclusive>>
    BY <1>3 DEF Grant, View, FlockT
  <2>2. View(fl) = <<0, 0, fl.waiting_exclusive>> /\ fl.shared_holders = 0
    BY <1>1, <1>3 DEF View, MustWait
  <2> QED
    BY <2>1, <2>2 DEF LockStep
<1> QED
  BY <1>2, <1>3

\* So is a request that has waited: a writer leaves the queue with it.
LEMMA ResumeMoves ==
  ASSUME NEW fl \in FlockT, NEW h \in LockType, ~ MustWait(fl, h), NEW p \in Pid,
         fl.state = FLOCK_SHARED <=> fl.shared_holders > 0,
         fl.shared_holders >= 0, fl.waiting_exclusive >= 0,
         h = LOCK_EX => fl.waiting_exclusive >= 1
  PROVE  LockStep(View(fl), View(Grant(EndWait(fl, p, h), h)))
<1>1. fl.shared_holders \in Int /\ fl.waiting_exclusive \in Int /\ fl.state \in FlockState
  BY DEF FlockT
<1>2. PICK gl \in FlockT : gl = EndWait(fl, p, h)
  BY EndWaitFields
<1>3. /\ gl.state = fl.state /\ gl.shared_holders = fl.shared_holders
      /\ gl.waiting_exclusive = fl.waiting_exclusive - (IF h = LOCK_EX THEN 1 ELSE 0)
  BY <1>2, EndWaitFields
<1>4. CASE h = LOCK_SH
  <2>1. View(gl) = View(fl) /\ ~ MustWait(gl, h)
    BY <1>1, <1>3, <1>4 DEF View, MustWait
  <2>2. LockStep(View(gl), View(Grant(gl, h)))
    BY <1>1, <1>3, <1>4, <2>1, GrantMoves
  <2> QED
    BY <1>2, <2>1, <2>2
<1>5. CASE h = LOCK_EX
  <2>1. View(Grant(gl, h)) = <<gl.shared_holders, 1, gl.waiting_exclusive>>
    BY <1>5 DEF Grant, View, FlockT
  <2>2. View(Grant(gl, h)) = <<0, 1, fl.waiting_exclusive - 1>>
    BY <1>1, <1>3, <1>5, <2>1 DEF MustWait
  <2>3. View(fl) = <<0, 0, fl.waiting_exclusive>>
    BY <1>1, <1>5 DEF View, MustWait
  <2> QED
    BY <1>2, <1>5, <2>2, <2>3 DEF LockStep
<1> QED
  BY <1>4, <1>5

\* A request that must wait queues a writer, or does not show.
LEMMA BlockMoves ==
  ASSUME NEW fl \in FlockT, NEW h \in LockType, MustWait(fl, h), NEW p \in Pid,
         fl.state = FLOCK_SHARED <=> fl.shared_holders > 0, fl.shared_holders >= 0
  PROVE  \/ View(StartWait(fl, p, h)) = View(fl)
         \/ LockStep(View(fl), View(StartWait(fl, p, h)))
<1>1. fl.shared_holders \in Int /\ fl.waiting_exclusive \in Int /\ fl.state \in FlockState
  BY DEF FlockT
<1>2. PICK gl \in FlockT : gl = StartWait(fl, p, h)
  BY StartWaitFields
<1>3. /\ gl.state = fl.state /\ gl.shared_holders = fl.shared_holders
      /\ gl.waiting_exclusive = fl.waiting_exclusive + (IF h = LOCK_EX THEN 1 ELSE 0)
  BY <1>2, StartWaitFields
<1>4. CASE h = LOCK_SH
  <2>1. View(gl) = View(fl)
    BY <1>1, <1>3, <1>4 DEF View
  <2> QED
    BY <1>2, <2>1
<1>5. CASE h = LOCK_EX
  <2>1. PICK w \in {0, 1} : w = IF fl.state = FLOCK_EXCLUSIVE THEN 1 ELSE 0
    OBVIOUS
  <2>2. View(fl) = <<fl.shared_holders, w, fl.waiting_exclusive>>
    BY <2>1 DEF View
  <2>3. View(gl) = <<fl.shared_holders, w, fl.waiting_exclusive + 1>>
    BY <1>3, <1>5, <2>1 DEF View
  <2>4. fl.shared_holders + w > 0
    BY <1>1, <1>5, <2>1 DEF MustWait
  <2> QED
    BY <1>2, <2>2, <2>3, <2>4 DEF LockStep
<1> QED
  BY <1>4, <1>5

-----------------------------------------------------------------------------
(* The simulation.                                                           *)

\* The counters of a flock_t in a reachable state, as the lemmas above need them.
LEMMA FlockShape ==
  ASSUME Sound, NEW i \in Inode
  PROVE  /\ flock[i] \in FlockT
         /\ flock[i].state = FLOCK_SHARED <=> flock[i].shared_holders > 0
         /\ flock[i].shared_holders >= 0 /\ flock[i].waiting_exclusive >= 0
         /\ View(flock[i]) \in Int \X Int \X Int
<1>1. flock[i] \in FlockT
  BY DEF Sound, Shape, TypeOK
<1>2. /\ flock[i].shared_holders = Holders(i, LOCK_SH)
      /\ flock[i].state = FLOCK_SHARED <=> Holders(i, LOCK_SH) > 0
      /\ flock[i].waiting_exclusive = Cardinality(Waiters(i, LOCK_EX))
  BY DEF Sound, Counted, StateAgrees, WaitsCounted
<1>3. Holders(i, LOCK_SH) \in Nat /\ Cardinality(Waiters(i, LOCK_EX)) \in Nat
  BY FiniteHolders
<1>4. View(flock[i]) \in Int \X Int \X Int
  BY <1>2, <1>3 DEF View
<1> QED
  BY <1>1, <1>2, <1>3, <1>4

\* Every step of the code is a step of RWLock or a stuttering step of it.
LEMMA PromiseStep ==
  ASSUME Sound, SeenRight, SeenRight', NEW p \in Pid, StepOf(p)
  PROVE  [Promise!Next]_(Promise!rwVars)
<1> USE DEF Goto, Return
<1>0. /\ file \in [File -> FileT] /\ openfiles \in [Pid -> SUBSET File]
      /\ pc \in [Pid -> Place] /\ call \in [Pid -> Call] /\ CallShape(p)
      /\ inode \in [Inode -> [inum : Inum \cup {Nil}, ref : Int]]
      /\ flock \in [Inode -> FlockT]
  BY Types DEF Sound, Shape, TypeOK
<1>1. ASSUME \A n \in Inum : Seen(n)' = Seen(n) PROVE [Promise!Next]_(Promise!rwVars)
  BY <1>1, PromiseStutters
<1>2. ASSUME inode' = inode, flock' = flock PROVE [Promise!Next]_(Promise!rwVars)
  BY <1>1, <1>2, SeenSame
<1>3. ASSUME NEW i \in Inode, inode[i].ref > 0, NEW gl, inode' = inode,
             flock' = [flock EXCEPT ![i] = gl],
             View(gl) = View(flock[i]) \/ LockStep(View(flock[i]), View(gl))
      PROVE  [Promise!Next]_(Promise!rwVars)
  <2>1. PICK n \in Inum : inode[i].inum = n
    BY <1>3 DEF Sound, EntriesNamed
  <2>2. Caches(i, n)
    BY <1>3, <2>1 DEF Caches
  <2>3. flock'[i] = gl /\ \A k \in Inode \ {i} : flock'[k] = flock[k]
    BY <1>0, <1>3
  <2>4. /\ Seen(n) = View(flock[i]) /\ Seen(n)' = View(gl)
        /\ \A m \in Inum \ {n} : Seen(m)' = Seen(m)
    BY <1>3, <2>2, <2>3, SeenAt
  <2>5. View(flock[i]) \in Int \X Int \X Int
    BY FlockShape
  <2>6. PICK v, w : v = View(flock[i]) /\ w = View(gl)
    OBVIOUS
  <2>7. /\ Seen(n) = v /\ Seen(n)' = w /\ (v = w \/ LockStep(v, w))
        /\ v \in Int \X Int \X Int
    BY <1>3, <2>4, <2>5, <2>6
  <2> QED
    BY <2>4, <2>7, PromiseMoves, Zenon
<1>4. CASE \E n \in Inum, i \in Inode : GetCached(p, n, i) /\ UNCHANGED asleep
  <2> PICK n \in Inum, i \in Inode : GetCached(p, n, i)
    BY <1>4
  <2>1. /\ flock' = flock /\ inode[i].ref > 0 /\ inode' = [inode EXCEPT ![i].ref = @ + 1]
    BY DEF GetCached
  <2>2. \A k \in Inode : /\ inode'[k].inum = inode[k].inum
                         /\ inode[k].ref = 0 => inode'[k].ref = 0
    BY <1>0, <2>1
  <2> QED
    BY <1>1, <2>1, <2>2, SeenSame
<1>5. CASE \E n \in Inum, i \in Inode : GetRecycled(p, n, i) /\ UNCHANGED asleep
  <2> PICK n \in Inum, i \in Inode : GetRecycled(p, n, i)
    BY <1>5
  <2>1. /\ inode[i].ref = 0 /\ \A k \in Inode : ~ Caches(k, n)
        /\ inode' = [inode EXCEPT ![i] = [inum |-> n, ref |-> 1]]
        /\ flock' = [flock EXCEPT ![i] = flock_init]
    BY DEF GetRecycled, Caches
  <2>2. Shape
    BY DEF Sound
  <2> QED
    BY Zenon, <1>1, <2>1, <2>2, SeenRecycled
<1>6. CASE \E f \in File : OpenFile(p, f) /\ UNCHANGED asleep
  BY <1>2, <1>6 DEF OpenFile
<1>7. CASE OpenFails(p) /\ UNCHANGED asleep
  BY <1>2, <1>7 DEF OpenFails
<1>8. CASE Put(p) /\ UNCHANGED asleep
  <2>1. PICK i \in Inode : i = call[p].ip /\ inode[i].ref > 0
    BY <1>8, PointedInUse DEF Put
  <2>2. flock' = flock /\ inode' = [inode EXCEPT ![i].ref = @ - 1]
    BY <1>8, <2>1 DEF Put
  <2>3. \A k \in Inode : /\ inode'[k].inum = inode[k].inum
                         /\ inode[k].ref = 0 => inode'[k].ref = 0
    BY <1>0, <2>1, <2>2
  <2> QED
    BY <1>1, <2>2, <2>3, SeenSame
<1>9. ASSUME NEW f \in File, Calls(p, f), inode' = inode,
             flock' = [flock EXCEPT ![file[f].ip] = flock_release(@, file[f].holding)]
      PROVE  [Promise!Next]_(Promise!rwVars)
  <2>1. file[f].ref = 1
    BY <1>9, CalledFile DEF Sound
  <2>2. PICK i \in Inode : i = file[f].ip /\ inode[i].ref > 0
    BY <2>1, PointedInUse
  <2>3. flock' = [flock EXCEPT ![i] = flock_release(flock[i], file[f].holding)]
    BY <1>9, <2>2
  <2> QED
    BY Zenon, <1>0, <1>3, <1>9, <2>2, <2>3, ReleaseMoves
<1>10. CASE \E f \in File : Unlock(p, f) /\ Wakeup(file[f].ip, file[f].holding)
  BY Zenon, <1>9, <1>10 DEF Unlock
<1>11. CASE \E f \in File, type \in {LOCK_SH, LOCK_EX, BAD}, nb \in BOOLEAN :
              Lock(p, f, type, nb) /\ UNCHANGED asleep
  BY <1>2, <1>11 DEF Lock
<1>12. CASE \E f \in File, type \in {LOCK_SH, LOCK_EX, BAD}, nb \in BOOLEAN :
              Convert(p, f, type, nb) /\ Wakeup(file[f].ip, file[f].holding)
  BY Zenon, <1>9, <1>12 DEF Convert
<1>13. CASE AcquireGranted(p) /\ UNCHANGED asleep
  <2>1. PICK i \in Inode, h \in LockType :
          i = call[p].ip /\ h = call[p].type /\ inode[i].ref > 0
    BY <1>13, PointedInUse DEF AcquireGranted
  <2>2. /\ ~ MustWait(flock[i], h) /\ inode' = inode
        /\ flock' = [flock EXCEPT ![i] = Grant(flock[i], h)]
    BY <1>13, <2>1 DEF AcquireGranted
  <2>3. LockStep(View(flock[i]), View(Grant(flock[i], h)))
    BY <2>2, FlockShape, GrantMoves
  <2> QED
    BY Zenon, <1>3, <2>1, <2>2, <2>3
<1>14. CASE AcquireRefused(p) /\ UNCHANGED asleep
  BY <1>2, <1>14 DEF AcquireRefused
<1>15. CASE AcquireBlocked(p) /\ thread_sleep(p)
  <2>1. PICK i \in Inode, h \in LockType :
          i = call[p].ip /\ h = call[p].type /\ inode[i].ref > 0
    BY <1>15, PointedInUse DEF AcquireBlocked
  <2>2. /\ MustWait(flock[i], h) /\ inode' = inode
        /\ flock' = [flock EXCEPT ![i] = StartWait(flock[i], p, h)]
    BY <1>15, <2>1 DEF AcquireBlocked
  <2>3. \/ View(StartWait(flock[i], p, h)) = View(flock[i])
        \/ LockStep(View(flock[i]), View(StartWait(flock[i], p, h)))
    BY <2>2, FlockShape, BlockMoves
  <2> QED
    BY ZenonT(40), <1>3, <2>1, <2>2, <2>3
<1>16. CASE p \notin asleep /\ ResumeGranted(p) /\ UNCHANGED asleep
  <2>1. PICK i \in Inode, h \in LockType :
          i = call[p].ip /\ h = call[p].type /\ inode[i].ref > 0
    BY <1>0, <1>16, PointedInUse DEF ResumeGranted, CallShape
  <2>2. /\ ~ MustWait(flock[i], h) /\ inode' = inode
        /\ flock' = [flock EXCEPT ![i] = Grant(EndWait(flock[i], p, h), h)]
    BY <1>16, <2>1 DEF ResumeGranted
  <2>3. h = LOCK_EX => flock[i].waiting_exclusive >= 1
    <3> SUFFICES ASSUME h = LOCK_EX PROVE flock[i].waiting_exclusive >= 1
      OBVIOUS
    <3>1. p \in Waiters(i, LOCK_EX)
      BY <1>16, <2>1 DEF ResumeGranted, Waiters, WaitingOn
    <3>2. Cardinality(Waiters(i, LOCK_EX)) > 0 /\ Cardinality(Waiters(i, LOCK_EX)) \in Nat
      BY ZenonT(40), <3>1, FiniteHolders, CardDel
    <3>3. flock[i].waiting_exclusive = Cardinality(Waiters(i, LOCK_EX))
      BY DEF Sound, Counted, WaitsCounted
    <3> QED
      BY <3>2, <3>3
  <2>4. LockStep(View(flock[i]), View(Grant(EndWait(flock[i], p, h), h)))
    BY <2>2, <2>3, FlockShape, ResumeMoves
  <2> QED
    BY Zenon, <1>3, <2>1, <2>2, <2>4
<1>17. CASE p \notin asleep /\ ResumeBlocked(p) /\ thread_sleep(p)
  BY <1>2, <1>17 DEF ResumeBlocked, dataVars
<1>18. CASE \E f \in File : CloseFile(p, f) /\ UNCHANGED asleep
  BY <1>2, <1>18 DEF CloseFile
<1>19. CASE CloseRelease(p) /\ Wakeup(call[p].ip, call[p].type)
  <2>1. PICK i \in Inode : i = call[p].ip /\ inode[i].ref > 0
    BY <1>19, PointedInUse DEF CloseRelease
  <2>2. /\ inode' = inode
        /\ flock' = [flock EXCEPT ![i] = flock_release(flock[i], call[p].type)]
    BY <1>19, <2>1 DEF CloseRelease
  <2> QED
    BY Zenon, <1>0, <1>3, <2>1, <2>2, ReleaseMoves
<1> QED
  BY ZenonT(40), <1>4, <1>5, <1>6, <1>7, <1>8, <1>10, <1>11, <1>12, <1>13, <1>14, <1>15, <1>16,
     <1>17, <1>18, <1>19 DEF StepOf

\* inode_get names every entry it takes, and nothing renames an entry in use.
LEMMA EntriesStayNamed == Spec => []EntriesNamed
<1>1. Init => EntriesNamed
  BY DEF Init, DataInit, EntriesNamed
<1>2. Shape /\ CallsValid /\ EntriesNamed /\ [Next]_vars => EntriesNamed'
  <2> SUFFICES ASSUME Shape, CallsValid, EntriesNamed, [Next]_vars PROVE EntriesNamed'
    OBVIOUS
  <2>0. inode \in [Inode -> [inum : Inum \cup {Nil}, ref : Int]]
    BY DEF Shape, TypeOK
  <2>1. ASSUME inode' = inode PROVE EntriesNamed'
    BY <2>1 DEF EntriesNamed
  <2>2. CASE UNCHANGED vars
    BY <2>1, <2>2 DEF vars
  <2>3. CASE Next
    <3>1. PICK p \in Pid : StepOf(p)
      BY <2>3, NextSteps
    <3>2. CASE \E n \in Inum, i \in Inode : GetCached(p, n, i)
      BY <2>0, <3>2 DEF GetCached, EntriesNamed
    <3>3. CASE \E n \in Inum, i \in Inode : GetRecycled(p, n, i)
      BY <2>0, <3>3 DEF GetRecycled, EntriesNamed
    <3>4. CASE Put(p)
      <4>1. /\ inode[call[p].ip].ref > 0 /\ call[p].ip \in Inode
            /\ inode' = [inode EXCEPT ![call[p].ip].ref = @ - 1]
        BY Zenon, <3>4 DEF Put, CallsValid
      <4> QED
        BY <2>0, <4>1 DEF EntriesNamed
    <3>5. CASE inode' = inode
      BY <2>1, <3>5
    <3> QED
      BY ZenonT(40), <3>1, <3>2, <3>3, <3>4, <3>5
      DEF StepOf, OpenFile, OpenFails, Unlock, Lock, Convert, AcquireGranted,
          AcquireRefused, AcquireBlocked, ResumeGranted, ResumeBlocked, CloseFile,
          CloseRelease, dataVars
  <2> QED
    BY <2>2, <2>3
<1> QED
  BY <1>1, <1>2, ShapeInvariant, CallsStayValid, PTL DEF Spec

-----------------------------------------------------------------------------
(* The theorem.                                                              *)

\* Per file on disk, open, flock and close behave as a reader/writer lock that
\* prefers writers: no step of any thread does anything to the locks of a file
\* that RWLock does not allow, whatever the inode cache does underneath.
THEOREM PromiseKept == Spec => KeepsPromise
<1>1. Init => Promise!Init
  <2> SUFFICES ASSUME Init PROVE Promise!Init
    OBVIOUS
  <2>1. /\ \A f \in File : file[f].ref = 0
        /\ \A p \in Pid : pc[p] = "user"
    BY DEF Init, DataInit
  <2>2. Cardinality({}) = 0
    BY FS_EmptySet
  <2>3. \A n, t : {f \in File : /\ file[f].ref = 1 /\ inode[file[f].ip].inum = n
                                /\ file[f].holding = t} = {}
    BY <2>1
  <2>4. \A n, t : {p \in Pid : /\ pc[p] = "release" /\ inode[call[p].ip].inum = n
                               /\ call[p].type = t} = {}
    BY <2>1
  <2>5. \A n : {p \in Pid : /\ pc[p] = "wait" /\ inode[call[p].ip].inum = n
                            /\ call[p].type = LOCK_EX} = {}
    BY <2>1
  <2>6. \A n, t : LocksOn(n, t) = 0 + 0
    BY <2>2, <2>3, <2>4, ZenonT(40) DEF LocksOn
  <2>7. \A n : QueuedOn(n) = 0
    BY <2>2, <2>5, Zenon DEF QueuedOn
  <2> QED
    BY <2>6, <2>7 DEF Promise!Init
<1>2. Sound /\ SeenRight /\ SeenRight' /\ [Next]_vars => [Promise!Next]_(Promise!rwVars)
  <2> SUFFICES ASSUME Sound, SeenRight, SeenRight', [Next]_vars
               PROVE  [Promise!Next]_(Promise!rwVars)
    OBVIOUS
  <2>1. CASE UNCHANGED vars
    <3>1. flock' = flock /\ inode' = inode
      BY <2>1 DEF vars
    <3>2. \A n \in Inum : Seen(n)' = Seen(n)
      BY <3>1, SeenSame
    <3> QED
      BY <3>2, PromiseStutters
  <2>2. CASE Next
    BY <2>2, NextSteps, PromiseStep
  <2> QED
    BY <2>1, <2>2
<1>3. Spec => []Sound
  <2>1. Shape /\ ReferencesCounted /\ CallsValid /\ Counted /\ EntriesNamed => Sound
    BY DEF Sound
  <2> QED
    BY <2>1, ShapeInvariant, ReferencesInvariant, CallsStayValid, CountedInvariant,
       EntriesStayNamed, PTL
<1> QED
  BY <1>1, <1>2, <1>3, SeenIsRight, PTL DEF Spec, KeepsPromise, Promise!Spec
=============================================================================
