--------------------------- MODULE FileFlockProofs --------------------------
(***************************************************************************)
(* Proofs about FileFlock for every number of processes, open files, inode  *)
(* cache entries and files on disk: the first two layers, types and         *)
(* pointers, and the reference counts of the inode cache.                   *)
(***************************************************************************)
EXTENDS FileFlock, FlockProofs, FiniteSetTheorems

USE DEF FlockState, Held, LockType, FLOCK_INACTIVE, FLOCK_SHARED, FLOCK_EXCLUSIVE,
        NONE, LOCK_SH, LOCK_EX, BAD

-----------------------------------------------------------------------------
(* The first layer: types, and which pointers a system call relies on.       *)

\* What the local variables of a system call point to.
CallShape(p) ==
  /\ pc[p] # "user" => call[p].ip \in Inode
  /\ pc[p] \in {"acquire", "wait"} =>
       /\ call[p].file \in openfiles[p]
       /\ file[call[p].file] = [ref |-> 1, ip |-> call[p].ip, holding |-> NONE]
  /\ pc[p] \in {"wait", "release"} => call[p].type \in LockType

Shape ==
  /\ TypeOK
  /\ DescriptorsValid
  /\ \A f \in File : file[f].ref = 1 => file[f].ip \in Inode
  /\ \A p \in Pid : CallShape(p)

\* The disjuncts of Next, each with what it does to asleep.
StepOf(p) ==
  \/ \E n \in Inum, i \in Inode : GetCached(p, n, i) /\ UNCHANGED asleep
  \/ \E n \in Inum, i \in Inode : GetRecycled(p, n, i) /\ UNCHANGED asleep
  \/ \E f \in File : OpenFile(p, f) /\ UNCHANGED asleep
  \/ OpenFails(p) /\ UNCHANGED asleep
  \/ Put(p) /\ UNCHANGED asleep
  \/ \E f \in File : Unlock(p, f) /\ Wakeup(file[f].ip, file[f].holding)
  \/ \E f \in File, type \in {LOCK_SH, LOCK_EX, BAD}, nb \in BOOLEAN :
       Lock(p, f, type, nb) /\ UNCHANGED asleep
  \/ \E f \in File, type \in {LOCK_SH, LOCK_EX, BAD}, nb \in BOOLEAN :
       Convert(p, f, type, nb) /\ Wakeup(file[f].ip, file[f].holding)
  \/ AcquireGranted(p) /\ UNCHANGED asleep
  \/ AcquireRefused(p) /\ UNCHANGED asleep
  \/ AcquireBlocked(p) /\ thread_sleep(p)
  \/ p \notin asleep /\ ResumeGranted(p) /\ UNCHANGED asleep
  \/ p \notin asleep /\ ResumeBlocked(p) /\ thread_sleep(p)
  \/ \E f \in File : CloseFile(p, f) /\ UNCHANGED asleep
  \/ CloseRelease(p) /\ Wakeup(call[p].ip, call[p].type)

\* Every step of Next is one of them.
LEMMA NextSteps ==
  ASSUME Next
  PROVE  \E p \in Pid : StepOf(p)
BY DEF Next, StepOf, sys_open, flock_un, flock_lock, flock_acquire, flock_resume,
       sys_close, close_release, close_put, KernelStep

\* sys_open starts with the inode pointer as its only local variable.
LEMMA OpenCall ==
  ASSUME NEW i \in Inode
  PROVE  [NoCall EXCEPT !.ip = i] \in Call /\ [NoCall EXCEPT !.ip = i].ip = i
BY DEF NoCall, Call

\* The first layer holds when the kernel has booted.
LEMMA ShapeInit == Init => Shape
BY FlockInit DEF Init, DataInit, Shape, TypeOK, DescriptorsValid, LiveFiles, CallShape,
       NoCall, Call, Place

InodeT == [inum : Inum \cup {Nil}, ref : Int]
FileT  == [ref : {0, 1}, ip : Inode \cup {Nil}, holding : Held]

\* Changing the reference count of a cache entry.
LEMMA SetRef ==
  ASSUME NEW g \in [Inode -> InodeT], NEW i \in Inode, NEW r \in Int
  PROVE  LET h == [g EXCEPT ![i].ref = r] IN
         /\ h \in [Inode -> InodeT]
         /\ \A j \in Inode : h[j].inum = g[j].inum /\ h[j].ref = IF j = i THEN r ELSE g[j].ref
BY DEF InodeT

\* Changing the lock an open file holds.
LEMMA SetHolding ==
  ASSUME NEW g \in [File -> FileT], NEW f \in File, NEW t \in Held
  PROVE  LET h == [g EXCEPT ![f].holding = t] IN
         /\ h \in [File -> FileT]
         /\ \A j \in File : /\ h[j].ref = g[j].ref /\ h[j].ip = g[j].ip
                            /\ h[j].holding = IF j = f THEN t ELSE g[j].holding
         /\ \A j \in File \ {f} : h[j] = g[j]
BY DEF FileT

\* The types, in the form the lemmas use.
LEMMA Types ==
  TypeOK <=> /\ inode \in [Inode -> InodeT] /\ flock \in [Inode -> FlockT]
             /\ file \in [File -> FileT] /\ openfiles \in [Pid -> SUBSET File]
             /\ pc \in [Pid -> Place] /\ call \in [Pid -> Call] /\ asleep \in SUBSET Pid
BY DEF TypeOK, InodeT, FileT

\* A descriptor used by a system call leads to an open file of an inode.
LEMMA CalledFile ==
  ASSUME Shape, NEW p \in Pid, NEW f \in File, Calls(p, f)
  PROVE  file[f].ref = 1 /\ file[f].ip \in Inode /\ f \in LiveFiles(p)
BY DEF Shape, DescriptorsValid, LiveFiles, Calls

\* No other thread has a descriptor of that file or works on it.
LEMMA NotShared ==
  ASSUME Shape, NEW p \in Pid, NEW f \in LiveFiles(p), NEW q \in Pid \ {p}
  PROVE  f \notin LiveFiles(q) /\ (pc[q] \in {"acquire", "wait"} => call[q].file # f)
<1>1. LiveFiles(p) \cap LiveFiles(q) = {}
  BY DEF Shape, DescriptorsValid
<1>2. pc[q] \in {"acquire", "wait"} => call[q].file \in LiveFiles(q)
  BY DEF Shape, CallShape, LiveFiles
<1> QED
  BY <1>1, <1>2

\* Every step keeps the types.
LEMMA TypeStep ==
  ASSUME Shape, NEW p \in Pid, StepOf(p)
  PROVE  TypeOK'
<1> USE FileLocksAssumption
<1>0. /\ inode \in [Inode -> InodeT] /\ flock \in [Inode -> FlockT]
      /\ file \in [File -> FileT] /\ openfiles \in [Pid -> SUBSET File]
      /\ pc \in [Pid -> Place] /\ call \in [Pid -> Call] /\ asleep \in SUBSET Pid
  BY Types DEF Shape
<1> SUFFICES /\ inode' \in [Inode -> InodeT] /\ flock' \in [Inode -> FlockT]
             /\ file' \in [File -> FileT] /\ openfiles' \in [Pid -> SUBSET File]
             /\ pc' \in [Pid -> Place] /\ call' \in [Pid -> Call] /\ asleep' \in SUBSET Pid
  BY DEF TypeOK, InodeT, FileT
<1>1. NoCall \in Call /\ call[p] \in Call /\ CallShape(p)
  BY <1>0 DEF NoCall, Call, Shape
<1>2. ASSUME NEW l \in Place, NEW c \in Call, Goto(p, l, c)
      PROVE  pc' \in [Pid -> Place] /\ call' \in [Pid -> Call]
  BY <1>0, <1>2 DEF Goto
<1>3. ASSUME Return(p)
      PROVE  pc' \in [Pid -> Place] /\ call' \in [Pid -> Call]
  BY <1>0, <1>1, <1>3 DEF Return, Goto, Place
<1>4. ASSUME NEW i \in Inode, NEW t, Wakeup(i, t) PROVE asleep' \in SUBSET Pid
  BY <1>0, <1>4 DEF Wakeup
<1>5. CASE \E n \in Inum, i \in Inode : GetCached(p, n, i) /\ UNCHANGED asleep
  <2> PICK n \in Inum, i \in Inode : GetCached(p, n, i) /\ UNCHANGED asleep
    BY <1>5
  <2>1. inode[i].ref + 1 \in Int
    BY <1>0 DEF InodeT
  <2>2. inode' \in [Inode -> InodeT]
    BY <1>0, <2>1, SetRef DEF GetCached
  <2>3. pc' \in [Pid -> Place] /\ call' \in [Pid -> Call]
    BY <1>2, OpenCall DEF GetCached, Place
  <2> QED
    BY <1>0, <2>2, <2>3 DEF GetCached
<1>6. CASE \E n \in Inum, i \in Inode : GetRecycled(p, n, i) /\ UNCHANGED asleep
  <2> PICK n \in Inum, i \in Inode : GetRecycled(p, n, i) /\ UNCHANGED asleep
    BY <1>6
  <2>1. inode' \in [Inode -> InodeT] /\ flock' \in [Inode -> FlockT]
    BY <1>0, FlockInit DEF GetRecycled, InodeT
  <2>2. pc' \in [Pid -> Place] /\ call' \in [Pid -> Call]
    BY <1>2, OpenCall DEF GetRecycled, Place
  <2> QED
    BY <1>0, <2>1, <2>2 DEF GetRecycled
<1>7. CASE \E f \in File : OpenFile(p, f) /\ UNCHANGED asleep
  BY <1>0, <1>1, <1>3, <1>7 DEF OpenFile, FileT, Call
<1>8. CASE OpenFails(p) /\ UNCHANGED asleep
  BY <1>0, <1>1, <1>2, <1>8 DEF OpenFails, Place
<1>9. CASE Put(p) /\ UNCHANGED asleep
  <2>1. call[p].ip \in Inode /\ inode[call[p].ip].ref - 1 \in Int
    BY <1>0, <1>1, <1>9 DEF Put, CallShape, InodeT
  <2>2. inode' \in [Inode -> InodeT]
    BY <1>0, <1>9, <2>1, SetRef DEF Put
  <2> QED
    BY <1>0, <1>3, <1>9, <2>2 DEF Put
<1>10. CASE \E f \in File : Unlock(p, f) /\ Wakeup(file[f].ip, file[f].holding)
  <2> PICK f \in File : Unlock(p, f) /\ Wakeup(file[f].ip, file[f].holding)
    BY <1>10
  <2>1. file[f].ip \in Inode /\ file[f].holding \in Held
    BY <1>0, CalledFile DEF Unlock, FileT
  <2>2. flock' \in [Inode -> FlockT]
    BY <1>0, <2>1, ReleaseWaiting DEF Unlock
  <2>3. file' \in [File -> FileT]
    BY <1>0, SetHolding DEF Unlock
  <2> QED
    BY <1>0, <1>4, <2>1, <2>2, <2>3 DEF Unlock
<1>11. CASE \E f \in File, type \in {LOCK_SH, LOCK_EX, BAD}, nb \in BOOLEAN :
              Lock(p, f, type, nb) /\ UNCHANGED asleep
  BY <1>0, <1>2, <1>11 DEF Lock, FileT, Call, Place
<1>12. CASE \E f \in File, type \in {LOCK_SH, LOCK_EX, BAD}, nb \in BOOLEAN :
              Convert(p, f, type, nb) /\ Wakeup(file[f].ip, file[f].holding)
  <2> PICK f \in File, type \in {LOCK_SH, LOCK_EX, BAD}, nb \in BOOLEAN :
             Convert(p, f, type, nb) /\ Wakeup(file[f].ip, file[f].holding)
    BY <1>12
  <2>1. file[f].ip \in Inode /\ file[f].holding \in Held
    BY <1>0, CalledFile DEF Convert, FileT
  <2>2. flock' \in [Inode -> FlockT]
    BY <1>0, <2>1, ReleaseWaiting DEF Convert
  <2>3. file' \in [File -> FileT]
    BY <1>0, SetHolding DEF Convert
  <2>4. pc' \in [Pid -> Place] /\ call' \in [Pid -> Call]
    BY <1>2, <2>1 DEF Convert, Call, Place
  <2> QED
    BY <1>0, <1>4, <2>1, <2>2, <2>3, <2>4 DEF Convert
<1>13. CASE AcquireGranted(p) /\ UNCHANGED asleep
  <2>1. call[p].ip \in Inode /\ call[p].file \in File /\ call[p].type \in LockType
    BY <1>0, <1>1, <1>13 DEF AcquireGranted, CallShape
  <2>2. flock' \in [Inode -> FlockT]
    BY <1>0, <1>13, <2>1, GrantWaiting DEF AcquireGranted
  <2>3. [file EXCEPT ![call[p].file].holding = call[p].type] \in [File -> FileT]
    <3>1. PICK f \in File, t \in Held : f = call[p].file /\ t = call[p].type
      BY <2>1
    <3>2. [file EXCEPT ![f].holding = t] \in [File -> FileT]
      BY <1>0, SetHolding
    <3> QED
      BY <3>1, <3>2
  <2> QED
    BY <1>0, <1>3, <1>13, <2>2, <2>3 DEF AcquireGranted
<1>14. CASE AcquireRefused(p) /\ UNCHANGED asleep
  BY <1>0, <1>3, <1>14 DEF AcquireRefused
<1>15. CASE AcquireBlocked(p) /\ thread_sleep(p)
  <2>1. call[p].ip \in Inode
    BY <1>1, <1>15 DEF AcquireBlocked, CallShape
  <2>2. flock' \in [Inode -> FlockT]
    BY <1>0, <1>15, <2>1, StartWaitFields DEF AcquireBlocked
  <2> QED
    BY <1>0, <1>1, <1>2, <1>15, <2>2 DEF AcquireBlocked, thread_sleep, Place
<1>16. CASE p \notin asleep /\ ResumeGranted(p) /\ UNCHANGED asleep
  <2>1. call[p].ip \in Inode /\ call[p].file \in File /\ call[p].type \in LockType
    BY <1>0, <1>1, <1>16 DEF ResumeGranted, CallShape
  <2>2. EndWait(flock[call[p].ip], p, call[p].type) \in FlockT
    BY <1>0, <2>1, EndWaitFields
  <2>3. flock' \in [Inode -> FlockT]
    BY <1>0, <1>16, <2>1, <2>2, GrantWaiting DEF ResumeGranted
  <2>4. [file EXCEPT ![call[p].file].holding = call[p].type] \in [File -> FileT]
    <3>1. PICK f \in File, t \in Held : f = call[p].file /\ t = call[p].type
      BY <2>1
    <3>2. [file EXCEPT ![f].holding = t] \in [File -> FileT]
      BY <1>0, SetHolding
    <3> QED
      BY <3>1, <3>2
  <2> QED
    BY <1>0, <1>3, <1>16, <2>3, <2>4 DEF ResumeGranted
<1>17. CASE p \notin asleep /\ ResumeBlocked(p) /\ thread_sleep(p)
  BY <1>0, <1>17 DEF ResumeBlocked, thread_sleep, dataVars
<1>18. CASE \E f \in File : CloseFile(p, f) /\ UNCHANGED asleep
  <2> PICK f \in File : CloseFile(p, f) /\ UNCHANGED asleep
    BY <1>18
  <2>1. file' \in [File -> FileT]
    BY <1>0 DEF CloseFile, FileT
  <2>2. pc' \in [Pid -> Place] /\ call' \in [Pid -> Call]
    BY <1>0, <1>2 DEF CloseFile, FileT, Call, Place
  <2> QED
    BY <1>0, <2>1, <2>2 DEF CloseFile
<1>19. CASE CloseRelease(p) /\ Wakeup(call[p].ip, call[p].type)
  <2>1. call[p].ip \in Inode /\ call[p].type \in Held
    BY <1>1, <1>19 DEF CloseRelease, CallShape
  <2>2. flock' \in [Inode -> FlockT]
    BY <1>0, <1>19, <2>1, ReleaseWaiting DEF CloseRelease
  <2> QED
    BY <1>0, <1>1, <1>2, <1>4, <1>19, <2>1, <2>2 DEF CloseRelease, Place
<1> QED
  BY <1>5, <1>6, <1>7, <1>8, <1>9, <1>10, <1>11, <1>12, <1>13, <1>14, <1>15, <1>16,
     <1>17, <1>18, <1>19 DEF StepOf

\* Every step keeps the descriptors and the pointers of the system calls valid.
LEMMA PointersStep ==
  ASSUME Shape, NEW p \in Pid, StepOf(p)
  PROVE  /\ DescriptorsValid'
         /\ \A f \in File : file'[f].ref = 1 => file'[f].ip \in Inode
         /\ \A q \in Pid : CallShape(q)'
<1> USE FileLocksAssumption
<1>0. /\ file \in [File -> FileT] /\ openfiles \in [Pid -> SUBSET File]
      /\ pc \in [Pid -> Place] /\ call \in [Pid -> Call]
  BY Types DEF Shape
<1>1. /\ DescriptorsValid
      /\ \A f \in File : file[f].ref = 1 => file[f].ip \in Inode
      /\ \A q \in Pid : CallShape(q)
  BY DEF Shape
<1> USE DEF DescriptorsValid, LiveFiles, CallShape, Goto, Return
<1>5. CASE \E n \in Inum, i \in Inode : GetCached(p, n, i) /\ UNCHANGED asleep
  BY <1>0, <1>1, <1>5, OpenCall DEF GetCached
<1>6. CASE \E n \in Inum, i \in Inode : GetRecycled(p, n, i) /\ UNCHANGED asleep
  BY <1>0, <1>1, <1>6, OpenCall DEF GetRecycled
<1>7. CASE \E f \in File : OpenFile(p, f) /\ UNCHANGED asleep
  BY <1>0, <1>1, <1>7, SMTT(30) DEF OpenFile
<1>8. CASE OpenFails(p) /\ UNCHANGED asleep
  BY <1>0, <1>1, <1>8, SMTT(30) DEF OpenFails
<1>9. CASE Put(p) /\ UNCHANGED asleep
  BY <1>0, <1>1, <1>9 DEF Put
<1>10. CASE \E f \in File : Unlock(p, f) /\ Wakeup(file[f].ip, file[f].holding)
  <2> PICK f \in File : Unlock(p, f)
    BY <1>10
  <2>1. /\ \A g \in File : file'[g].ref = file[g].ref /\ file'[g].ip = file[g].ip
        /\ \A g \in File \ {f} : file'[g] = file[g]
    BY <1>0, SetHolding DEF Unlock
  <2>2. \A q \in Pid : pc[q] \in {"acquire", "wait"} => call[q].file # f
    BY NotShared, CalledFile DEF Unlock, Calls
  <2> QED
    BY <1>0, <1>1, <2>1, <2>2 DEF Unlock
<1>11. CASE \E f \in File, type \in {LOCK_SH, LOCK_EX, BAD}, nb \in BOOLEAN :
              Lock(p, f, type, nb) /\ UNCHANGED asleep
  BY <1>0, <1>1, <1>11, SMTT(30) DEF Lock, Calls, FileT
<1>12. CASE \E f \in File, type \in {LOCK_SH, LOCK_EX, BAD}, nb \in BOOLEAN :
              Convert(p, f, type, nb) /\ Wakeup(file[f].ip, file[f].holding)
  <2> PICK f \in File, type \in {LOCK_SH, LOCK_EX, BAD}, nb \in BOOLEAN : Convert(p, f, type, nb)
    BY <1>12
  <2>1. /\ \A g \in File : file'[g].ref = file[g].ref /\ file'[g].ip = file[g].ip
        /\ \A g \in File \ {f} : file'[g] = file[g]
        /\ file'[f].holding = NONE
        /\ file' \in [File -> FileT]
    <3>1. file' = [file EXCEPT ![f].holding = NONE] /\ NONE \in Held
      BY DEF Convert
    <3>2. file' \in [File -> FileT]
      BY <1>0, <3>1, SetHolding, ZenonT(40)
    <3>3. \A g \in File : /\ file'[g].ref = file[g].ref /\ file'[g].ip = file[g].ip
                          /\ file'[g].holding = IF g = f THEN NONE ELSE file[g].holding
      BY <1>0, <3>1, SetHolding
    <3> QED
      BY <1>0, <3>1, <3>2, <3>3
  <2>2. \A q \in Pid : pc[q] \in {"acquire", "wait"} => call[q].file # f
    BY NotShared, CalledFile DEF Convert, Calls
  <2> QED
    BY <1>0, <1>1, <2>1, <2>2, CalledFile, SMTT(30) DEF Convert, Calls, FileT
<1>13. CASE AcquireGranted(p) /\ UNCHANGED asleep
  <2>1. call[p].file \in File /\ call[p].type \in Held
    BY <1>0, <1>1, <1>13, ZenonT(40) DEF AcquireGranted
  <2>2. /\ \A g \in File : file'[g].ref = file[g].ref /\ file'[g].ip = file[g].ip
        /\ \A g \in File \ {call[p].file} : file'[g] = file[g]
    BY <1>0, <1>13, <2>1, SetHolding, SMTT(30) DEF AcquireGranted
  <2>3. \A q \in Pid \ {p} : pc[q] \in {"acquire", "wait"} => call[q].file # call[p].file
    <3>1. call[p].file \in LiveFiles(p)
      BY <1>1, <1>13 DEF AcquireGranted
    <3> QED
      BY <3>1, NotShared
  <2> QED
    BY <1>0, <1>1, <1>13, <2>2, <2>3, SMTT(30) DEF AcquireGranted
<1>14. CASE AcquireRefused(p) /\ UNCHANGED asleep
  BY <1>0, <1>1, <1>14, SMTT(30) DEF AcquireRefused
<1>15. CASE AcquireBlocked(p) /\ thread_sleep(p)
  BY <1>0, <1>1, <1>15, SMTT(30) DEF AcquireBlocked
<1>16. CASE p \notin asleep /\ ResumeGranted(p) /\ UNCHANGED asleep
  <2>1. call[p].file \in File /\ call[p].type \in Held
    BY <1>0, <1>1, <1>16 DEF ResumeGranted
  <2>2. /\ \A g \in File : file'[g].ref = file[g].ref /\ file'[g].ip = file[g].ip
        /\ \A g \in File \ {call[p].file} : file'[g] = file[g]
    BY <1>0, <1>16, <2>1, SetHolding, SMTT(30) DEF ResumeGranted
  <2>3. \A q \in Pid \ {p} : pc[q] \in {"acquire", "wait"} => call[q].file # call[p].file
    <3>1. call[p].file \in LiveFiles(p)
      BY <1>1, <1>16 DEF ResumeGranted
    <3> QED
      BY <3>1, NotShared
  <2> QED
    BY <1>0, <1>1, <1>16, <2>2, <2>3, SMTT(30) DEF ResumeGranted
<1>17. CASE p \notin asleep /\ ResumeBlocked(p) /\ thread_sleep(p)
  BY <1>0, <1>1, <1>17, SMTT(30) DEF ResumeBlocked, dataVars
<1>18. CASE \E f \in File : CloseFile(p, f) /\ UNCHANGED asleep
  <2> PICK f \in File : CloseFile(p, f)
    BY <1>18
  <2>1. /\ \A g \in File \ {f} : file'[g] = file[g]
        /\ file'[f].ref = 0 /\ file[f].ip \in Inode
    BY <1>0, CalledFile DEF CloseFile, FileT
  <2>2. \A q \in Pid \ {p} : f \notin LiveFiles(q)
    BY <1>0, <1>1 DEF CloseFile, Calls
  <2> QED
    BY <1>0, <1>1, <2>1, <2>2, SMTT(30) DEF CloseFile, Calls, FileT
<1>19. CASE CloseRelease(p) /\ Wakeup(call[p].ip, call[p].type)
  BY <1>0, <1>1, <1>19, SMTT(30) DEF CloseRelease
<1> QED
  BY <1>5, <1>6, <1>7, <1>8, <1>9, <1>10, <1>11, <1>12, <1>13, <1>14, <1>15, <1>16,
     <1>17, <1>18, <1>19 DEF StepOf

\* The first layer is inductive.
LEMMA ShapeNext ==
  ASSUME Shape, [Next]_vars
  PROVE  Shape'
<1>1. CASE UNCHANGED vars
  BY <1>1, SMTT(30) DEF vars, Shape, TypeOK, DescriptorsValid, LiveFiles, CallShape
<1>2. CASE Next
  BY <1>2, NextSteps, TypeStep, PointersStep DEF Shape
<1> QED
  BY <1>1, <1>2

\* The first layer is an invariant of FileFlock.
LEMMA ShapeInvariant == Spec => []Shape
BY ShapeInit, ShapeNext, PTL DEF Spec

-----------------------------------------------------------------------------
(* Counting.                                                                 *)

\* The sets that are counted are finite.
LEMMA Finite ==
  /\ \A S \in SUBSET File : IsFiniteSet(S) /\ Cardinality(S) \in Nat
  /\ \A S \in SUBSET Pid : IsFiniteSet(S) /\ Cardinality(S) \in Nat
BY PidAssumption, FileLocksAssumption, FS_Subset, FS_CardinalityType

\* Adding a new element counts one more.
LEMMA CardAdd ==
  ASSUME NEW S, IsFiniteSet(S), NEW x, x \notin S
  PROVE  Cardinality(S \cup {x}) = Cardinality(S) + 1
BY FS_AddElement

\* Removing an element counts one less.
LEMMA CardDel ==
  ASSUME NEW S, IsFiniteSet(S), NEW x \in S
  PROVE  /\ Cardinality(S \ {x}) = Cardinality(S) - 1
         /\ Cardinality(S) > 0
<1>1. Cardinality(S) \in Nat /\ Cardinality(S) # 0
  BY FS_CardinalityType, FS_EmptySet
<1> QED
  BY <1>1, FS_RemoveElement

-----------------------------------------------------------------------------
(* The second layer: reference counts of the inode cache.                    *)

\* Reference counts that are exact are natural numbers.
LEMMA ReferencesNat ==
  ASSUME ReferencesCounted, NEW i \in Inode
  PROVE  inode[i].ref \in Nat
<1>1. RefFiles(i) \in SUBSET File /\ RefCalls(i) \in SUBSET Pid
  BY DEF RefFiles, RefCalls
<1>2. Cardinality(RefFiles(i)) \in Nat /\ Cardinality(RefCalls(i)) \in Nat
  BY <1>1, Finite
<1> QED
  BY <1>2 DEF ReferencesCounted, References

\* Nothing refers to a cache entry with reference count 0.
LEMMA Unreferenced ==
  ASSUME ReferencesCounted, NEW i \in Inode, inode[i].ref = 0
  PROVE  RefFiles(i) = {} /\ RefCalls(i) = {}
<1>1. RefFiles(i) \in SUBSET File /\ RefCalls(i) \in SUBSET Pid
  BY DEF RefFiles, RefCalls
<1>2. Cardinality(RefFiles(i)) = 0 /\ Cardinality(RefCalls(i)) = 0
  BY <1>1, Finite DEF ReferencesCounted, References
<1> QED
  BY <1>1, <1>2, Finite, FS_EmptySet

\* The counts are right when the kernel has booted.
LEMMA ReferencesInit == Init => ReferencesCounted
<1> SUFFICES ASSUME Init PROVE ReferencesCounted
  OBVIOUS
<1>1. \A i \in Inode : RefFiles(i) = {} /\ RefCalls(i) = {}
  BY DEF Init, DataInit, RefFiles, RefCalls
<1>2. \A i \in Inode : References(i) = 0
  BY <1>1, FS_EmptySet DEF References
<1> QED
  BY <1>2 DEF Init, DataInit, ReferencesCounted

\* Steps that neither change a count nor move a reference.
LEMMA ReferencesSame ==
  ASSUME ReferencesCounted, inode' = inode,
         \A i \in Inode : RefFiles(i)' = RefFiles(i) /\ RefCalls(i)' = RefCalls(i)
  PROVE  ReferencesCounted'
BY DEF ReferencesCounted, References

\* Steps in which calls gain or lose references to an entry, counted in it.
LEMMA ReferencesMoved ==
  ASSUME Shape, ReferencesCounted, NEW i \in Inode, inode[i].ref > 0, NEW e \in Int,
         Cardinality(RefCalls(i)') = Cardinality(RefCalls(i)) + e,
         \A j \in Inode \ {i} : RefCalls(j)' = RefCalls(j),
         \A j \in Inode : RefFiles(j)' = RefFiles(j),
         \A j \in Inode : /\ inode'[j].inum = inode[j].inum
                          /\ inode'[j].ref = IF j = i THEN inode[i].ref + e ELSE inode[j].ref
  PROVE  ReferencesCounted'
<1>1. \A j \in Inode : inode[j].ref \in Int
  BY Types DEF Shape, InodeT
<1>2. \A j \in Inode : /\ Cardinality(RefFiles(j)) \in Nat
                       /\ Cardinality(RefCalls(j)) \in Nat
  BY Finite DEF RefFiles, RefCalls
<1>3. inode[i].ref = Cardinality(RefFiles(i)) + Cardinality(RefCalls(i))
  BY DEF ReferencesCounted, References
<1>4. inode'[i].ref = Cardinality(RefFiles(i)') + Cardinality(RefCalls(i)')
  BY <1>1, <1>2, <1>3
<1>5. \A j \in Inode \ {i} :
        inode'[j].ref = Cardinality(RefFiles(j)') + Cardinality(RefCalls(j)')
  BY <1>1 DEF ReferencesCounted, References
<1>6. \A j \in Inode : inode'[j].ref = References(j)'
  BY <1>4, <1>5 DEF References
<1>7. \A j \in Inode : inode'[j].ref > 0 => inode[j].ref > 0
  BY <1>1
<1>8. \A j, k \in Inode :
        inode'[j].ref > 0 /\ inode'[k].ref > 0 /\ inode'[j].inum = inode'[k].inum => j = k
  BY <1>7 DEF ReferencesCounted
<1> QED
  BY <1>6, <1>8 DEF ReferencesCounted

\* Steps in which an open file takes over the reference of a call, or back.
LEMMA ReferencesTraded ==
  ASSUME ReferencesCounted, NEW i \in Inode, inode' = inode,
         Cardinality(RefFiles(i)) \in Nat, Cardinality(RefCalls(i)) \in Nat,
         \/ /\ Cardinality(RefFiles(i)') = Cardinality(RefFiles(i)) + 1
            /\ Cardinality(RefCalls(i)') = Cardinality(RefCalls(i)) - 1
         \/ /\ Cardinality(RefFiles(i)') = Cardinality(RefFiles(i)) - 1
            /\ Cardinality(RefCalls(i)') = Cardinality(RefCalls(i)) + 1,
         \A j \in Inode \ {i} : RefFiles(j)' = RefFiles(j) /\ RefCalls(j)' = RefCalls(j)
  PROVE  ReferencesCounted'
<1>1. References(i)' = References(i)
  BY DEF References
<1>2. \A j \in Inode \ {i} : References(j)' = References(j)
  BY DEF References
<1> QED
  BY <1>1, <1>2 DEF ReferencesCounted

\* Every step keeps the counts right.
LEMMA ReferencesStep ==
  ASSUME Shape, ReferencesCounted, NEW p \in Pid, StepOf(p)
  PROVE  ReferencesCounted'
<1> USE DEF Goto, Return
<1>0. /\ inode \in [Inode -> InodeT] /\ file \in [File -> FileT]
      /\ pc \in [Pid -> Place] /\ call \in [Pid -> Call] /\ CallShape(p)
  BY Types DEF Shape
<1>1. \A i \in Inode : /\ RefFiles(i) \in SUBSET File /\ RefCalls(i) \in SUBSET Pid
                       /\ IsFiniteSet(RefFiles(i)) /\ IsFiniteSet(RefCalls(i))
                       /\ Cardinality(RefFiles(i)) \in Nat
                       /\ Cardinality(RefCalls(i)) \in Nat
  <2>1. \A i \in Inode : RefFiles(i) \in SUBSET File /\ RefCalls(i) \in SUBSET Pid
    BY DEF RefFiles, RefCalls
  <2> QED
    BY <2>1, Finite
<1>5. CASE \E n \in Inum, i \in Inode : GetCached(p, n, i) /\ UNCHANGED asleep
  <2> PICK n \in Inum, i \in Inode : GetCached(p, n, i)
    BY <1>5
  <2>1. /\ RefCalls(i)' = RefCalls(i) \cup {p} /\ p \notin RefCalls(i)
        /\ \A j \in Inode \ {i} : RefCalls(j)' = RefCalls(j)
        /\ \A j \in Inode : RefFiles(j)' = RefFiles(j)
    BY <1>0, OpenCall DEF GetCached, RefCalls, RefFiles
  <2>2. Cardinality(RefCalls(i)') = Cardinality(RefCalls(i)) + 1
    BY <1>1, <2>1, CardAdd
  <2>3. inode[i].ref + 1 \in Int
    BY <1>0 DEF InodeT
  <2>4. \A j \in Inode : /\ inode'[j].inum = inode[j].inum
                         /\ inode'[j].ref = IF j = i THEN inode[i].ref + 1 ELSE inode[j].ref
    BY <1>0, <2>3, SetRef DEF GetCached
  <2> QED
    <3>1. inode[i].ref > 0 /\ inode[i].ref \in Int
      BY <1>0 DEF GetCached, InodeT
    <3>2. PICK e \in Int : e = 1
      OBVIOUS
    <3>3. /\ Cardinality(RefCalls(i)') = Cardinality(RefCalls(i)) + e
          /\ \A j \in Inode : /\ inode'[j].inum = inode[j].inum
                              /\ inode'[j].ref = IF j = i THEN inode[i].ref + e ELSE inode[j].ref
      BY <2>2, <2>4, <3>2
    <3> QED
      BY <2>1, <3>1, <3>3, ReferencesMoved, Zenon
<1>6. CASE \E n \in Inum, i \in Inode : GetRecycled(p, n, i) /\ UNCHANGED asleep
  <2> PICK n \in Inum, i \in Inode : GetRecycled(p, n, i)
    BY <1>6
  <2>1. RefFiles(i) = {} /\ RefCalls(i) = {}
    BY Unreferenced DEF GetRecycled
  <2>2. /\ RefCalls(i)' = RefCalls(i) \cup {p} /\ p \notin RefCalls(i)
        /\ \A j \in Inode \ {i} : RefCalls(j)' = RefCalls(j)
        /\ \A j \in Inode : RefFiles(j)' = RefFiles(j)
    BY <1>0, OpenCall DEF GetRecycled, RefCalls, RefFiles
  <2>3. Cardinality(RefCalls(i)') = 1 /\ Cardinality(RefFiles(i)') = 0
    <3>1. RefCalls(i)' = {p} /\ RefFiles(i)' = {}
      BY <2>1, <2>2
    <3> QED
      BY <3>1, FS_EmptySet, FS_Singleton
  <2>4. \A j \in Inode : inode'[j] = IF j = i THEN [inum |-> n, ref |-> 1] ELSE inode[j]
    BY <1>0 DEF GetRecycled
  <2> QED
    <3>1. inode'[i].ref = References(i)'
      BY <2>3, <2>4, SMTT(30) DEF References
    <3>2. \A j \in Inode \ {i} : inode'[j].ref = References(j)'
      BY <2>2, <2>4 DEF ReferencesCounted, References
    <3>3. \A j \in Inode \ {i} : inode'[j].ref > 0 => inode'[j].inum # inode'[i].inum
      BY <2>4 DEF GetRecycled
    <3>4. \A j, k \in Inode \ {i} :
            inode'[j].ref > 0 /\ inode'[k].ref > 0 /\ inode'[j].inum = inode'[k].inum => j = k
      BY <2>4 DEF ReferencesCounted
    <3> QED
      BY <3>1, <3>2, <3>3, <3>4 DEF ReferencesCounted
<1>7. CASE \E f \in File : OpenFile(p, f) /\ UNCHANGED asleep
  <2> PICK f \in File : OpenFile(p, f)
    BY <1>7
  <2>0. PICK i \in Inode : i = call[p].ip
    BY <1>0 DEF OpenFile, CallShape
  <2>1. /\ inode' = inode
        /\ RefCalls(i)' = RefCalls(i) \ {p} /\ p \in RefCalls(i)
        /\ \A j \in Inode \ {i} : RefCalls(j)' = RefCalls(j)
    BY <1>0, <2>0 DEF OpenFile, RefCalls
  <2>2. /\ RefFiles(i)' = RefFiles(i) \cup {f} /\ f \notin RefFiles(i)
        /\ \A j \in Inode \ {i} : RefFiles(j)' = RefFiles(j)
    BY <1>0, <2>0 DEF OpenFile, RefFiles
  <2>3. /\ Cardinality(RefCalls(i)') = Cardinality(RefCalls(i)) - 1
        /\ Cardinality(RefFiles(i)') = Cardinality(RefFiles(i)) + 1
        /\ Cardinality(RefCalls(i)) > 0
    BY <1>1, <2>1, <2>2, CardAdd, CardDel
  <2> QED
    BY <1>0, <1>1, <2>1, <2>2, <2>3, ReferencesTraded
<1>8. CASE OpenFails(p) /\ UNCHANGED asleep
  BY <1>0, <1>8, ReferencesSame DEF OpenFails, RefFiles, RefCalls
<1>9. CASE Put(p) /\ UNCHANGED asleep
  <2>0. PICK i \in Inode : i = call[p].ip
    BY <1>0, <1>9 DEF Put, CallShape
  <2>1. /\ RefCalls(i)' = RefCalls(i) \ {p} /\ p \in RefCalls(i)
        /\ \A j \in Inode \ {i} : RefCalls(j)' = RefCalls(j)
        /\ \A j \in Inode : RefFiles(j)' = RefFiles(j)
    BY <1>0, <1>9, <2>0 DEF Put, RefCalls, RefFiles
  <2>2. inode[i].ref - 1 \in Int
    BY <1>0, <2>1 DEF InodeT
  <2>3. \A j \in Inode : /\ inode'[j].inum = inode[j].inum
                         /\ inode'[j].ref = IF j = i THEN inode[i].ref - 1 ELSE inode[j].ref
    BY <1>0, <1>9, <2>0, <2>2, SetRef DEF Put
  <2>4. /\ Cardinality(RefCalls(i)') = Cardinality(RefCalls(i)) + (-1)
        /\ Cardinality(RefCalls(i)) > 0
    BY <1>1, <2>1, CardDel
  <2> QED
    <3>1. inode[i].ref > 0
      BY <1>1, <2>4, SMTT(30) DEF ReferencesCounted, References
    <3>2. PICK e \in Int : e = -1
      OBVIOUS
    <3>3. /\ Cardinality(RefCalls(i)') = Cardinality(RefCalls(i)) + e
          /\ \A j \in Inode : /\ inode'[j].inum = inode[j].inum
                              /\ inode'[j].ref = IF j = i THEN inode[i].ref + e ELSE inode[j].ref
      BY <1>0, <2>3, <2>4, <3>2 DEF InodeT
    <3> QED
      BY <2>1, <3>1, <3>3, ReferencesMoved
<1>10. CASE \E f \in File : Unlock(p, f) /\ Wakeup(file[f].ip, file[f].holding)
  <2> PICK f \in File : Unlock(p, f)
    BY <1>10
  <2>1. \A g \in File : file'[g].ref = file[g].ref /\ file'[g].ip = file[g].ip
    BY <1>0, SetHolding DEF Unlock
  <2> QED
    BY <2>1, ReferencesSame DEF Unlock, RefFiles, RefCalls
<1>11. CASE \E f \in File, type \in {LOCK_SH, LOCK_EX, BAD}, nb \in BOOLEAN :
              Lock(p, f, type, nb) /\ UNCHANGED asleep
  BY <1>0, <1>11, ReferencesSame DEF Lock, Calls, RefFiles, RefCalls
<1>12. CASE \E f \in File, type \in {LOCK_SH, LOCK_EX, BAD}, nb \in BOOLEAN :
              Convert(p, f, type, nb) /\ Wakeup(file[f].ip, file[f].holding)
  <2> PICK f \in File, type \in {LOCK_SH, LOCK_EX, BAD}, nb \in BOOLEAN : Convert(p, f, type, nb)
    BY <1>12
  <2>1. \A g \in File : file'[g].ref = file[g].ref /\ file'[g].ip = file[g].ip
    BY <1>0, SetHolding DEF Convert
  <2> QED
    BY <1>0, <2>1, ReferencesSame DEF Convert, Calls, RefFiles, RefCalls
<1>13. CASE AcquireGranted(p) /\ UNCHANGED asleep
  <2>1. call[p].file \in File /\ call[p].type \in Held
    BY <1>0, <1>13, Types DEF AcquireGranted, CallShape, Shape
  <2>2. \A g \in File : file'[g].ref = file[g].ref /\ file'[g].ip = file[g].ip
    BY <1>0, <1>13, <2>1, SetHolding DEF AcquireGranted
  <2> QED
    BY <1>0, <1>13, <2>2, ReferencesSame DEF AcquireGranted, RefFiles, RefCalls
<1>14. CASE AcquireRefused(p) /\ UNCHANGED asleep
  BY <1>0, <1>14, ReferencesSame DEF AcquireRefused, RefFiles, RefCalls
<1>15. CASE AcquireBlocked(p) /\ thread_sleep(p)
  BY <1>0, <1>15, ReferencesSame DEF AcquireBlocked, RefFiles, RefCalls
<1>16. CASE p \notin asleep /\ ResumeGranted(p) /\ UNCHANGED asleep
  <2>1. call[p].file \in File /\ call[p].type \in Held
    BY <1>0, <1>16, Types DEF ResumeGranted, CallShape, Shape
  <2>2. \A g \in File : file'[g].ref = file[g].ref /\ file'[g].ip = file[g].ip
    BY <1>0, <1>16, <2>1, SetHolding DEF ResumeGranted
  <2> QED
    BY <1>0, <1>16, <2>2, ReferencesSame DEF ResumeGranted, RefFiles, RefCalls
<1>17. CASE p \notin asleep /\ ResumeBlocked(p) /\ thread_sleep(p)
  BY <1>17, ReferencesSame DEF ResumeBlocked, dataVars, RefFiles, RefCalls
<1>18. CASE \E f \in File : CloseFile(p, f) /\ UNCHANGED asleep
  <2> PICK f \in File : CloseFile(p, f)
    BY <1>18
  <2>1. PICK i \in Inode : i = file[f].ip /\ file[f].ref = 1 /\ inode' = inode
    BY CalledFile DEF CloseFile
  <2>2. /\ RefFiles(i)' = RefFiles(i) \ {f} /\ f \in RefFiles(i)
        /\ \A j \in Inode \ {i} : RefFiles(j)' = RefFiles(j)
    BY <1>0, <2>1 DEF CloseFile, RefFiles, FileT
  <2>3. /\ RefCalls(i)' = RefCalls(i) \cup {p} /\ p \notin RefCalls(i)
        /\ \A j \in Inode \ {i} : RefCalls(j)' = RefCalls(j)
    BY <1>0, <2>1 DEF CloseFile, Calls, RefCalls
  <2>4. /\ Cardinality(RefCalls(i)') = Cardinality(RefCalls(i)) + 1
        /\ Cardinality(RefFiles(i)') = Cardinality(RefFiles(i)) - 1
    BY <1>1, <2>1, <2>2, <2>3, CardAdd, CardDel
  <2> QED
    BY <1>0, <1>1, <2>1, <2>2, <2>3, <2>4, ReferencesTraded
<1>19. CASE CloseRelease(p) /\ Wakeup(call[p].ip, call[p].type)
  BY <1>0, <1>19, ReferencesSame DEF CloseRelease, RefFiles, RefCalls
<1> QED
  BY <1>5, <1>6, <1>7, <1>8, <1>9, <1>10, <1>11, <1>12, <1>13, <1>14, <1>15, <1>16,
     <1>17, <1>18, <1>19 DEF StepOf

\* The reference counts are exact in every reachable state.
LEMMA ReferencesInvariant == Spec => []ReferencesCounted
<1>1. Shape /\ ReferencesCounted /\ [Next]_vars => ReferencesCounted'
  <2> SUFFICES ASSUME Shape, ReferencesCounted, [Next]_vars PROVE ReferencesCounted'
    OBVIOUS
  <2>1. CASE UNCHANGED vars
    BY <2>1 DEF vars, ReferencesCounted, References, RefFiles, RefCalls
  <2>2. CASE Next
    BY <2>2, NextSteps, ReferencesStep
  <2> QED
    BY <2>1, <2>2
<1> QED
  BY <1>1, ReferencesInit, ShapeInvariant, PTL DEF Spec

-----------------------------------------------------------------------------
(* The theorems.                                                             *)

\* Type correctness: counters stay integers, queues stay queues of threads, a
\* slot of ftable is free or open once, and every pointer points to a table
\* entry or is null.
THEOREM TypeCorrect == Spec => []TypeOK
BY ShapeInvariant, PTL DEF Shape

\* Outside file_close, a descriptor points to an open file of its own, although
\* file_close frees the slot before sys_close clears the descriptor.
THEOREM DescriptorsStayValid == Spec => []DescriptorsValid
BY ShapeInvariant, PTL DEF Shape

\* inode_get, inode_put and file_close count the references to every cache entry
\* exactly, and a file on disk has at most one entry in use.
THEOREM ReferencesStayCounted == Spec => []ReferencesCounted
BY ReferencesInvariant

\* The inode and the struct file that a system call read before it slept are
\* still the ones it works on when it goes on.
THEOREM CallsStayValid == Spec => []CallsValid
<1>1. Shape /\ ReferencesCounted => CallsValid
  <2> SUFFICES ASSUME Shape, ReferencesCounted, NEW p \in Pid, pc[p] # "user"
               PROVE  /\ call[p].ip \in Inode /\ inode[call[p].ip].ref > 0
                      /\ pc[p] \in {"acquire", "wait"} =>
                           /\ call[p].file \in openfiles[p]
                           /\ file[call[p].file] =
                                [ref |-> 1, ip |-> call[p].ip, holding |-> NONE]
    BY DEF CallsValid
  <2>1. CallShape(p) /\ pc[p] \in Place
    BY DEF Shape, TypeOK
  <2>2. PICK i \in Inode : i = call[p].ip
    BY <2>1 DEF CallShape
  <2>3. RefFiles(i) # {} \/ RefCalls(i) # {}
    <3>1. CASE pc[p] \in {"acquire", "wait"}
      <4>1. /\ call[p].file \in openfiles[p]
            /\ file[call[p].file] = [ref |-> 1, ip |-> call[p].ip, holding |-> NONE]
        BY <2>1, <3>1 DEF CallShape
      <4>2. call[p].file \in File
        BY <4>1 DEF Shape, TypeOK
      <4>3. call[p].file \in RefFiles(i)
        BY <2>2, <4>1, <4>2 DEF RefFiles
      <4> QED
        BY <4>3
    <3>2. CASE pc[p] \in {"open", "release", "put"}
      BY <2>2, <3>2 DEF RefCalls
    <3> QED
      BY <2>1, <3>1, <3>2 DEF Place
  <2>4. inode[i].ref # 0
    BY <2>3, Unreferenced
  <2>5. inode[i].ref \in Nat
    BY ReferencesNat
  <2>6. inode[i].ref > 0
    BY <2>4, <2>5
  <2>7. call[p].ip \in Inode /\ inode[call[p].ip].ref > 0
    BY <2>2, <2>6, Zenon
  <2> QED
    BY <2>1, <2>7, Zenon DEF CallShape
<1> QED
  BY <1>1, ShapeInvariant, ReferencesInvariant, PTL

\* The tables of open files and cache entries and all pointers into them stay
\* sound through every interleaving of open, flock and close.
THEOREM TablesStaySound == Spec => []TablesSound
<1>1. TypeOK /\ ReferencesCounted /\ DescriptorsValid /\ CallsValid => TablesSound
  BY DEF TablesSound
<1> QED
  BY <1>1, TypeCorrect, ReferencesStayCounted, DescriptorsStayValid, CallsStayValid, PTL
=============================================================================
