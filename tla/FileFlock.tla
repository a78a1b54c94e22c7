------------------------------ MODULE FileFlock ------------------------------
(***************************************************************************)
(* FileLocks with the contract of thread_sleep and thread_wakeup: a thread  *)
(* that sleeps on a flock_t does nothing until a wakeup of that flock_t,    *)
(* and a wakeup makes every thread that sleeps there runnable.  Runnable    *)
(* threads interleave in any order.                                         *)
(***************************************************************************)
EXTENDS FileLocks

VARIABLE asleep    \* the threads in thread_sleep(fl, &fl->lock), not yet woken

vars == <<inode, flock, file, openfiles, pc, call, asleep>>

Init == DataInit /\ asleep = {}

\* The threads whose channel is the flock_t of cache entry i.
WaitingOn(i) == {p \in Pid : pc[p] = "wait" /\ call[p].ip = i}

\* flock_release(&i->flock, type) calls thread_wakeup if it freed the lock.
Wakeup(i, type) ==
  asleep' = IF NeedWakeup(flock[i], type) THEN asleep \ WaitingOn(i) ELSE asleep

thread_sleep(p) == asleep' = asleep \cup {p}

-----------------------------------------------------------------------------
sys_open(p) ==
  /\ \/ \E n \in Inum, i \in Inode : GetCached(p, n, i) \/ GetRecycled(p, n, i)
     \/ \E f \in File : OpenFile(p, f)
     \/ OpenFails(p)
  /\ UNCHANGED asleep

flock_un(p, f) == Unlock(p, f) /\ Wakeup(file[f].ip, file[f].holding)

flock_lock(p, f) ==
  \E type \in {LOCK_SH, LOCK_EX, BAD}, nb \in BOOLEAN :
    \/ Lock(p, f, type, nb) /\ UNCHANGED asleep
    \/ Convert(p, f, type, nb) /\ Wakeup(file[f].ip, file[f].holding)

flock_acquire(p) ==
  \/ AcquireGranted(p) /\ UNCHANGED asleep
  \/ AcquireRefused(p) /\ UNCHANGED asleep
  \/ AcquireBlocked(p) /\ thread_sleep(p)

flock_resume(p) ==
  /\ p \notin asleep
  /\ \/ ResumeGranted(p) /\ UNCHANGED asleep
     \/ ResumeBlocked(p) /\ thread_sleep(p)

sys_close(p, f) == CloseFile(p, f) /\ UNCHANGED asleep

close_release(p) == CloseRelease(p) /\ Wakeup(call[p].ip, call[p].type)

close_put(p) == Put(p) /\ UNCHANGED asleep

\* What a thread does inside the kernel once it has entered it.
KernelStep(p) ==
  flock_acquire(p) \/ flock_resume(p) \/ close_release(p) \/ close_put(p)

Next ==
  \E p \in Pid :
    \/ sys_open(p)
    \/ \E f \in File : flock_un(p, f) \/ flock_lock(p, f) \/ sys_close(p, f)
    \/ KernelStep(p)

Spec == Init /\ [][Next]_vars

-----------------------------------------------------------------------------
(* Who holds what, told from the struct files and not from the flock_t.      *)

\* The open files that hold a lock of the given type on cache entry i.
FileHolders(i, type) ==
  {f \in File : file[f].ref = 1 /\ file[f].ip = i /\ file[f].holding = type}

\* The threads in file_close that still have to release such a lock.
Closers(i, type) ==
  {p \in Pid : pc[p] = "release" /\ call[p].ip = i /\ call[p].type = type}

Holders(i, type) == Cardinality(FileHolders(i, type)) + Cardinality(Closers(i, type))

\* The threads that wait for a lock of the given type on cache entry i.
Waiters(i, type) == {p \in WaitingOn(i) : call[p].type = type}

\* The references to cache entry i from open files and from system calls.
RefFiles(i) == {f \in File : file[f].ref = 1 /\ file[f].ip = i}
RefCalls(i) == {p \in Pid : pc[p] \in {"open", "release", "put"} /\ call[p].ip = i}
References(i) == Cardinality(RefFiles(i)) + Cardinality(RefCalls(i))

-----------------------------------------------------------------------------
TypeOK ==
  /\ inode \in [Inode -> [inum : Inum \cup {Nil}, ref : Int]]
  /\ flock \in [Inode -> FlockT]
  /\ file \in [File -> [ref : {0, 1}, ip : Inode \cup {Nil}, holding : Held]]
  /\ openfiles \in [Pid -> SUBSET File]
  /\ pc \in [Pid -> Place]
  /\ call \in [Pid -> Call]
  /\ asleep \in SUBSET Pid

(***************************************************************************)
(* No two open files hold conflicting locks on the same file on disk,       *)
(* whatever descriptors, processes and inode cache entries are in between:  *)
(* what flock(2) promises, through the recycling of cache entries by        *)
(* inode_get and the release in file_close.                                 *)
(***************************************************************************)
MutualExclusion ==
  \A f, g \in File :
    /\ f # g /\ file[f].ref = 1 /\ file[g].ref = 1
    /\ inode[file[f].ip].inum = inode[file[g].ip].inum
    /\ file[f].holding = LOCK_EX
    => file[g].holding = NONE

(***************************************************************************)
(* The state and shared_holders of every flock_t agree with the             *)
(* holding_flock fields of the open files and with the copies that threads  *)
(* in file_close still have to release.  A lock that is lost (released by   *)
(* nobody's account) or leaked (held by nobody) breaks this.                *)
(***************************************************************************)
StateAgrees ==
  \A i \in Inode :
    /\ flock[i].shared_holders = Holders(i, LOCK_SH)
    /\ flock[i].state = FLOCK_SHARED <=> Holders(i, LOCK_SH) > 0
    /\ Holders(i, LOCK_EX) = IF flock[i].state = FLOCK_EXCLUSIVE THEN 1 ELSE 0

(***************************************************************************)
(* waiting_shared and waiting_exclusive count exactly the threads in the    *)
(* two while loops, and the wait queue holds exactly those threads, each    *)
(* once and with its request: waitq_add never drops a thread for want of    *)
(* room and waitq_remove always finds the one that leaves.                  *)
(***************************************************************************)
WaitersCounted ==
  \A i \in Inode :
    LET q == flock[i].pids IN
    /\ flock[i].waiting_shared    = Cardinality(Waiters(i, LOCK_SH))
    /\ flock[i].waiting_exclusive = Cardinality(Waiters(i, LOCK_EX))
    /\ Len(q) = flock[i].waiting_shared + flock[i].waiting_exclusive
    /\ \A p \in Pid :
         /\ p \in WaitingOn(i) <=> \E k \in 1 .. Len(q) : q[k] = p
         /\ flock[i].inq[p] <=> p \in WaitingOn(i)
         /\ flock[i].req[p] = IF p \in WaitingOn(i) THEN call[p].type ELSE NONE

(***************************************************************************)
(* No lost wakeup: a thread that sleeps on a flock_t would still have to    *)
(* wait if it looked at it now.  The two while loops test the state under   *)
(* fl->lock before they sleep, and every change that could end the wait     *)
(* must come with a thread_wakeup.                                          *)
(***************************************************************************)
NoLostWakeup ==
  \A p \in asleep : pc[p] = "wait" /\ MustWait(flock[call[p].ip], call[p].type)

(***************************************************************************)
(* A sleeping waiter has somebody to wait for: while every thread waiting   *)
(* for a lock is asleep, the lock is held by an open file or by a thread    *)
(* that is about to release it in file_close.                               *)
(***************************************************************************)
SleepersHaveHolder ==
  \A i \in Inode :
    /\ WaitingOn(i) # {} /\ WaitingOn(i) \subseteq asleep
    => Holders(i, LOCK_SH) + Holders(i, LOCK_EX) > 0

(***************************************************************************)
(* The reference count of a cache entry is the number of open files and of  *)
(* system calls that point to it, and a file on disk has at most one entry  *)
(* in use.  inode_get relies on both when it recycles an entry with ref 0   *)
(* and runs flock_init on its lock.                                         *)
(***************************************************************************)
ReferencesCounted ==
  /\ \A i \in Inode : inode[i].ref = References(i)
  /\ \A i, k \in Inode :
       inode[i].ref > 0 /\ inode[k].ref > 0 /\ inode[i].inum = inode[k].inum
       => i = k

(***************************************************************************)
(* Outside file_close a descriptor points to an open file that no other     *)
(* descriptor points to, although file_close frees the slot while the       *)
(* descriptor of the closing process still has the pointer and sys_open may *)
(* give the slot to another process meanwhile.                              *)
(***************************************************************************)
LiveFiles(p) ==
  IF pc[p] \in {"release", "put"} THEN openfiles[p] \ {call[p].file} ELSE openfiles[p]

DescriptorsValid ==
  \A p \in Pid :
    /\ \A f \in LiveFiles(p) : file[f].ref = 1
    /\ \A q \in Pid : p # q => LiveFiles(p) \cap LiveFiles(q) = {}

(***************************************************************************)
(* What a system call read before it gave up the CPU is still true when it  *)
(* goes on: its inode is still referenced, so that no other file has been   *)
(* given the cache entry, and while flock_acquire waits the struct file is  *)
(* still open, on the same inode and without a lock.                        *)
(***************************************************************************)
CallsValid ==
  \A p \in Pid :
    /\ pc[p] # "user" => call[p].ip \in Inode /\ inode[call[p].ip].ref > 0
    /\ pc[p] \in {"acquire", "wait"} =>
         /\ call[p].file \in openfiles[p]
         /\ file[call[p].file] = [ref |-> 1, ip |-> call[p].ip, holding |-> NONE]

(***************************************************************************)
(* The tables and the pointers into them stay sound although open, flock    *)
(* and close give up the CPU half way: reference counts are exact, and      *)
(* neither a descriptor nor a call in progress points to what is not, or no *)
(* longer, its own (sys_open, file_close, sys_close, inode_get, inode_put). *)
(***************************************************************************)
TablesSound == TypeOK /\ ReferencesCounted /\ DescriptorsValid /\ CallsValid

(***************************************************************************)
(* The flock_t agrees with the rest of the system: its state and counters   *)
(* and its wait queue say who holds and who waits (flock.c, file_flock).    *)
(***************************************************************************)
LocksAccounted == StateAgrees /\ WaitersCounted

(***************************************************************************)
(* Nobody sleeps on a lock in vain: a sleeper would still have to wait, and *)
(* while all who wait sleep somebody holds the lock and will release it     *)
(* (try_acquire_shared, try_acquire_exclusive, flock_release).              *)
(***************************************************************************)
SleepersAwaited == NoLostWakeup /\ SleepersHaveHolder

(***************************************************************************)
(* Writer priority: a waiting writer is not overtaken by readers for ever.  *)
(* If some thread waits for an exclusive lock, the lock is eventually held  *)
(* exclusively: try_acquire_shared admits no reader while                   *)
(* waiting_exclusive is positive.                                           *)
(***************************************************************************)
WritersProgress ==
  \A i \in Inode : Waiters(i, LOCK_EX) # {} ~> flock[i].state = FLOCK_EXCLUSIVE

-----------------------------------------------------------------------------
(***************************************************************************)
(* The promise to a user of flock(2), per file on disk: counted over the    *)
(* open files, the threads in file_close and the blocked writers, the       *)
(* system is a reader/writer lock with writer preference (RWLock).  The     *)
(* inode cache and its recycling do not show.                               *)
(***************************************************************************)
LocksOn(n, type) ==
  Cardinality({f \in File : /\ file[f].ref = 1 /\ inode[file[f].ip].inum = n
                            /\ file[f].holding = type})
  + Cardinality({p \in Pid : /\ pc[p] = "release" /\ inode[call[p].ip].inum = n
                             /\ call[p].type = type})

QueuedOn(n) ==
  Cardinality({p \in Pid : /\ pc[p] = "wait" /\ inode[call[p].ip].inum = n
                           /\ call[p].type = LOCK_EX})

Promise == INSTANCE RWLock WITH
  readers <- [n \in Inum |-> LocksOn(n, LOCK_SH)],
  writers <- [n \in Inum |-> LocksOn(n, LOCK_EX)],
  queued  <- [n \in Inum |-> QueuedOn(n)]

KeepsPromise == Promise!Spec
=============================================================================
