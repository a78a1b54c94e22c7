----------------------------- MODULE FlockSched ------------------------------
(***************************************************************************)
(* The lock path of FileLocks run by the scheduler of Sched: one CPU, a     *)
(* kernel that is left only at thread_sleep, at the end of a system call or *)
(* in a timer interrupt taken in user mode, and channels that stay in the   *)
(* TCB until the woken thread runs again.                                   *)
(***************************************************************************)
EXTENDS FileLocks, Sched

CONSTANT Idle    \* the first process: it spawns the others and then spins

ASSUME FlockSchedAssumption ==
  /\ Pid = Thread /\ Idle \in Thread
  /\ Inode \subseteq Chan /\ Thread \subseteq Chan /\ Inode \cap Thread = {}

VARIABLES
  sched,    \* the thread layer, of type SchedT
  panic     \* a KERN_ASSERT has failed and the machine has stopped

vars == <<inode, flock, file, openfiles, pc, call, sched, panic>>

\* Channels: a flock_t is named by its inode, the buffer a thread waits for
\* in ide_rw by the thread.
IoChan(p) == p

\* The boot CPU creates idle, takes it off the ready queue and switches to it.
kern_main ==
  SwitchTo(tqueue_remove(thread_spawn(thread_init(Idle), Idle), Idle), Idle)

Init == DataInit /\ sched = kern_main /\ panic = FALSE

-----------------------------------------------------------------------------
\* Thread p executes; idle makes no system call once its child is spawned.
Runs(p) == sched.curid = p /\ p # Idle /\ ~ panic

NoSwitch == UNCHANGED <<sched, panic>>

\* flock_release(&i->flock, type) wakes the sleepers of i if it frees the lock.
Wakeup(i, type) ==
  /\ sched' = IF NeedWakeup(flock[i], type) THEN thread_wakeup(sched, i) ELSE sched
  /\ UNCHANGED panic

\* thread_sleep(c), or the failure of its KERN_ASSERT.
Sleep(c) ==
  IF CanSleep(sched)
    THEN sched' = thread_sleep(sched, c) /\ UNCHANGED panic
    ELSE panic' = TRUE /\ UNCHANGED sched

\* sys_spawn creates process q; idle does so once, the others at will.
sys_spawn(p, q) ==
  /\ sched.curid = p /\ pc[p] = "user" /\ ~ panic
  /\ sched.state[q] = TSTATE_DEAD
  /\ p = Idle => \A t \in Thread \ {Idle} : sched.state[t] = TSTATE_DEAD
  /\ sched' = thread_spawn(sched, q)
  /\ UNCHANGED <<dataVars, panic>>

sys_open(p) ==
  /\ Runs(p)
  /\ \/ \E n \in Inum, i \in Inode : GetCached(p, n, i) \/ GetRecycled(p, n, i)
     \/ \E f \in File : OpenFile(p, f)
     \/ OpenFails(p)
  /\ NoSwitch

flock_un(p, f) == Runs(p) /\ Unlock(p, f) /\ Wakeup(file[f].ip, file[f].holding)

flock_lock(p, f) ==
  /\ Runs(p)
  /\ \E type \in {LOCK_SH, LOCK_EX, BAD}, nb \in BOOLEAN :
       \/ Lock(p, f, type, nb) /\ NoSwitch
       \/ Convert(p, f, type, nb) /\ Wakeup(file[f].ip, file[f].holding)

flock_acquire(p) ==
  /\ Runs(p)
  /\ \/ AcquireGranted(p) /\ NoSwitch
     \/ AcquireRefused(p) /\ NoSwitch
     \/ AcquireBlocked(p) /\ Sleep(call[p].ip)

flock_resume(p) ==
  /\ Runs(p)
  /\ \/ ResumeGranted(p) /\ NoSwitch
     \/ ResumeBlocked(p) /\ Sleep(call[p].ip)

sys_close(p) ==
  /\ Runs(p)
  /\ \/ \E f \in File : CloseFile(p, f) /\ NoSwitch
     \/ CloseRelease(p) /\ Wakeup(call[p].ip, call[p].type)
     \/ Put(p) /\ NoSwitch

\* A system call that needs the disk sleeps in ide_rw until its buffer is read
\* or written: any sys_read or sys_write, and sys_open and sys_close too.
DiskWait(p) ==
  /\ Runs(p) /\ pc[p] \in {"user", "open", "put"}
  /\ Sleep(IoChan(p))
  /\ UNCHANGED dataVars

-----------------------------------------------------------------------------
(* Interrupts, taken in user mode only.                                      *)

InUserMode == pc[sched.curid] = "user" /\ ~ panic

\* The slice is over: sched_update calls thread_yield.  So does sys_yield.
Timer ==
  /\ InUserMode
  /\ sched' = thread_yield(sched)
  /\ UNCHANGED <<dataVars, panic>>

\* The disk has finished the request thread q waits for.
ide_intr(q) ==
  /\ InUserMode
  /\ sched.state[q] = TSTATE_SLEEP /\ sched.chan[q] = IoChan(q)
  /\ sched' = thread_wakeup(sched, IoChan(q))
  /\ UNCHANGED <<dataVars, panic>>

Next ==
  \/ \E p \in Pid : \/ sys_open(p) \/ flock_acquire(p) \/ flock_resume(p)
                    \/ sys_close(p) \/ DiskWait(p) \/ ide_intr(p)
                    \/ \E q \in Pid : sys_spawn(p, q)
                    \/ \E f \in File : flock_un(p, f) \/ flock_lock(p, f)
  \/ Timer

Spec == Init /\ [][Next]_vars

(***************************************************************************)
(* Fairness: the CPU goes on executing kernel code, a system call waits for *)
(* the disk a finite number of times, the timer and the disk interrupt it   *)
(* again and again in user mode, and a program that holds a lock and runs   *)
(* again and again unlocks in the end.  The last is an assumption on the    *)
(* programs.                                                                *)
(***************************************************************************)
Fairness ==
  /\ SF_vars(Timer)
  /\ \A p \in Pid \ {Idle} :
       /\ SF_vars(ide_intr(p))
       /\ SF_vars(\E f \in File : flock_un(p, f))
       /\ SF_vars(/\ pc[p] # "user"
                  /\ sys_open(p) \/ flock_acquire(p) \/ flock_resume(p) \/ sys_close(p))

FairSpec == Spec /\ Fairness

-----------------------------------------------------------------------------
TypeOK ==
  /\ sched \in SchedT
  /\ panic \in BOOLEAN
  /\ \A p \in Pid : pc[p] \in Place /\ call[p] \in Call

(***************************************************************************)
(* The ready queue is sound: followed from the head its links visit each    *)
(* thread at most once and end at the tail, every thread on it is READY,    *)
(* and the running thread, the only one in state RUN, is not on it.  A      *)
(* thread that sleeps is never dispatched.                                  *)
(***************************************************************************)
QueueSound ==
  LET q == ReadyQueue(sched) IN
  /\ TypeOK
  /\ IsInjective(q)
  /\ sched.tail = IF q = << >> THEN Null ELSE q[Len(q)]
  /\ \A t \in Range(q) : sched.state[t] = TSTATE_READY
  /\ \A t \in Thread : sched.state[t] = TSTATE_RUN <=> t = sched.curid


(***************************************************************************)
(* The KERN_ASSERT of thread_sleep: there is always a thread to switch to.  *)
(***************************************************************************)
NoPanic == ~ panic

(***************************************************************************)
(* On the real scheduler the lock path behaves as FileFlock says it does    *)
(* with the contract of sleep and wakeup alone, although thread_wakeup      *)
(* looks at the channel only and a woken thread keeps its channel.          *)
(***************************************************************************)
Contract == INSTANCE FileFlock WITH
  asleep <- {p \in Pid : sched.state[p] = TSTATE_SLEEP /\ sched.chan[p] \in Inode}

KeepsContract == Contract!Spec

(***************************************************************************)
(* The same of every step but the one in which the kernel panics, from the  *)
(* state the instance starts in: threads that get lost are never granted or *)
(* denied anything the contract would not.                                  *)
(***************************************************************************)
StepsKeepContract == [][~ panic' => Contract!Next]_(Contract!vars)

(***************************************************************************)
(* Where threads get lost: a step drops threads from the ready queue        *)
(* without running them only by cutting the queue behind a thread that was  *)
(* woken before, has not run since and so still carries its channel.  All   *)
(* up to that thread keep their places.                                     *)
(***************************************************************************)
LosesBehindStale(s, u) ==
  LET q    == ReadyQueue(s)
      r    == ReadyQueue(u)
      gone == Range(q) \ (Range(r) \cup {u.curid})
  IN  gone # {} => \E k \in 1 .. Len(q) :
                     /\ s.chan[q[k]] # NoChan
                     /\ k <= Len(r) /\ SubSeq(q, 1, k) = SubSeq(r, 1, k)
                     /\ gone \subseteq {q[j] : j \in k + 1 .. Len(q)}

OnlyStaleWakeupsLose == [][LosesBehindStale(sched, sched')]_sched

(***************************************************************************)
(* Writer priority on the real scheduler: if a thread waits for an          *)
(* exclusive lock, the lock is eventually held exclusively, provided no     *)
(* process has two descriptors open, of which one could wait for the other. *)
(***************************************************************************)
WritersProgress ==
  [](\A p \in Pid : Cardinality(openfiles[p]) <= 1) => Contract!WritersProgress

(***************************************************************************)
(* What kern/flock/README.md says of writer priority, "prevents writer      *)
(* starvation": each thread that waits for an exclusive lock gets it.       *)
(***************************************************************************)
NoWriterStarves ==
  \A p \in Pid : (pc[p] = "wait" /\ call[p].type = LOCK_EX) ~> pc[p] = "user"
=============================================================================
