------------------------------- MODULE Traps --------------------------------
(***************************************************************************)
(* How a process enters and leaves the kernel: trap and its handlers        *)
(* (TTrapHandler.c, TDispatch.c), the kernel contexts (PKCtxNew.c,          *)
(* PKCtxIntro.c), the first step of a process (proc_start_user, PProc.c),   *)
(* and the recovery of the file system's log, which the first process other *)
(* than the idle one runs before it enters user mode.                       *)
(*                                                                          *)
(* trap keeps cur_pid and last_pid on the kernel stack of the process; the  *)
(* handler may switch to other processes, which change the page table, the  *)
(* TSS and last_active, before trap uses them again.  The ready queue is a  *)
(* sequence (module Sched has the linked list and its thread states).  A    *)
(* handler that sleeps is woken by the disk interrupt.                      *)
(***************************************************************************)
EXTENDS Integers, Sequences

CONSTANTS
  NUM_IDS,      \* processes, 0 (the boot context) included
  SCHED_SLICE   \* timer interrupts between two forced switches

ASSUME TrapsAssumption == NUM_IDS \in Nat \ {0, 1, 2} /\ SCHED_SLICE \in Nat \ {0}

Idle == 1
Proc == 1 .. NUM_IDS - 1

VARIABLES
  curid,        \* the current process
  pdir,         \* the page directory in use, 0 the kernel's
  esp0,         \* whose kernel stack the TSS points to
  last_active,
  ticks,        \* sched_ticks
  ready,        \* the ready queue
  asleep,       \* the processes asleep until the disk answers
  ctx,          \* where each process is (below), and trap's locals
  started,      \* the static flag of proc_start_user
  recovered     \* whether log_init has returned

vars == <<curid, pdir, esp0, last_active, ticks, ready, asleep, ctx, started, recovered>>
hw   == <<pdir, esp0, last_active>>

\* ctx[p].at is none: not spawned; start: about to run proc_start_user; log: in
\* log_init; enter: past it; user: in user mode; call: in a file system call; out: in
\* trap, its handler has returned.
At(p, place) == ctx' = [ctx EXCEPT ![p].at = place]

-----------------------------------------------------------------------------
(* Switching                                                                *)

\* thread_yield, then kctx_switch
thread_yield ==
  /\ curid' = Head(Append(ready, curid))
  /\ ready' = Tail(Append(ready, curid))

\* thread_sleep for the disk: some process is ready (module FlockSched has the case
\* where none is).
thread_sleep ==
  /\ ready # <<>>
  /\ curid' = Head(ready) /\ ready' = Tail(ready)
  /\ asleep' = asleep \cup {curid}
  /\ UNCHANGED <<hw, ticks, ctx, started, recovered>>

-----------------------------------------------------------------------------
(* Entering and leaving                                                     *)

\* trap up to its handler, which goes on at `place` and starts the processes `new`
trap_enter(place, new) ==
  /\ ctx[curid].at = "user"
  /\ pdir' = IF last_active # 0 THEN 0 ELSE pdir
  /\ last_active' = 0
  /\ ctx' = [p \in Proc |->
               CASE p = curid -> [at |-> place, cur_pid |-> curid, last_pid |-> last_active]
                 [] p \in new -> [ctx[p] EXCEPT !.at = "start"]
                 [] OTHER     -> ctx[p]]
  /\ UNCHANGED <<esp0, started, recovered>>

\* Mutant: trap restores the page table but not the kernel stack.
trap_leave_KeepsStack ==
  LET l == ctx[curid] IN
  /\ l.at = "out"
  /\ IF l.last_pid # 0
       THEN pdir' = l.cur_pid /\ last_active' = l.last_pid /\ UNCHANGED esp0
       ELSE UNCHANGED hw
  /\ At(curid, "user")
  /\ UNCHANGED <<curid, ticks, ready, asleep, started, recovered>>

\* trap after its handler, and trap_return
trap_leave ==
  LET l == ctx[curid] IN
  /\ l.at = "out"
  /\ IF l.last_pid # 0
       THEN esp0' = l.cur_pid /\ pdir' = l.cur_pid /\ last_active' = l.last_pid
       ELSE UNCHANGED hw
  /\ At(curid, "user")
  /\ UNCHANGED <<curid, ticks, ready, asleep, started, recovered>>

\* proc_start_user up to log_init
proc_start ==
  LET log == curid # Idle /\ ~started IN
  /\ ctx[curid].at = "start"
  /\ started' = (started \/ log)
  /\ At(curid, IF log THEN "log" ELSE "enter")
  /\ UNCHANGED <<curid, hw, ticks, ready, asleep, recovered>>

\* log_init reads and writes blocks, for which it sleeps any number of times
log_init_sleeps == ctx[curid].at = "log" /\ thread_sleep

log_init_returns ==
  /\ ctx[curid].at = "log"
  /\ recovered' = TRUE
  /\ At(curid, "enter")
  /\ UNCHANGED <<curid, hw, ticks, ready, asleep, started>>

\* The rest of proc_start_user
proc_enter ==
  /\ ctx[curid].at = "enter"
  /\ esp0' = curid /\ pdir' = curid /\ last_active' = curid
  /\ At(curid, "user")
  /\ UNCHANGED <<curid, ticks, ready, asleep, started, recovered>>

-----------------------------------------------------------------------------
(* The handlers.  A trap from user mode enters and runs its handler in one  *)
(* step, up to its end or to the first switch.                              *)

\* A trap whose handler switches to nobody: a page fault, the spurious, IDE2 and other
\* interrupts, sys_puts, sys_readline, an unknown number, a trap without a handler.
trap_returns ==
  /\ trap_enter("out", {})
  /\ UNCHANGED <<curid, ticks, ready, asleep>>

\* T_IRQ0 + IRQ_TIMER: timer_intr_handler and sched_update
trap_timer ==
  /\ trap_enter("out", {})
  /\ IF ticks + 1 >= SCHED_SLICE THEN ticks' = 0 /\ thread_yield
                                 ELSE ticks' = ticks + 1 /\ UNCHANGED <<curid, ready>>
  /\ UNCHANGED asleep


\* T_IRQ0 + IRQ_IDE1: ide_intr wakes the process that waits for the buffer
trap_ide(p) ==
  /\ trap_enter("out", {})
  /\ p \in asleep
  /\ asleep' = asleep \ {p} /\ ready' = Append(ready, p)
  /\ UNCHANGED <<curid, ticks>>

\* sys_yield
trap_yield ==
  /\ trap_enter("out", {})
  /\ thread_yield
  /\ UNCHANGED <<ticks, asleep>>

\* A file system call.  The idle process makes none.
trap_call ==
  /\ curid # Idle
  /\ trap_enter("call", {})
  /\ UNCHANGED <<curid, ticks, ready, asleep>>

call_sleeps == ctx[curid].at = "call" /\ thread_sleep

call_returns ==
  /\ ctx[curid].at = "call"
  /\ At(curid, "out")
  /\ UNCHANGED <<curid, hw, ticks, ready, asleep, started, recovered>>

\* Mutant: the idle process spawns one process after another.
MaySpawn_Again(p) == TRUE

\* idle.c spawns one process and spins; that process may spawn others.
MaySpawn(p) == p = Idle => \A q \in Proc \ {Idle} : ctx[q].at = "none"

\* sys_spawn, proc_create, thread_spawn and kctx_new
trap_spawn(q) ==
  /\ MaySpawn(curid)
  /\ ctx[q].at = "none"
  /\ trap_enter("out", {q})
  /\ ready' = Append(ready, q)
  /\ UNCHANGED <<curid, ticks, asleep>>

-----------------------------------------------------------------------------
\* kern_main has created the idle process and switched to its kernel context.
Init ==
  /\ curid = Idle /\ pdir = 0 /\ esp0 = 0 /\ last_active = 0 /\ ticks = 0
  /\ ready = <<>> /\ asleep = {}
  /\ ctx = [p \in Proc |-> [at |-> IF p = Idle THEN "start" ELSE "none", cur_pid |-> 0, last_pid |-> 0]]
  /\ started = FALSE /\ recovered = FALSE

Next ==
  \/ proc_start \/ log_init_sleeps \/ log_init_returns \/ proc_enter
  \/ trap_returns \/ trap_timer \/ trap_yield
  \/ trap_call \/ call_sleeps \/ call_returns
  \/ \E p \in Proc : trap_ide(p) \/ trap_spawn(p)
  \/ trap_leave

Spec == Init /\ [][Next]_vars

\* The CPU goes on running kernel code; the timer fires and the disk answers again and
\* again; log_init and a file system call sleep for finitely many blocks.
Fairness == /\ WF_vars(proc_start \/ proc_enter \/ trap_leave)
            /\ SF_vars(trap_timer)
            /\ \A p \in Proc \ {Idle} :
                 SF_vars(trap_ide(p)) /\ SF_vars(curid = p /\ (log_init_returns \/ call_returns))

FairSpec == Spec /\ Fairness

-----------------------------------------------------------------------------
\* User code runs on its own page table, its traps push on its own kernel stack, and
\* last_active names it: trap and proc_start_user set all three from locals saved
\* before other processes ran.
UserRunsOnItsOwn ==
  ctx[curid].at = "user" => pdir = curid /\ esp0 = curid /\ last_active = curid

\* The kernel runs on the kernel's page table from the handler's first instruction
\* to trap's restore, in log_init and in a new process too, whoever switched to it:
\* the kernel addresses memory physically.
KernelRunsOnKernelMap == ctx[curid].at # "user" => pdir = 0

\* Whatever code runs finds the page table and the kernel stack it needs, after any
\* switches between a trap and its return.
RunsOnRightMap == UserRunsOnItsOwn /\ KernelRunsOnKernelMap

\* No process makes a file system call before log_init has replayed the log, although
\* `started` is set before log_init sleeps and a second process would not wait for it.
RecoveredFirst == \A p \in Proc : ctx[p].at = "call" => recovered

=============================================================================
