----------------------------- MODULE TrapsProofs -----------------------------
(***************************************************************************)
(* The invariants of module Traps, for any number of processes and any time *)
(* slice.                                                                   *)
(***************************************************************************)
EXTENDS Traps, TLAPS

Places == {"none", "start", "log", "enter", "user", "call", "out"}

TypeOK ==
  /\ curid \in Proc
  /\ ready \in Seq(Proc)
  /\ asleep \subseteq Proc
  /\ ctx \in [Proc -> [at : Places, cur_pid : Nat, last_pid : Nat]]
  /\ started \in BOOLEAN /\ recovered \in BOOLEAN

\* trap's locals name the process on whose stack they are.
LocalsOwn ==
  \A p \in Proc : ctx[p].at \in {"call", "out"} => ctx[p].cur_pid = p /\ ctx[p].last_pid = p

\* Only the current process is in user mode, on its own page table and stack.
Hardware ==
  /\ \A p \in Proc : ctx[p].at = "user" => p = curid
  /\ ctx[curid].at = "user" => pdir = curid /\ esp0 = curid /\ last_active = curid
  /\ ctx[curid].at # "user" => pdir = 0 /\ last_active = 0

\* Until the log is recovered one process besides the idle one exists at most, and
\* it has not passed log_init.
Recovery ==
  /\ ctx[Idle].at \notin {"none", "log", "call"}
  /\ recovered \/ \E q \in Proc \ {Idle} :
       /\ \A p \in Proc \ {Idle, q} : ctx[p].at = "none"
       /\ ctx[q].at \in {"none", "start", "log"}
       /\ started => ctx[q].at = "log"

IInv == TypeOK /\ LocalsOwn /\ Hardware /\ Recovery

-----------------------------------------------------------------------------
\* kern_main starts the idle process in the kernel, on the kernel's page table.
LEMMA InitInv == Init => IInv
<1> SUFFICES ASSUME Init PROVE IInv
  OBVIOUS
<1>1. Idle \in Proc /\ 2 \in Proc \ {Idle}
  BY TrapsAssumption DEF Proc, Idle
<1>2. TypeOK
  <2>1. curid \in Proc /\ ready \in Seq(Proc) /\ asleep \subseteq Proc
    BY <1>1 DEF Init
  <2>2. ctx \in [Proc -> [at : Places, cur_pid : Nat, last_pid : Nat]]
    BY DEF Init, Places
  <2>3. started \in BOOLEAN /\ recovered \in BOOLEAN
    BY Zenon DEF Init
  <2> QED
    BY <2>1, <2>2, <2>3 DEF TypeOK
<1>3. LocalsOwn /\ Hardware
  BY <1>1, TrapsAssumption DEF Init, LocalsOwn, Hardware, Proc, Idle
<1>4. Recovery
  BY <1>1 DEF Init, Recovery, Idle
<1> QED
  BY <1>2, <1>3, <1>4 DEF IInv

\* What thread_yield picks is a process, and so is what is left on the queue.
LEMMA QueuePicks ==
  ASSUME NEW s \in Seq(Proc), s # <<>>
  PROVE  Head(s) \in Proc /\ Tail(s) \in Seq(Proc)
  OBVIOUS

\* thread_yield keeps the current process and the queue well typed.
LEMMA YieldTypes ==
  ASSUME TypeOK, thread_yield
  PROVE  curid' \in Proc /\ ready' \in Seq(Proc)
<1>1. Append(ready, curid) \in Seq(Proc) /\ Append(ready, curid) # <<>>
  BY DEF TypeOK
<1> QED
  BY <1>1, QueuePicks DEF thread_yield

\* The entry of trap saves its own process in the locals, and leaves nobody in user
\* mode, with the kernel's page table and no active process.
LEMMA EnterInv ==
  ASSUME IInv, NEW place \in {"call", "out"}, NEW new \in SUBSET Proc, trap_enter(place, new),
         curid \notin new
  PROVE  /\ ctx' \in [Proc -> [at : Places, cur_pid : Nat, last_pid : Nat]]
         /\ LocalsOwn'
         /\ \A p \in Proc : ctx'[p].at # "user"
         /\ pdir' = 0 /\ last_active' = 0
<1>1. /\ curid \in Proc /\ ctx \in [Proc -> [at : Places, cur_pid : Nat, last_pid : Nat]]
      /\ pdir = curid /\ last_active = curid /\ curid \in Nat /\ curid # 0
  BY TrapsAssumption DEF IInv, TypeOK, Hardware, trap_enter, Proc
<1>2. pdir' = 0 /\ last_active' = 0
  BY <1>1 DEF trap_enter
<1>3. ctx'[curid] = [at |-> place, cur_pid |-> curid, last_pid |-> curid]
  BY <1>1 DEF trap_enter
<1>4. \A p \in Proc \ {curid} :
         ctx'[p] = IF p \in new THEN [ctx[p] EXCEPT !.at = "start"] ELSE ctx[p]
  BY DEF trap_enter
<1>5. \A p \in Proc \ {curid} : ctx'[p].at = IF p \in new THEN "start" ELSE ctx[p].at
  BY <1>1, <1>4
<1>6. \A p \in Proc : ctx'[p] \in [at : Places, cur_pid : Nat, last_pid : Nat]
  <2> SUFFICES ASSUME NEW p \in Proc
               PROVE  ctx'[p] \in [at : Places, cur_pid : Nat, last_pid : Nat]
    OBVIOUS
  <2>1. CASE p = curid
    BY <1>1, <1>3, <2>1 DEF Places
  <2>2. CASE p # curid /\ p \notin new
    BY <1>1, <1>4, <2>2
  <2>3. CASE p # curid /\ p \in new
    <3>1. ctx[p] \in [at : Places, cur_pid : Nat, last_pid : Nat] /\ "start" \in Places
      BY <1>1 DEF Places
    <3> QED
      BY <1>4, <2>3, <3>1
  <2> QED
    BY <2>1, <2>2, <2>3
<1>7. ctx' \in [Proc -> [at : Places, cur_pid : Nat, last_pid : Nat]]
  BY <1>6 DEF trap_enter
<1>8. LocalsOwn'
  <2> SUFFICES ASSUME NEW p \in Proc, ctx'[p].at \in {"call", "out"}
               PROVE  ctx'[p].cur_pid = p /\ ctx'[p].last_pid = p
    BY DEF LocalsOwn
  <2>1. CASE p = curid
    BY <1>3, <2>1
  <2>2. CASE p # curid
    <3>1. p \notin new
      BY <1>5, <2>2
    <3>2. ctx'[p] = ctx[p]
      BY <1>4, <2>2, <3>1
    <3> QED
      BY <3>2 DEF IInv, LocalsOwn
  <2> QED
    BY <2>1, <2>2
<1>9. \A p \in Proc : ctx'[p].at # "user"
  BY <1>1, <1>3, <1>5 DEF IInv, Hardware
<1> QED
  BY <1>2, <1>7, <1>8, <1>9

\* A trap keeps what the recovery of the log rests on: only the idle process can be in
\* user mode before the log is recovered, and it makes no file system call.
LEMMA EnterRecovery ==
  ASSUME IInv, NEW place \in {"call", "out"}, trap_enter(place, {}),
         place = "call" => curid # Idle, UNCHANGED <<started, recovered>>
  PROVE  Recovery'
<1>1. Idle \in Proc /\ curid \in Proc /\ ctx[curid].at = "user"
  BY TrapsAssumption DEF IInv, TypeOK, trap_enter, Proc, Idle
<1>2. \A p \in Proc : ctx'[p].at = IF p = curid THEN place ELSE ctx[p].at
  BY DEF trap_enter
<1>3. recovered \/ curid = Idle
  BY <1>1 DEF IInv, Recovery
<1>4. ctx'[Idle].at \notin {"none", "log", "call"}
  BY <1>1, <1>2 DEF IInv, Recovery
<1>5. CASE recovered
  BY <1>4, <1>5 DEF Recovery
<1>6. CASE ~recovered
  <2>1. PICK q \in Proc \ {Idle} :
          /\ \A p \in Proc \ {Idle, q} : ctx[p].at = "none"
          /\ ctx[q].at \in {"none", "start", "log"}
          /\ started => ctx[q].at = "log"
    BY <1>6 DEF IInv, Recovery
  <2>2. \A p \in Proc \ {Idle} : ctx'[p].at = ctx[p].at
    BY <1>2, <1>3, <1>6
  <2> QED
    BY <1>4, <2>1, <2>2 DEF Recovery
<1> QED
  BY <1>5, <1>6

\* A trap keeps the invariant, whatever its handler does to the queue and whomever it
\* switches to.
LEMMA TrapInv ==
  ASSUME IInv, NEW place \in {"call", "out"}, trap_enter(place, {}),
         place = "call" => curid # Idle,
         curid' \in Proc, ready' \in Seq(Proc), asleep' \subseteq Proc
  PROVE  IInv'
<1>1. UNCHANGED <<started, recovered>>
  BY DEF trap_enter
<1>2. /\ ctx' \in [Proc -> [at : Places, cur_pid : Nat, last_pid : Nat]]
      /\ LocalsOwn'
      /\ \A p \in Proc : ctx'[p].at # "user"
      /\ pdir' = 0 /\ last_active' = 0
  BY EnterInv
<1>3. Recovery'
  BY <1>1, EnterRecovery
<1>4. started' \in BOOLEAN /\ recovered' \in BOOLEAN
  BY <1>1, Zenon DEF IInv, TypeOK
<1>5. TypeOK'
  BY <1>2, <1>4 DEF TypeOK
<1>6. Hardware'
  BY <1>2 DEF Hardware
<1> QED
  BY <1>2, <1>3, <1>5, <1>6 DEF IInv

\* At moves one process and nothing else of the contexts.
LEMMA AtFields ==
  ASSUME TypeOK, NEW p \in Proc, NEW place \in Places, At(p, place)
  PROVE  /\ ctx' \in [Proc -> [at : Places, cur_pid : Nat, last_pid : Nat]]
         /\ ctx'[p].at = place /\ ctx'[p].cur_pid = ctx[p].cur_pid
         /\ ctx'[p].last_pid = ctx[p].last_pid
         /\ \A r \in Proc \ {p} : ctx'[r] = ctx[r]
  BY DEF TypeOK, At

\* thread_sleep switches between two processes in the kernel.
LEMMA SleepInv ==
  ASSUME IInv, thread_sleep, ctx[curid].at # "user"
  PROVE  IInv'
<1>1. curid' \in Proc /\ ready' \in Seq(Proc) /\ asleep' \subseteq Proc
  BY QueuePicks DEF IInv, TypeOK, thread_sleep
<1>2. UNCHANGED <<pdir, esp0, last_active, ctx, started, recovered>>
  BY DEF thread_sleep, hw
<1>3. TypeOK'
  BY <1>1, <1>2 DEF IInv, TypeOK
<1>4. LocalsOwn' /\ Recovery'
  BY <1>2 DEF IInv, LocalsOwn, Recovery
<1>5. Hardware'
  <2>1. \A p \in Proc : ctx[p].at # "user"
    BY DEF IInv, Hardware
  <2> QED
    BY <1>1, <1>2, <2>1 DEF IInv, Hardware
<1> QED
  BY <1>3, <1>4, <1>5 DEF IInv

\* Every step of the processes keeps the invariant.
LEMMA StepInv == IInv /\ [Next]_vars => IInv'
<1> SUFFICES ASSUME IInv, [Next]_vars PROVE IInv'
  OBVIOUS
<1>0. /\ TypeOK /\ LocalsOwn /\ Hardware /\ Recovery
      /\ curid \in Proc /\ Idle \in Proc /\ 0 \notin Proc
  BY TrapsAssumption DEF IInv, TypeOK, Proc, Idle
<1>1. CASE proc_start
  <2> DEFINE log == curid # Idle /\ ~started
             place == IF log THEN "log" ELSE "enter"
  <2>1. ctx[curid].at = "start" /\ At(curid, place) /\ place \in Places
    BY <1>1 DEF proc_start, Places
  <2>2. UNCHANGED <<curid, pdir, esp0, last_active, ready, asleep, recovered>>
    BY <1>1 DEF proc_start, hw
  <2>3. started' = (started \/ log)
    BY <1>1 DEF proc_start
  <2> HIDE DEF place
  <2>4. /\ ctx' \in [Proc -> [at : Places, cur_pid : Nat, last_pid : Nat]]
        /\ ctx'[curid].at = place
        /\ \A r \in Proc \ {curid} : ctx'[r] = ctx[r]
    BY <1>0, <2>1, AtFields
  <2>5. place = IF log THEN "log" ELSE "enter"
    BY DEF place
  <2>6. started' \in BOOLEAN
    BY <2>3, Zenon
  <2>7. TypeOK'
    BY <1>0, <2>2, <2>4, <2>6 DEF TypeOK
  <2>8. LocalsOwn' /\ Hardware'
    BY <1>0, <2>1, <2>2, <2>4, <2>5 DEF LocalsOwn, Hardware
  <2>9. Recovery'
    <3>1. ctx'[Idle].at \notin {"none", "log", "call"}
      BY <1>0, <2>4, <2>5 DEF Recovery
    <3>2. CASE recovered
      BY <2>2, <3>1, <3>2 DEF Recovery
    <3>3. CASE ~recovered
      <4>1. PICK q \in Proc \ {Idle} :
              /\ \A p \in Proc \ {Idle, q} : ctx[p].at = "none"
              /\ ctx[q].at \in {"none", "start", "log"}
              /\ started => ctx[q].at = "log"
        BY <1>0, <3>3 DEF Recovery
      <4>2. CASE curid = Idle
        BY <2>3, <2>4, <3>1, <4>1, <4>2 DEF Recovery
      <4>3. CASE curid # Idle
        <5>1. curid = q /\ ~started
          BY <1>0, <2>1, <4>1, <4>3
        <5>2. ctx'[q].at = "log" /\ \A p \in Proc \ {Idle, q} : ctx'[p].at = "none"
          BY <2>4, <2>5, <4>1, <4>3, <5>1
        <5> QED
          BY <3>1, <5>2 DEF Recovery
      <4> QED
        BY <4>2, <4>3
    <3> QED
      BY <3>2, <3>3
  <2> QED
    BY <2>7, <2>8, <2>9 DEF IInv
<1>2. CASE log_init_sleeps
  BY <1>2, SleepInv DEF log_init_sleeps
<1>3. CASE log_init_returns
  <2>1. ctx[curid].at = "log" /\ At(curid, "enter") /\ "enter" \in Places /\ recovered'
    BY <1>3 DEF log_init_returns, Places
  <2>2. UNCHANGED <<curid, pdir, esp0, last_active, ready, asleep, started>>
    BY <1>3 DEF log_init_returns, hw
  <2>3. /\ ctx' \in [Proc -> [at : Places, cur_pid : Nat, last_pid : Nat]]
        /\ ctx'[curid].at = "enter"
        /\ \A r \in Proc \ {curid} : ctx'[r] = ctx[r]
    BY <1>0, <2>1, AtFields
  <2>4. recovered' \in BOOLEAN
    BY <1>3, Zenon DEF log_init_returns
  <2>5. TypeOK'
    BY <1>0, <2>2, <2>3, <2>4 DEF TypeOK
  <2>6. LocalsOwn' /\ Hardware' /\ Recovery'
    BY <1>0, <2>1, <2>2, <2>3 DEF LocalsOwn, Hardware, Recovery
  <2> QED
    BY <2>5, <2>6 DEF IInv
<1>4. CASE proc_enter
  <2>1. ctx[curid].at = "enter" /\ At(curid, "user") /\ "user" \in Places
    BY <1>4 DEF proc_enter, Places
  <2>2. UNCHANGED <<curid, ready, asleep, started, recovered>>
    BY <1>4 DEF proc_enter
  <2>3. /\ ctx' \in [Proc -> [at : Places, cur_pid : Nat, last_pid : Nat]]
        /\ ctx'[curid].at = "user"
        /\ \A r \in Proc \ {curid} : ctx'[r] = ctx[r]
    BY <1>0, <2>1, AtFields
  <2>4. TypeOK'
    BY <1>0, <2>2, <2>3 DEF TypeOK
  <2>5. LocalsOwn' /\ Hardware'
    BY <1>0, <1>4, <2>1, <2>2, <2>3 DEF LocalsOwn, Hardware, proc_enter
  <2>6. Recovery'
    BY <1>0, <2>1, <2>2, <2>3 DEF Recovery
  <2> QED
    BY <2>4, <2>5, <2>6 DEF IInv
<1>5. CASE trap_returns
  BY <1>0, <1>5, TrapInv DEF trap_returns, TypeOK
<1>6. CASE trap_timer
  <2>1. trap_enter("out", {}) /\ asleep' \subseteq Proc
    BY <1>0, <1>6 DEF trap_timer, TypeOK
  <2>2. curid' \in Proc /\ ready' \in Seq(Proc)
    BY <1>0, <1>6, YieldTypes DEF trap_timer, TypeOK
  <2> QED
    BY <2>1, <2>2, TrapInv
<1>7. CASE trap_yield
  <2>1. trap_enter("out", {}) /\ asleep' \subseteq Proc
    BY <1>0, <1>7 DEF trap_yield, TypeOK
  <2>2. curid' \in Proc /\ ready' \in Seq(Proc)
    BY <1>0, <1>7, YieldTypes DEF trap_yield
  <2> QED
    BY <2>1, <2>2, TrapInv
<1>8. CASE trap_call
  BY <1>0, <1>8, TrapInv DEF trap_call, TypeOK
<1>9. CASE call_sleeps
  BY <1>9, SleepInv DEF call_sleeps
<1>10. CASE call_returns
  <2>1. ctx[curid].at = "call" /\ At(curid, "out") /\ "out" \in Places
    BY <1>10 DEF call_returns, Places
  <2>2. UNCHANGED <<curid, pdir, esp0, last_active, ready, asleep, started, recovered>>
    BY <1>10 DEF call_returns, hw
  <2>3. /\ ctx' \in [Proc -> [at : Places, cur_pid : Nat, last_pid : Nat]]
        /\ ctx'[curid].at = "out" /\ ctx'[curid].cur_pid = ctx[curid].cur_pid
        /\ ctx'[curid].last_pid = ctx[curid].last_pid
        /\ \A r \in Proc \ {curid} : ctx'[r] = ctx[r]
    BY <1>0, <2>1, AtFields
  <2>4. TypeOK'
    BY <1>0, <2>2, <2>3 DEF TypeOK
  <2>5. LocalsOwn' /\ Hardware'
    BY <1>0, <2>1, <2>2, <2>3 DEF LocalsOwn, Hardware
  <2>6. Recovery'
    BY <1>0, <2>1, <2>2, <2>3 DEF Recovery
  <2> QED
    BY <2>4, <2>5, <2>6 DEF IInv
<1>11. ASSUME NEW p \in Proc, trap_ide(p) PROVE IInv'
  <2>1. trap_enter("out", {}) /\ curid' \in Proc /\ asleep' \subseteq Proc
    BY <1>0, <1>11 DEF trap_ide, TypeOK
  <2>2. ready' \in Seq(Proc)
    BY <1>0, <1>11 DEF trap_ide, TypeOK
  <2> QED
    BY <2>1, <2>2, TrapInv
<1>12. ASSUME NEW q \in Proc, trap_spawn(q) PROVE IInv'
  <2>1. /\ trap_enter("out", {q}) /\ ctx[q].at = "none" /\ MaySpawn(curid)
        /\ ready' \in Seq(Proc) /\ UNCHANGED <<curid, asleep, started, recovered>>
    BY <1>0, <1>12 DEF trap_spawn, trap_enter, TypeOK
  <2>2. ctx[curid].at = "user" /\ curid # q
    BY <2>1 DEF trap_enter
  <2>3. /\ ctx' \in [Proc -> [at : Places, cur_pid : Nat, last_pid : Nat]]
        /\ LocalsOwn'
        /\ \A p \in Proc : ctx'[p].at # "user"
        /\ pdir' = 0 /\ last_active' = 0
    BY <2>1, <2>2, EnterInv
  <2>4. TypeOK'
    BY <1>0, <2>1, <2>3 DEF TypeOK
  <2>5. Hardware'
    BY <1>0, <2>1, <2>3 DEF Hardware
  <2>6. /\ ctx'[curid].at = "out" /\ ctx'[q].at = "start"
        /\ \A p \in Proc \ {curid, q} : ctx'[p] = ctx[p]
    BY <1>0, <2>1, <2>2 DEF trap_enter, TypeOK
  <2>7. Recovery'
    <3>1. q # Idle /\ ctx'[Idle].at \notin {"none", "log", "call"}
      BY <1>0, <2>1, <2>6 DEF Recovery
    <3>2. CASE recovered
      BY <2>1, <3>1, <3>2 DEF Recovery
    <3>3. CASE ~recovered
      <4>1. PICK r \in Proc \ {Idle} :
              /\ \A p \in Proc \ {Idle, r} : ctx[p].at = "none"
              /\ ctx[r].at \in {"none", "start", "log"}
              /\ started => ctx[r].at = "log"
        BY <1>0, <3>3 DEF Recovery
      <4>2. curid = Idle
        BY <1>0, <2>2, <4>1
      <4>3. \A p \in Proc \ {Idle} : ctx[p].at = "none"
        BY <2>1, <4>2 DEF MaySpawn
      <4>4. ~started
        BY <4>1, <4>3
      <4>5. \A p \in Proc \ {Idle, q} : ctx'[p].at = "none"
        BY <2>6, <4>2, <4>3
      <4> QED
        BY <2>1, <2>6, <3>1, <4>4, <4>5 DEF Recovery
    <3> QED
      BY <3>2, <3>3
  <2> QED
    BY <2>3, <2>4, <2>5, <2>7 DEF IInv
<1>13. CASE trap_leave
  <2>1. ctx[curid].at = "out" /\ At(curid, "user") /\ "user" \in Places
    BY <1>13 DEF trap_leave, Places
  <2>2. UNCHANGED <<curid, ready, asleep, started, recovered>>
    BY <1>13 DEF trap_leave
  <2>3. /\ ctx' \in [Proc -> [at : Places, cur_pid : Nat, last_pid : Nat]]
        /\ ctx'[curid].at = "user"
        /\ \A r \in Proc \ {curid} : ctx'[r] = ctx[r]
    BY <1>0, <2>1, AtFields
  <2>4. ctx[curid].cur_pid = curid /\ ctx[curid].last_pid = curid /\ curid # 0
    BY <1>0, <2>1 DEF LocalsOwn
  <2>5. pdir' = curid /\ esp0' = curid /\ last_active' = curid
    BY <1>13, <2>4 DEF trap_leave
  <2>6. TypeOK'
    BY <1>0, <2>2, <2>3 DEF TypeOK
  <2>7. LocalsOwn' /\ Hardware'
    BY <1>0, <2>1, <2>2, <2>3, <2>5 DEF LocalsOwn, Hardware
  <2>8. Recovery'
    BY <1>0, <2>1, <2>2, <2>3 DEF Recovery
  <2> QED
    BY <2>6, <2>7, <2>8 DEF IInv
<1>14. CASE UNCHANGED vars
  BY <1>14 DEF IInv, TypeOK, LocalsOwn, Hardware, Recovery, vars
<1> QED
  BY <1>1, <1>2, <1>3, <1>4, <1>5, <1>6, <1>7, <1>8, <1>9, <1>10, <1>11, <1>12, <1>13,
     <1>14 DEF Next

-----------------------------------------------------------------------------
\* The invariant holds in every reachable state.
THEOREM Invariant == Spec => []IInv
  BY InitInv, StepInv, PTL DEF Spec

\* User code always runs on its own page table and kernel stack, and last_active names
\* it: what trap and proc_start_user restore after any number of switches.
THEOREM UserOwnAlways == Spec => []UserRunsOnItsOwn
<1>1. IInv => UserRunsOnItsOwn
  BY DEF IInv, Hardware, UserRunsOnItsOwn
<1> QED
  BY <1>1, Invariant, PTL

\* Kernel code always runs on the kernel's page table, whichever process left it there.
THEOREM KernelMapAlways == Spec => []KernelRunsOnKernelMap
<1>1. IInv => KernelRunsOnKernelMap
  BY DEF IInv, Hardware, KernelRunsOnKernelMap
<1> QED
  BY <1>1, Invariant, PTL

\* Kernel and user code always find the page table and kernel stack they need.
THEOREM RightMapAlways == Spec => []RunsOnRightMap
<1>1. UserRunsOnItsOwn /\ KernelRunsOnKernelMap => RunsOnRightMap
  BY DEF RunsOnRightMap
<1> QED
  BY <1>1, UserOwnAlways, KernelMapAlways, PTL

\* No file system call starts before log_init has returned, as long as the idle process
\* spawns a single process.
THEOREM RecoveredFirstAlways == Spec => []RecoveredFirst
<1>1. IInv => RecoveredFirst
  BY DEF IInv, Recovery, RecoveredFirst
<1> QED
  BY <1>1, Invariant, PTL
=============================================================================
