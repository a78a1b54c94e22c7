-------------------------------- MODULE Flock --------------------------------
(***************************************************************************)
(* The lock engine of kern/flock: the structure flock_t embedded in every   *)
(* in-memory inode, and the functions of flock.c as operators that map the  *)
(* value of a flock_t before a critical section of fl->lock to its value    *)
(* after it.  Blocking is not here: flock.c blocks by calling thread_sleep  *)
(* in a loop, and the modules that use these operators model that loop      *)
(* with MustWait, StartWait and EndWait.                                    *)
(***************************************************************************)
EXTENDS Integers, FiniteSets, Sequences

CONSTANT Pid    \* the thread ids, 0..NUM_IDS-1 in the code

ASSUME PidAssumption == IsFiniteSet(Pid)

NUM_IDS == Cardinality(Pid)

(***************************************************************************)
(* enum flock_state, and the lock types of flock(2).  LOCK_NB is a flag     *)
(* kept apart from the type (the code masks it out with ~LOCK_NB), NONE is  *)
(* the 0 of "no lock held", and BAD stands for every operation the switch   *)
(* of flock_acquire sends to its default case.                              *)
(***************************************************************************)
FLOCK_INACTIVE  == "INACTIVE"
FLOCK_SHARED    == "SHARED"
FLOCK_EXCLUSIVE == "EXCLUSIVE"

NONE    == "NONE"
LOCK_SH == "SH"
LOCK_EX == "EX"
BAD     == "BAD"

FlockState == {FLOCK_INACTIVE, FLOCK_SHARED, FLOCK_EXCLUSIVE}
Held       == {NONE, LOCK_SH, LOCK_EX}
LockType   == {LOCK_SH, LOCK_EX}

\* flock_t; its waitq is the array pids[0..len-1] as a sequence, and inq, req.
FlockT == [state             : FlockState,
           shared_holders    : Int,
           waiting_shared    : Int,
           waiting_exclusive : Int,
           pids              : Seq(Pid),
           inq               : [Pid -> BOOLEAN],
           req               : [Pid -> Held]]

flock_init ==
  [state             |-> FLOCK_INACTIVE,
   shared_holders    |-> 0,
   waiting_shared    |-> 0,
   waiting_exclusive |-> 0,
   pids              |-> << >>,
   inq               |-> [p \in Pid |-> FALSE],
   req               |-> [p \in Pid |-> NONE]]

-----------------------------------------------------------------------------
(* The queue of waiting threads that flock.c keeps beside the counters.      *)

waitq_add(fl, pid, req) ==
  IF fl.inq[pid]
    THEN [fl EXCEPT !.req = [@ EXCEPT ![pid] = req]]
    ELSE IF Len(fl.pids) < NUM_IDS
           THEN [fl EXCEPT !.pids = Append(@, pid),
                           !.inq  = [@ EXCEPT ![pid] = TRUE],
                           !.req  = [@ EXCEPT ![pid] = req]]
           ELSE fl

\* The array with its entry k removed and the later entries shifted down.
ShiftDown(q, k) == [j \in 1 .. Len(q) - 1 |-> IF j < k THEN q[j] ELSE q[j + 1]]

\* The first position of pid in the array.
FirstPos(q, pid) ==
  CHOOSE k \in 1 .. Len(q) : q[k] = pid /\ \A j \in 1 .. k - 1 : q[j] # pid

\* Mutant: the membership flag is not reset.
waitq_remove_KeepsFlag(fl, pid) ==
  IF ~ fl.inq[pid]
    THEN fl
    ELSE [fl EXCEPT !.pids = ShiftDown(@, FirstPos(@, pid)),
                    !.req  = [@ EXCEPT ![pid] = NONE]]

waitq_remove(fl, pid) ==
  IF ~ fl.inq[pid]
    THEN fl
    ELSE [fl EXCEPT !.pids = IF \E k \in 1 .. Len(@) : @[k] = pid
                               THEN ShiftDown(@, FirstPos(@, pid))
                               ELSE @,
                    !.inq  = [@ EXCEPT ![pid] = FALSE],
                    !.req  = [@ EXCEPT ![pid] = NONE]]

-----------------------------------------------------------------------------
(* Acquiring.                                                                *)

\* Mutants: readers pass waiting writers; writers pass readers.
MustWait_NoPreference(fl, type) ==
  IF type = LOCK_SH THEN fl.state = FLOCK_EXCLUSIVE ELSE fl.state # FLOCK_INACTIVE

MustWait_IgnoresReaders(fl, type) ==
  fl.state = FLOCK_EXCLUSIVE \/ (type = LOCK_SH /\ fl.waiting_exclusive > 0)

\* The condition under which try_acquire_shared and try_acquire_exclusive
\* block, refuse a LOCK_NB request, and stay in their while loop.
MustWait(fl, type) ==
  IF type = LOCK_SH
    THEN fl.state = FLOCK_EXCLUSIVE \/ fl.waiting_exclusive > 0
    ELSE fl.state # FLOCK_INACTIVE

\* What a request does before it enters the while loop.
StartWait(fl, pid, type) ==
  IF type = LOCK_SH
    THEN [waitq_add(fl, pid, type) EXCEPT !.waiting_shared = @ + 1]
    ELSE [waitq_add(fl, pid, type) EXCEPT !.waiting_exclusive = @ + 1]

\* What it does when it leaves the loop.
EndWait(fl, pid, type) ==
  IF type = LOCK_SH
    THEN waitq_remove([fl EXCEPT !.waiting_shared = @ - 1], pid)
    ELSE waitq_remove([fl EXCEPT !.waiting_exclusive = @ - 1], pid)

\* The last lines of try_acquire_shared and try_acquire_exclusive.
Grant(fl, type) ==
  IF type = LOCK_SH
    THEN [fl EXCEPT !.state = FLOCK_SHARED, !.shared_holders = @ + 1]
    ELSE [fl EXCEPT !.state = FLOCK_EXCLUSIVE]

-----------------------------------------------------------------------------
(* Releasing.                                                                *)

flock_release(fl, type) ==
  CASE type = LOCK_SH /\ fl.state = FLOCK_SHARED /\ fl.shared_holders > 0 ->
         [fl EXCEPT !.shared_holders = @ - 1,
                    !.state = IF fl.shared_holders = 1 THEN FLOCK_INACTIVE
                                                       ELSE @]
    [] type = LOCK_EX /\ fl.state = FLOCK_EXCLUSIVE ->
         [fl EXCEPT !.state = FLOCK_INACTIVE]
    [] OTHER -> fl

\* Mutant: the last reader wakes nobody.
NeedWakeup_WritersOnly(fl, type) == type = LOCK_EX /\ fl.state = FLOCK_EXCLUSIVE

\* Whether flock_release calls thread_wakeup(fl).
NeedWakeup(fl, type) ==
  \/ type = LOCK_SH /\ fl.state = FLOCK_SHARED /\ fl.shared_holders = 1
  \/ type = LOCK_EX /\ fl.state = FLOCK_EXCLUSIVE
=============================================================================
