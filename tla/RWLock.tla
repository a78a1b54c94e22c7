------------------------------- MODULE RWLock --------------------------------
(***************************************************************************)
(* What flock(2) of this kernel promises of every file on disk: an advisory *)
(* lock that is shared or exclusive and that prefers writers.  There is no  *)
(* inode cache here, no table of open files and no sleeping thread, only    *)
(* the number of shared locks, of exclusive locks and of blocked requests   *)
(* for an exclusive lock.                                                   *)
(***************************************************************************)
EXTENDS Integers

CONSTANT Inum

VARIABLES readers, writers, queued

rwVars == <<readers, writers, queued>>

Init ==
  /\ readers = [n \in Inum |-> 0]
  /\ writers = [n \in Inum |-> 0]
  /\ queued  = [n \in Inum |-> 0]

\* A shared lock is granted unless a writer holds the lock or is queued for it.
Share(n) ==
  /\ writers[n] = 0 /\ queued[n] = 0
  /\ readers' = [readers EXCEPT ![n] = @ + 1]
  /\ UNCHANGED <<writers, queued>>

Unshare(n) ==
  /\ readers[n] > 0
  /\ readers' = [readers EXCEPT ![n] = @ - 1]
  /\ UNCHANGED <<writers, queued>>

\* An exclusive request is queued only while somebody holds the lock.
Enqueue(n) ==
  /\ readers[n] + writers[n] > 0
  /\ queued' = [queued EXCEPT ![n] = @ + 1]
  /\ UNCHANGED <<readers, writers>>

\* An exclusive lock is granted, to a new request (w = 0) or a queued one.
Exclude(n, w) ==
  /\ readers[n] = 0 /\ writers[n] = 0 /\ queued[n] >= w
  /\ writers' = [writers EXCEPT ![n] = 1]
  /\ queued'  = [queued EXCEPT ![n] = @ - w]
  /\ UNCHANGED readers

Unexclude(n) ==
  /\ writers[n] = 1
  /\ writers' = [writers EXCEPT ![n] = 0]
  /\ UNCHANGED <<readers, queued>>

Next ==
  \E n \in Inum :
    Share(n) \/ Unshare(n) \/ Enqueue(n) \/ Exclude(n, 0) \/ Exclude(n, 1) \/ Unexclude(n)

Spec == Init /\ [][Next]_rwVars
=============================================================================
