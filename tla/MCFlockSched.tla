----------------------------- MODULE MCFlockSched ----------------------------
(* Instances of FlockSched for TLC.                                           *)
EXTENDS FlockSched, SequencesExt

Channels == Inode \cup Thread

(***************************************************************************)
(* All processes are spawned, each has opened one descriptor of the same    *)
(* file and idle has its turn; from then on the programs lock, unlock and   *)
(* use the disk.                                                            *)
(***************************************************************************)
User == Thread \ {Idle}
Own  == CHOOSE own \in [User -> File] : \A p, q \in User : p # q => own[p] # own[q]
Ip   == CHOOSE i \in Inode : TRUE

OpenedInit ==
  /\ inode = [i \in Inode |-> IF i = Ip
                THEN [inum |-> CHOOSE n \in Inum : TRUE, ref |-> Cardinality(User)]
                ELSE [inum |-> Nil, ref |-> 0]]
  /\ flock = [i \in Inode |-> flock_init]
  /\ file  = [f \in File |-> IF \E p \in User : Own[p] = f
                THEN [ref |-> 1, ip |-> Ip,  holding |-> NONE]
                ELSE [ref |-> 0, ip |-> Nil, holding |-> NONE]]
  /\ openfiles = [p \in Pid |-> IF p \in User THEN {Own[p]} ELSE {}]
  /\ pc   = [p \in Pid |-> "user"]
  /\ call = [p \in Pid |-> NoCall]
  /\ sched = FoldLeft(thread_spawn, kern_main, SetToSortSeq(User, <))
  /\ panic = FALSE

LockNext ==
  \/ \E p \in Pid : \/ flock_acquire(p) \/ flock_resume(p) \/ DiskWait(p) \/ ide_intr(p)
                    \/ \E f \in File : flock_un(p, f) \/ flock_lock(p, f)
  \/ Timer

OpenedSpec == OpenedInit /\ [][LockNext]_vars

FairOpenedSpec == OpenedSpec /\ Fairness
=============================================================================
