----------------------------- MODULE MCFileFlock -----------------------------
(* Instances of FileFlock for TLC.                                            *)
EXTENDS FileFlock, TLC

Symmetry == Permutations(Pid) \cup Permutations(File)
              \cup Permutations(Inode) \cup Permutations(Inum)

(***************************************************************************)
(* Two workloads, chosen at the start: every process has one descriptor of  *)
(* the same file, or one process, out, does nothing and the others have two *)
(* descriptors each, of two files whose cache entries are recycled.         *)
(***************************************************************************)
VARIABLE out

Bound ==
  IF out = Nil
  THEN /\ Cardinality({i \in Inode : inode[i].inum # Nil}) <= 1
       /\ \A p \in Pid : Cardinality(openfiles[p]) <= 1
  ELSE openfiles[out] = {} /\ pc[out] = "user"

LockInit == Init /\ out \in Pid \cup {Nil}
LockNext == Next /\ UNCHANGED out /\ Bound'
LockSpec == LockInit /\ [][LockNext]_<<vars, out>>
=============================================================================
