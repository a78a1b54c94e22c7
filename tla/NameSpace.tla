----------------------------- MODULE NameSpace -----------------------------
(***************************************************************************)
(* What the file system calls promise: inodes and directories that change   *)
(* by one whole call at a time, as they are found after a crash.            *)
(***************************************************************************)
EXTENDS Integers, Sequences, FiniteSets

CONSTANTS Inum, T_NONE, T_DIR, T_FILE,
          First    \* the disk at the first boot

VARIABLE fs

NoInode == [type |-> T_NONE, nlink |-> 0, data |-> << >>, ents |-> {}]

Init == fs = First

Dirs       == {d \in Inum : fs[d].type = T_DIR /\ fs[d].nlink > 0}
Has(d, n)  == \E i \in Inum : <<n, i>> \in fs[d].ents
Proper(n)  == n \notin {".", ".."}

\* A new file or directory i under the name n of directory d.
Create(d, n, i, type) ==
  /\ Proper(n) /\ ~Has(d, n) /\ fs[i].type = T_NONE
  /\ fs' = [fs EXCEPT
       ![d].ents = @ \cup {<<n, i>>},
       ![d].nlink = IF type = T_DIR THEN @ + 1 ELSE @,
       ![i] = [NoInode EXCEPT !.type = type, !.nlink = 1,
                 !.ents = IF type = T_DIR THEN {<<".", i>>, <<"..", d>>} ELSE {}]]

\* A further name for file i.
Link(d, n, i) ==
  /\ Proper(n) /\ ~Has(d, n) /\ fs[i].type = T_FILE
  /\ fs' = [fs EXCEPT ![d].ents = @ \cup {<<n, i>>}, ![i].nlink = @ + 1]

\* The inodes with one link less to i.
Less(d, n, i) ==
  [fs EXCEPT
     ![d].ents = @ \ {<<n, i>>},
     ![d].nlink = IF fs[i].type = T_DIR THEN @ - 1 ELSE @,
     ![i].nlink = @ - 1]

\* The name n goes; the inode goes with it unless it has links or is in use.
Unlink(d, n, i) ==
  /\ Proper(n) /\ <<n, i>> \in fs[d].ents
  /\ fs[i].type = T_DIR => {e[1] : e \in fs[i].ents} = {".", ".."}
  /\ \/ fs' = Less(d, n, i)
     \/ fs[i].nlink = 1 /\ fs' = [Less(d, n, i) EXCEPT ![i] = NoInode]

\* An inode without links goes when its last user does.
Free(i) ==
  /\ fs[i].type # T_NONE /\ fs[i].nlink = 0
  /\ fs' = [fs EXCEPT ![i] = NoInode]

\* One transaction of a write.
Write(i) ==
  /\ fs[i].type = T_FILE
  /\ \E data \in {fs'[i].data} : fs' = [fs EXCEPT ![i].data = data] /\ Len(data) >= Len(fs[i].data)

\* The entries of d that come or go.
Changed(d) == (fs'[d].ents \ fs[d].ents) \cup (fs[d].ents \ fs'[d].ents)

Next ==
  /\ fs' # fs
  /\ \/ \E d \in Dirs : \E <<n, i>> \in Changed(d) :
          Link(d, n, i) \/ Unlink(d, n, i) \/ \E type \in {T_DIR, T_FILE} : Create(d, n, i, type)
     \/ \E i \in Inum : Free(i) \/ Write(i)

Spec == Init /\ [][Next]_fs
=============================================================================
