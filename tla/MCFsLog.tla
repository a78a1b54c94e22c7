------------------------------- MODULE MCFsLog -------------------------------
(* The instance of FsLog for TLC.                                             *)
EXTENDS FsLog

\* Two blocks are written together, in both orders, and one of them twice.
PutTrans == {<< <<"put", 5, <<1>>>>, <<"put", 6, <<1>>>> >>,
             << <<"put", 6, <<2>>>>, <<"put", 5, <<1>>>>, <<"put", 5, <<2>>>> >>}

\* Two inodes get a block, and one loses it and may get another.
AllocTrans == {<< <<"grow", 3>> >>, << <<"grow", 4>> >>, << <<"trunc", 3>> >>}
MetaBlocks == {1, 2, 3, 4}

AnyTrans == PutTrans \cup AllocTrans

(***************************************************************************)
(* Two workloads, chosen at the start: all threads write and read blocks,   *)
(* or one thread allocates and frees them.                                  *)
(***************************************************************************)
VARIABLE work

Bound ==
  /\ \A p \in Proc : call[p] \in work \cup {<< >>}
  /\ work = AllocTrans => \A p \in Proc \ {Boot} : todo[p] = << >>

LogInit == Init /\ work \in {PutTrans, AllocTrans}
LogNext == Next /\ UNCHANGED work /\ Bound'
LogSpec == LogInit /\ [][LogNext]_<<vars, work>>
=============================================================================
