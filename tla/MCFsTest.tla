------------------------------ MODULE MCFsTest ------------------------------
(* The instance of FsTest and FsCalls for TLC.                               *)
EXTENDS FsTest, TLC

CONSTANTS p1, p2

Abs(elems) == [abs |-> TRUE, elems |-> elems]

a  == Abs(<<"a">>)
b  == Abs(<<"b">>)
d  == Abs(<<"d">>)
da == Abs(<<"d", "a">>)

\* A disk with a file and an empty directory in the root.
FileAndDir ==
  [mkfs EXCEPT
     ![1].ents = @ \o <<Dirent("a", 2), Dirent("d", 3)>>, ![1].nlink = 2,
     ![2] = [FreeInode EXCEPT !.type = T_FILE, !.nlink = 1],
     ![3] = [FreeInode EXCEPT !.type = T_DIR, !.nlink = 1,
               !.ents = <<Dirent(".", 3), Dirent("..", 1)>>]]

(***************************************************************************)
(* Three workloads, chosen at the start.  "test": fstest runs while the     *)
(* other process removes a file of the same directory.  "race":             *)
(* the processes make calls on the same names, and power may fail.          *)
(* "alone": one process makes calls of every kind.  A directory is removed  *)
(* only where nobody else can be using it.                                  *)
(***************************************************************************)
VARIABLE work

Menu ==
  [test  |-> {sys_unlink(a)},
   race  |-> {sys_open(a, RW), sys_close(1), sys_write(1, <<1, 2>>), sys_unlink(a),
              sys_link(a, da), sys_unlink(da)},
   alone |-> {sys_open(da, RW), sys_open(a, {}), sys_link(a, da), sys_link(d, b), sys_unlink(da),
              sys_unlink(a), sys_mkdir(d), sys_unlink(d), sys_chdir(a), sys_chdir(RootDir), sys_close(1),
              sys_write(1, <<1, 2>>), sys_read(1, 3), sys_fstat(1)}]

\* The other process in "race" has no descriptor, so it makes calls on names.
OnNames == {sys_open(a, RW), sys_unlink(a), sys_mkdir(da), sys_link(a, da)}

Budget ==
  [race |-> (p1 :> 2) @@ (p2 :> 1), alone |-> (p1 :> 3) @@ (p2 :> 0)]

AllCalls == UNION {Menu[w] : w \in DOMAIN Menu}

\* Who makes which calls, and how many.
Chosen ==
  /\ \A p \in Proc : todo[p] = << >> /\ todo'[p] # << >> =>
       \/ todo'[p] \in IF work = "race" /\ p = p2 THEN OnNames ELSE Menu[work]
       \/ work = "test" /\ p = Tester
  /\ work # "test" => \A p \in Proc : made'[p] <= Budget[work][p]
  /\ crashes' > crashes => work = "race"

RunNext ==
  /\ \/ work = "test" /\ TestNext
     \/ work # "test" /\ Next /\ UNCHANGED pc
  /\ Chosen
  /\ UNCHANGED work

RunInit == TestInit /\ work \in DOMAIN Menu

\* The machine does not stop while some thread can run.
RunSpec ==
  /\ RunInit
  /\ [][RunNext]_<<allvars, work>> /\ WF_<<allvars, work>>(RunNext)

\* The test program comes to its end: no call of it waits for ever for the log or
\* for an inode that the other process has.
ScriptEnds == work = "test" => TestsEnd
=============================================================================
