------------------------------ MODULE FsCalls ------------------------------
(***************************************************************************)
(* The file system calls of sysfile.c with the routines of path.c, dir.c,   *)
(* file.c and inode.c they are made of, run by several threads.             *)
(*                                                                          *)
(* A thread executes the list todo[p] of its remaining steps; a call of a   *)
(* routine puts the steps of the routine in front.  A thread keeps the CPU  *)
(* until it sleeps, waits for a disk block or returns.  The log is taken at *)
(* the contract FsLog establishes: a transaction has one owner, and a crash *)
(* leaves the disk as of the last commit.                                   *)
(***************************************************************************)
EXTENDS InodeCache, Integers, FiniteSets

CONSTANTS
  Proc,      \* threads
  Nobody,    \* no thread
  NOFILE,    \* descriptors of a thread
  NFILE,     \* entries of the file table
  MAXFILE,   \* the largest file, in data units
  WriteMax,  \* what file_write puts in one transaction, in data units
  Image,     \* the disk at the first boot
  Calls,     \* the system calls threads make: lists of steps, see below
  MaxCalls,  \* how many calls each of them makes
  Crashes    \* how often the machine may lose power

ASSUME FsCallsAssumption ==
  {NOFILE, NFILE, MAXFILE, WriteMax} \subseteq Nat \ {0} /\ {Crashes, MaxCalls} \subseteq Nat

VARIABLES
  disk,      \* the inodes and their content, with uncommitted changes
  com,       \* the same as of the last commit
  ic,        \* inode_cache
  log,       \* the thread whose transaction has log.busy set, or Nobody
  file,      \* ftable
  fds,       \* fds[p]: the openfiles of thread p, 0 for NULL
  todo,      \* todo[p]: what thread p still has to do
  v,         \* v[p]: the variables of the call p is in, and its cwd
  cpu,       \* the thread that executes in the kernel, or Nobody
  asleep,    \* asleep[p]: the channel p sleeps on, or Awake
  made,      \* made[p]: the calls p has made
  crashes,   \* power losses so far
  panic      \* the KERN_PANIC that stopped the machine, or "none"

vars == <<disk, com, ic, log, file, fds, todo, v, cpu, asleep, made, crashes, panic>>

\* Channels: an inode, the log, or none.
LogChan == NINODE + 1
Awake   == 0

\* The variables that own a reference to an inode.
Owning == {"ip", "dp", "nx", "ff", "cwd"}

\* ret is the result of the last call, got what it read, left what is to be written.
Fresh(cwd) ==
  [ip |-> NULL, dp |-> NULL, nx |-> NULL, ff |-> NULL, cwd |-> cwd, f |-> NULL,
   name |-> "", off |-> 0, ok |-> TRUE, left |-> << >>, got |-> << >>, ret |-> 0]

NoFile == [ref |-> 0, ip |-> NULL, off |-> 0, readable |-> FALSE, writable |-> FALSE]

\* Memory after boot: tcb_init_at_id looks the root up for every thread.
ic0   == [inode_init EXCEPT ![1] = [Empty EXCEPT !.inum = ROOTINO, !.ref = Cardinality(Proc)]]
file0 == [f \in 1 .. NFILE |-> NoFile]
fds0  == [p \in Proc |-> [x \in 1 .. NOFILE |-> 0]]
todo0 == [p \in Proc |-> << >>]
v0    == [p \in Proc |-> Fresh(1)]

Init ==
  /\ disk = Image
  /\ com = disk
  /\ ic = ic0 /\ log = Nobody /\ file = file0 /\ fds = fds0
  /\ todo = todo0 /\ v = v0 /\ cpu = Nobody /\ asleep = [p \in Proc |-> Awake]
  /\ made = [p \in Proc |-> 0]
  /\ crashes = 0
  /\ panic = "none"

-----------------------------------------------------------------------------
(* The routines, as lists of steps.                                          *)

unlockput(r)              == << <<"unlock", r>>, <<"put", r>> >>
namex(path, parent, r)    == << <<"namex", path, parent, r>> >>
link_to(r, name, t, must) == << <<"lookup", r, name>>, <<"dir_link", r, name, t, must>> >>
Begin                     == << <<"begin">> >>
Commit                    == << <<"commit">> >>
Return(n)                 == << <<"return", n>> >>

sys_link(old, new) == namex(old, FALSE, "ip") \o << <<"link_ip", new>> >>
sys_unlink(path)   == namex(path, TRUE, "dp") \o << <<"unlink_dp">> >>
create(path, type) == namex(path, TRUE, "dp") \o << <<"create_dp", type>> >>
sys_mkdir(path)    == Begin \o create(path, T_DIR) \o << <<"mkdir_ip">> >>
sys_chdir(path)    == namex(path, FALSE, "ip") \o << <<"chdir_ip">> >>

\* omode is a subset of {"create", "w", "rw"}; the empty one is O_RDONLY.
sys_open(path, omode) ==
  IF "create" \in omode
  THEN Begin \o create(path, T_FILE) \o Commit \o << <<"open_file", omode>> >>
  ELSE namex(path, FALSE, "ip") \o << <<"open_ip", omode>> >>

sys_close(fd)    == << <<"close", fd>> >>
sys_read(fd, n)  == << <<"file_read", fd, n>> >>
sys_write(fd, d) == << <<"file_write", fd, d>> >>
sys_fstat(fd)    == << <<"file_stat", fd>> >>

\* The steps that read a disk block, where another thread may come in.
DiskSteps == {"fill", "trunc", "free", "update", "lookup", "dir_link", "alloc",
              "unlink_ip", "inode_read", "inode_write", "commit"}

-----------------------------------------------------------------------------
At(p, op) ==
  /\ panic = "none" /\ cpu \in {p, Nobody} /\ asleep[p] = Awake
  /\ todo[p] # << >> /\ Head(todo[p])[1] = op

Arg(p, k) == Head(todo[p])[k + 1]
Ip(p, r)  == ic[v[p][r]]          \* the inode that variable r of p points to

\* Thread p goes on with steps, and keeps the CPU unless they start with a disk access.
GoTo(p, steps) ==
  /\ todo' = [todo EXCEPT ![p] = steps]
  /\ cpu' = IF steps = << >> \/ Head(steps)[1] \in DiskSteps THEN Nobody ELSE p
Push(p, steps) == GoTo(p, steps \o Tail(todo[p]))
Pop(p)         == Push(p, << >>)

Set(p, r, val) == v' = [v EXCEPT ![p][r] = val]

\* thread_wakeup and thread_sleep, at their contract.
Wakeup(chan)   == asleep' = [q \in Proc |-> IF asleep[q] = chan THEN Awake ELSE asleep[q]]
Sleep(p, chan) == asleep' = [asleep EXCEPT ![p] = chan] /\ cpu' = Nobody

Panic(msg) ==
  /\ panic' = msg
  /\ UNCHANGED <<disk, com, ic, log, file, fds, todo, v, cpu, asleep, made, crashes>>

Static == UNCHANGED <<com, log, file, fds, asleep, made, crashes, panic>>
\* Only the inode cache, or only the variables of the thread, change.
OnlyCache == Static /\ UNCHANGED <<disk, v>>
OnlyVars  == Static /\ UNCHANGED <<disk, ic>>

\* A step that logs the blocks it changes.  log_write panics when no transaction
\* is open; it does not ask whose transaction it is.
LogWrite(new, effect) ==
  IF log = Nobody THEN Panic("write outside of trans") ELSE disk' = new /\ effect

-----------------------------------------------------------------------------
(* Transactions.                                                             *)

begin(p) ==
  /\ At(p, "begin")
  /\ UNCHANGED <<disk, com, ic, file, fds, v, made, crashes, panic>>
  /\ IF log # Nobody
     THEN Sleep(p, LogChan) /\ UNCHANGED <<log, todo>>
     ELSE log' = p /\ Pop(p) /\ UNCHANGED asleep

\* Mutant: no wakeup.
commit_NoWakeup(p) ==
  /\ At(p, "commit")
  /\ com' = disk /\ log' = Nobody /\ Pop(p)
  /\ UNCHANGED <<disk, ic, file, fds, v, asleep, made, crashes, panic>>

commit(p) ==
  /\ At(p, "commit")
  /\ com' = disk /\ log' = Nobody
  /\ Wakeup(LogChan) /\ Pop(p)
  /\ UNCHANGED <<disk, ic, file, fds, v, made, crashes, panic>>

-----------------------------------------------------------------------------
(* Inodes.                                                                   *)

lock(p) ==
  /\ At(p, "lock")
  /\ LET k == v[p][Arg(p, 1)]
     IN  IF k = NULL \/ ic[k].ref < 1 THEN Panic("inode_lock")
         ELSE /\ UNCHANGED <<disk, com, log, file, fds, v, made, crashes, panic>>
              /\ IF ic[k].busy
                 THEN Sleep(p, k) /\ UNCHANGED <<ic, todo>>
                 ELSE /\ ic' = SetBusy(ic, k)
                      /\ Push(p, IF ic[k].valid THEN << >> ELSE << <<"fill", Arg(p, 1)>> >>)
                      /\ UNCHANGED asleep

fill(p) ==
  /\ At(p, "fill")
  /\ LET k == v[p][Arg(p, 1)]
     IN  IF disk[ic[k].inum].type = T_NONE THEN Panic("inode_lock: no type")
         ELSE ic' = Load(ic, k, disk[ic[k].inum]) /\ Pop(p) /\ OnlyCache

\* Mutant: no wakeup.
unlock_NoWakeup(p) ==
  /\ At(p, "unlock")
  /\ ic' = inode_unlock(ic, v[p][Arg(p, 1)]) /\ Pop(p) /\ OnlyCache

unlock(p) ==
  /\ At(p, "unlock")
  /\ LET k == v[p][Arg(p, 1)]
     IN  IF ~ic[k].busy \/ ic[k].ref < 1 THEN Panic("inode_unlock")
         ELSE /\ ic' = inode_unlock(ic, k)
              /\ Wakeup(k) /\ Pop(p)
              /\ UNCHANGED <<disk, com, log, file, fds, v, made, crashes, panic>>

put(p) ==
  /\ At(p, "put")
  /\ LET r == Arg(p, 1)  k == v[p][r]
     IN  IF ~LastPut(ic, k)
         THEN ic' = PutRef(ic, k) /\ Set(p, r, NULL) /\ Pop(p) /\ Static /\ UNCHANGED disk
         ELSE IF ic[k].busy THEN Panic("inode_put busy")
         ELSE ic' = SetBusy(ic, k) /\ Push(p, << <<"trunc", r>>, <<"free", r>> >>) /\ OnlyCache

trunc(p) ==
  /\ At(p, "trunc")
  /\ LogWrite(inode_trunc(disk, Ip(p, Arg(p, 1))), Pop(p) /\ Static /\ UNCHANGED <<ic, v>>)

free(p) ==
  /\ At(p, "free")
  /\ LET r == Arg(p, 1)  k == v[p][r]
     IN  LogWrite(inode_update(disk, [ic[k] EXCEPT !.type = T_NONE]),
           /\ ic' = Freed(ic, k)
           /\ Wakeup(k) /\ Set(p, r, NULL) /\ Pop(p)
           /\ UNCHANGED <<com, log, file, fds, made, crashes, panic>>)

update(p) ==
  /\ At(p, "update")
  /\ LogWrite(inode_update(disk, Ip(p, Arg(p, 1))), Pop(p) /\ Static /\ UNCHANGED <<ic, v>>)

-----------------------------------------------------------------------------
(* Path names.  A path is [abs, elems]: whether it starts with a slash, and  *)
(* the elements that skipelem takes from it one after the other.             *)

start(p) ==
  /\ At(p, "namex")
  /\ LET path == Arg(p, 1)  parent == Arg(p, 2)  r == Arg(p, 3)
         k == IF path.abs THEN SlotFor(ic, ROOTINO) ELSE v[p].cwd
     IN  IF k = NULL THEN Panic("inode_get: no inodes")
         ELSE /\ ic' = IF path.abs THEN inode_get(ic, ROOTINO) ELSE inode_dup(ic, k)
              /\ Set(p, r, k) /\ Push(p, << <<"walk", path.elems, parent, r>> >>)
              /\ Static /\ UNCHANGED disk

\* The head of the loop of namex.
walk(p) ==
  /\ At(p, "walk") /\ OnlyVars
  /\ LET elems == Arg(p, 1)  parent == Arg(p, 2)  r == Arg(p, 3)
     IN  IF elems = << >>
         THEN Push(p, IF parent THEN << <<"put", r>> >> ELSE << >>) /\ UNCHANGED v
         ELSE /\ Set(p, "name", Head(elems))
              /\ Push(p, << <<"lock", r>>, <<"enter", elems, parent, r>> >>)

\* Mutant: the directory that has been searched is not put.
enter_NoPut(p) ==
  /\ At(p, "enter") /\ OnlyVars /\ UNCHANGED v
  /\ LET elems == Arg(p, 1)  parent == Arg(p, 2)  r == Arg(p, 3)
     IN  Push(p, IF Ip(p, r).type # T_DIR THEN unlockput(r)
                 ELSE IF parent /\ Tail(elems) = << >> THEN << <<"unlock", r>> >>
                 ELSE << <<"lookup", r, Head(elems)>>, <<"unlock", r>>,
                         <<"next", Tail(elems), parent, r>> >>)

enter(p) ==
  /\ At(p, "enter") /\ OnlyVars /\ UNCHANGED v
  /\ LET elems == Arg(p, 1)  parent == Arg(p, 2)  r == Arg(p, 3)
     IN  Push(p, IF Ip(p, r).type # T_DIR THEN unlockput(r)
                 ELSE IF parent /\ Tail(elems) = << >> THEN << <<"unlock", r>> >>
                 ELSE << <<"lookup", r, Head(elems)>> >> \o unlockput(r)
                        \o << <<"next", Tail(elems), parent, r>> >>)

next(p) ==
  /\ At(p, "next") /\ OnlyVars
  /\ LET elems == Arg(p, 1)  parent == Arg(p, 2)  r == Arg(p, 3)
     IN  /\ v' = [v EXCEPT ![p][r] = v[p].nx, ![p].nx = NULL]
         /\ Push(p, IF v[p].nx = NULL THEN << >> ELSE << <<"walk", elems, parent, r>> >>)

\* dir_lookup in the directory r; off is the slot of the entry.
lookup(p) ==
  /\ At(p, "lookup")
  /\ LET r == Arg(p, 1)  dp == Ip(p, r)
         found == Entries(disk, dp.inum, Arg(p, 2))
         to == disk[dp.inum].ents[Min(found)].inum
     IN  IF dp.type # T_DIR THEN Panic("dir_lookup not DIR")
         ELSE IF found = {}
         THEN Set(p, "nx", NULL) /\ Pop(p) /\ Static /\ UNCHANGED <<disk, ic>>
         ELSE IF SlotFor(ic, to) = NULL THEN Panic("inode_get: no inodes")
         ELSE /\ ic' = inode_get(ic, to)
              /\ v' = [v EXCEPT ![p].nx = SlotFor(ic, to), ![p].off = Min(found)]
              /\ Pop(p) /\ Static /\ UNCHANGED disk

\* dir_link after its dir_lookup: an entry for inode t in directory r.  create
\* panics where sys_link takes its error path.
dir_link_entry(p) ==
  /\ At(p, "dir_link")
  /\ LET r == Arg(p, 1)  t == Arg(p, 3)
     IN  IF v[p].nx # NULL
         THEN IF Arg(p, 4) THEN Panic("create: dir_link")
              ELSE Set(p, "ok", FALSE) /\ Push(p, << <<"put", "nx">> >>) /\ Static /\ UNCHANGED <<disk, ic>>
         ELSE LogWrite(dir_link(disk, Ip(p, r).inum, Arg(p, 2), Ip(p, t).inum),
                       Set(p, "ok", TRUE) /\ Pop(p) /\ Static /\ UNCHANGED ic)

-----------------------------------------------------------------------------
(* sys_link                                                                  *)

link_ip(p) ==
  /\ At(p, "link_ip") /\ OnlyVars /\ UNCHANGED v
  /\ Push(p, IF v[p].ip = NULL THEN Return(-1)
             ELSE Begin \o << <<"lock", "ip">>, <<"link_type", Arg(p, 1)>> >>)

\* Mutant: the link count and the entry are changed in two transactions.
link_type_TwoTrans(p) ==
  /\ At(p, "link_type") /\ OnlyCache
  /\ IF Ip(p, "ip").type = T_DIR
     THEN Push(p, unlockput("ip") \o Commit \o Return(-1)) /\ UNCHANGED ic
     ELSE /\ ic' = [ic EXCEPT ![v[p].ip].nlink = @ + 1]
          /\ Push(p, << <<"update", "ip">>, <<"unlock", "ip">> >> \o Commit \o Begin
                       \o namex(Arg(p, 1), TRUE, "dp") \o << <<"link_dp">> >>)

link_type(p) ==
  /\ At(p, "link_type") /\ OnlyCache
  /\ IF Ip(p, "ip").type = T_DIR
     THEN Push(p, unlockput("ip") \o Commit \o Return(-1)) /\ UNCHANGED ic
     ELSE /\ ic' = [ic EXCEPT ![v[p].ip].nlink = @ + 1]
          /\ Push(p, << <<"update", "ip">>, <<"unlock", "ip">> >>
                       \o namex(Arg(p, 1), TRUE, "dp") \o << <<"link_dp">> >>)

LinkBad == << <<"lock", "ip">>, <<"link_undo">> >>

link_dp(p) ==
  /\ At(p, "link_dp") /\ OnlyVars /\ UNCHANGED v
  /\ Push(p, IF v[p].dp = NULL THEN LinkBad
             ELSE << <<"lock", "dp">> >> \o link_to("dp", v[p].name, "ip", FALSE) \o << <<"link_done">> >>)

link_done(p) ==
  /\ At(p, "link_done") /\ OnlyVars /\ UNCHANGED v
  /\ Push(p, unlockput("dp") \o (IF v[p].ok THEN << <<"put", "ip">> >> \o Commit \o Return(0) ELSE LinkBad))

link_undo(p) ==
  /\ At(p, "link_undo") /\ OnlyCache
  /\ ic' = [ic EXCEPT ![v[p].ip].nlink = @ - 1]
  /\ Push(p, << <<"update", "ip">> >> \o unlockput("ip") \o Commit \o Return(-1))

-----------------------------------------------------------------------------
(* sys_unlink                                                                *)

UnlinkBad == unlockput("dp") \o Commit \o Return(-1)

unlink_dp(p) ==
  /\ At(p, "unlink_dp") /\ OnlyVars /\ UNCHANGED v
  /\ Push(p, IF v[p].dp = NULL THEN Return(-1)
             ELSE Begin \o << <<"lock", "dp">> >>
                    \o (IF v[p].name \in {".", ".."} THEN UnlinkBad
                        ELSE << <<"lookup", "dp", v[p].name>>, <<"unlink_nx">> >>))

unlink_nx(p) ==
  /\ At(p, "unlink_nx") /\ OnlyVars
  /\ v' = [v EXCEPT ![p].ip = v[p].nx, ![p].nx = NULL]
  /\ Push(p, IF v[p].nx = NULL THEN UnlinkBad ELSE << <<"lock", "ip">>, <<"unlink_ip">> >>)

\* isdirempty, and the write that clears the entry.
unlink_ip(p) ==
  /\ At(p, "unlink_ip")
  /\ LET ip == Ip(p, "ip")  isdir == ip.type = T_DIR
     IN  IF ip.nlink < 1 THEN Panic("unlink: nlink < 1")
         ELSE IF isdir /\ ~isdirempty(disk, ip.inum)
         THEN Push(p, unlockput("ip") \o UnlinkBad) /\ Static /\ UNCHANGED <<disk, ic, v>>
         ELSE LogWrite(EraseDirent(disk, Ip(p, "dp").inum, v[p].off),
                /\ ic' = IF isdir THEN [ic EXCEPT ![v[p].dp].nlink = @ - 1] ELSE ic
                /\ Push(p, (IF isdir THEN << <<"update", "dp">> >> ELSE << >>)
                             \o unlockput("dp") \o << <<"unlink_drop">> >>)
                /\ Static /\ UNCHANGED v)

unlink_drop(p) ==
  /\ At(p, "unlink_drop") /\ OnlyCache
  /\ ic' = [ic EXCEPT ![v[p].ip].nlink = @ - 1]
  /\ Push(p, << <<"update", "ip">> >> \o unlockput("ip") \o Commit \o Return(0))

-----------------------------------------------------------------------------
(* create returns ip locked, or NULL; sys_open, sys_mkdir and sys_chdir.     *)

create_dp(p) ==
  /\ At(p, "create_dp") /\ OnlyVars /\ UNCHANGED v
  /\ Push(p, IF v[p].dp = NULL THEN << >>
             ELSE << <<"lock", "dp">>, <<"lookup", "dp", v[p].name>>, <<"create_nx", Arg(p, 1)>> >>)

create_nx(p) ==
  /\ At(p, "create_nx") /\ OnlyVars
  /\ v' = [v EXCEPT ![p].ip = v[p].nx, ![p].nx = NULL]
  /\ Push(p, IF v[p].nx # NULL
             THEN unlockput("dp") \o << <<"lock", "ip">>, <<"create_exists", Arg(p, 1)>> >>
             ELSE << <<"alloc", Arg(p, 1)>>, <<"lock", "ip">>, <<"create_init", Arg(p, 1)>> >>)

create_exists(p) ==
  /\ At(p, "create_exists") /\ OnlyVars /\ UNCHANGED v
  /\ Push(p, IF Arg(p, 1) = T_FILE /\ Ip(p, "ip").type = T_FILE THEN << >> ELSE unlockput("ip"))

alloc(p) ==
  /\ At(p, "alloc")
  /\ LET inum == Min(FreeInums(disk))
     IN  IF FreeInums(disk) = {} THEN Panic("inode_alloc: no inodes")
         ELSE IF SlotFor(ic, inum) = NULL THEN Panic("inode_get: no inodes")
         ELSE LogWrite(inode_alloc(disk, Arg(p, 1)),
                /\ ic' = inode_get(ic, inum)
                /\ Set(p, "ip", SlotFor(ic, inum))
                /\ Pop(p) /\ Static)

create_init(p) ==
  /\ At(p, "create_init") /\ OnlyCache
  /\ LET isdir == Arg(p, 1) = T_DIR
     IN  /\ ic' = IF isdir THEN [ic EXCEPT ![v[p].ip].nlink = 1, ![v[p].dp].nlink = @ + 1]
                  ELSE [ic EXCEPT ![v[p].ip].nlink = 1]
         /\ Push(p, << <<"update", "ip">> >>
              \o (IF isdir THEN << <<"update", "dp">> >> \o link_to("ip", ".", "ip", TRUE)
                                  \o link_to("ip", "..", "dp", TRUE)
                  ELSE << >>)
              \o link_to("dp", v[p].name, "ip", TRUE) \o unlockput("dp"))

mkdir_ip(p) ==
  /\ At(p, "mkdir_ip") /\ OnlyVars /\ UNCHANGED v
  /\ Push(p, IF v[p].ip = NULL THEN Commit \o Return(-1) ELSE unlockput("ip") \o Commit \o Return(0))

open_ip(p) ==
  /\ At(p, "open_ip") /\ OnlyVars /\ UNCHANGED v
  /\ Push(p, IF v[p].ip = NULL THEN Return(-1)
             ELSE << <<"lock", "ip">>, <<"open_type", Arg(p, 1)>> >>)

open_type(p) ==
  /\ At(p, "open_type") /\ OnlyVars /\ UNCHANGED v
  /\ Push(p, IF Ip(p, "ip").type = T_DIR /\ Arg(p, 1) # {} THEN unlockput("ip") \o Return(-1)
             ELSE << <<"open_file", Arg(p, 1)>> >>)

\* file_alloc and fdalloc; the reference in ip becomes that of the file.
FreeFiles  == {f \in 1 .. NFILE : file[f].ref = 0}
FreeFds(p) == {d \in 1 .. NOFILE : fds[p][d] = 0}

open_file(p) ==
  /\ At(p, "open_file") /\ UNCHANGED <<disk, com, log, made, crashes, panic>>
  /\ LET f == Min(FreeFiles)  d == Min(FreeFds(p))  k == v[p].ip  omode == Arg(p, 1)
     IN  IF k = NULL \/ FreeFiles = {} \/ FreeFds(p) = {}
         THEN /\ Push(p, (IF k = NULL THEN << >> ELSE unlockput("ip")) \o Return(-1))
              /\ UNCHANGED <<ic, file, fds, v, asleep>>
         ELSE /\ file' = [file EXCEPT ![f] = [ref |-> 1, ip |-> k, off |-> 0,
                            readable |-> "w" \notin omode, writable |-> omode \cap {"w", "rw"} # {}]]
              /\ fds' = [fds EXCEPT ![p][d] = f]
              /\ ic' = inode_unlock(ic, k) /\ Wakeup(k)
              /\ Set(p, "ip", NULL) /\ Push(p, Return(d))

chdir_ip(p) ==
  /\ At(p, "chdir_ip") /\ OnlyVars /\ UNCHANGED v
  /\ Push(p, IF v[p].ip = NULL THEN Return(-1) ELSE << <<"lock", "ip">>, <<"chdir_type">> >>)

chdir_type(p) ==
  /\ At(p, "chdir_type") /\ OnlyVars /\ UNCHANGED v
  /\ Push(p, IF Ip(p, "ip").type # T_DIR THEN unlockput("ip") \o Return(-1)
             ELSE << <<"unlock", "ip">>, <<"put", "cwd">>, <<"chdir_set">> >>)

chdir_set(p) ==
  /\ At(p, "chdir_set") /\ OnlyVars
  /\ v' = [v EXCEPT ![p].cwd = v[p].ip, ![p].ip = NULL]
  /\ Push(p, Return(0))

-----------------------------------------------------------------------------
(* sys_close, sys_read, sys_write and sys_fstat.                             *)

BadFd(p, fd) == fd \notin 1 .. NOFILE \/ fds[p][fd] = 0
File(p, fd)  == file[fds[p][fd]]


\* file_close copies the file, gives its entry up and then puts the inode; the
\* descriptor is cleared last.
close(p) ==
  /\ At(p, "close") /\ UNCHANGED <<disk, com, ic, log, fds, asleep, made, crashes, panic>>
  /\ LET fd == Arg(p, 1)
     IN  IF BadFd(p, fd) THEN Push(p, Return(-1)) /\ UNCHANGED <<file, v>>
         ELSE /\ file' = [file EXCEPT ![fds[p][fd]] = NoFile]
              /\ Set(p, "ff", File(p, fd).ip)
              /\ Push(p, Begin \o << <<"put", "ff">> >> \o Commit \o << <<"close_fd", fd>> >>)

close_fd(p) ==
  /\ At(p, "close_fd") /\ UNCHANGED <<disk, com, ic, log, file, v, asleep, made, crashes, panic>>
  /\ fds' = [fds EXCEPT ![p][Arg(p, 1)] = 0]
  /\ Push(p, Return(0))

file_stat(p) ==
  /\ At(p, "file_stat") /\ OnlyVars
  /\ IF BadFd(p, Arg(p, 1)) THEN Push(p, Return(-1)) /\ UNCHANGED v
     ELSE Set(p, "f", File(p, Arg(p, 1)).ip)
            /\ Push(p, << <<"lock", "f">>, <<"unlock", "f">> >> \o Return(0))

file_read(p) ==
  /\ At(p, "file_read") /\ OnlyVars
  /\ LET fd == Arg(p, 1)
     IN  IF BadFd(p, fd) \/ ~File(p, fd).readable THEN Push(p, Return(-1)) /\ UNCHANGED v
         ELSE /\ Set(p, "f", File(p, fd).ip)
              /\ Push(p, << <<"lock", "f">>, <<"inode_read", fd, Arg(p, 2)>>, <<"unlock", "f">>, <<"end">> >>)

\* The size of an inode, in data units or dirents.
Size(inum) == Len(disk[inum].data) + Len(disk[inum].ents)

\* inode_read and the offset file_read moves.
inode_read(p) ==
  /\ At(p, "inode_read") /\ UNCHANGED <<disk, com, ic, log, fds, asleep, made, crashes, panic>>
  /\ LET f == File(p, Arg(p, 1))  inum == ic[f.ip].inum
         n == Min({Arg(p, 2), Size(inum) - f.off})
     IN  /\ v' = [v EXCEPT ![p].ret = IF f.off > Size(inum) THEN -1 ELSE n,
                           ![p].got = SubSeq(disk[inum].data, f.off + 1, f.off + n)]
         /\ file' = [file EXCEPT ![fds[p][Arg(p, 1)]].off = @ + IF n > 0 THEN n ELSE 0]
         /\ Pop(p)

file_write(p) ==
  /\ At(p, "file_write") /\ OnlyVars
  /\ LET fd == Arg(p, 1)  d == Arg(p, 2)
     IN  IF BadFd(p, fd) \/ ~File(p, fd).writable THEN Push(p, Return(-1)) /\ UNCHANGED v
         ELSE /\ v' = [v EXCEPT ![p].f = File(p, fd).ip, ![p].left = d]
              /\ Push(p, << <<"write", fd, Len(d)>> >>)

\* One round of the loop of file_write.
write(p) ==
  /\ At(p, "write") /\ OnlyVars /\ UNCHANGED v
  /\ Push(p, IF ~v[p].ok THEN Return(-1)
             ELSE IF v[p].left = << >> THEN Return(Arg(p, 2))
             ELSE Begin \o << <<"lock", "f">>, <<"inode_write", Arg(p, 1)>>, <<"unlock", "f">> >>
                    \o Commit \o << Head(todo[p]) >>)

\* data with d written at offset off.
Overwrite(data, off, d) ==
  SubSeq(data, 1, off) \o d \o SubSeq(data, off + Len(d) + 1, Len(data))

\* Mutant: the offset of the file is not moved.
inode_write_NoOffset(p) ==
  /\ At(p, "inode_write")
  /\ LET f == File(p, Arg(p, 1))  inum == ic[f.ip].inum
         n == Min({WriteMax, Len(v[p].left)})
         d == SubSeq(v[p].left, 1, n)
     IN  disk' = [disk EXCEPT ![inum].data = Overwrite(@, f.off, d)]
  /\ Set(p, "left", Tail(v[p].left)) /\ Pop(p) /\ Static /\ UNCHANGED ic

\* inode_write of the next piece and the offset file_write moves.
inode_write(p) ==
  /\ At(p, "inode_write")
  /\ LET f == File(p, Arg(p, 1))  inum == ic[f.ip].inum
         n == Min({WriteMax, Len(v[p].left)})
         d == SubSeq(v[p].left, 1, n)
     IN  IF f.off > Size(inum) \/ f.off + n > MAXFILE
         THEN Set(p, "ok", FALSE) /\ Pop(p) /\ Static /\ UNCHANGED <<disk, ic>>
         ELSE LogWrite(inode_update([disk EXCEPT ![inum].data = Overwrite(@, f.off, d)], ic[f.ip]),
                /\ file' = [file EXCEPT ![fds[p][Arg(p, 1)]].off = @ + n]
                /\ Set(p, "left", SubSeq(v[p].left, n + 1, Len(v[p].left)))
                /\ Pop(p) /\ UNCHANGED <<com, ic, log, fds, asleep, made, crashes, panic>>)

-----------------------------------------------------------------------------
\* The call returns n, or what it has put in ret.
return(p) ==
  /\ At(p, "return") /\ OnlyVars
  /\ v' = [v EXCEPT ![p] = [Fresh(v[p].cwd) EXCEPT !.ret = Arg(p, 1)]]
  /\ GoTo(p, << >>)

end(p) ==
  /\ At(p, "end") /\ OnlyVars
  /\ v' = [v EXCEPT ![p] = [Fresh(v[p].cwd) EXCEPT !.ret = v[p].ret, !.got = v[p].got]]
  /\ GoTo(p, << >>)

Step(p) ==
  \/ begin(p) \/ commit(p) \/ lock(p) \/ fill(p) \/ unlock(p) \/ put(p) \/ trunc(p) \/ free(p)
  \/ update(p) \/ start(p) \/ walk(p) \/ enter(p) \/ next(p) \/ lookup(p) \/ dir_link_entry(p)
  \/ link_ip(p) \/ link_type(p) \/ link_dp(p) \/ link_done(p) \/ link_undo(p)
  \/ unlink_dp(p) \/ unlink_nx(p) \/ unlink_ip(p) \/ unlink_drop(p)
  \/ create_dp(p) \/ create_nx(p) \/ create_exists(p) \/ alloc(p) \/ create_init(p)
  \/ mkdir_ip(p) \/ open_ip(p) \/ open_type(p) \/ open_file(p)
  \/ chdir_ip(p) \/ chdir_type(p) \/ chdir_set(p)
  \/ close(p) \/ close_fd(p) \/ file_stat(p) \/ file_read(p) \/ inode_read(p)
  \/ file_write(p) \/ write(p) \/ inode_write(p) \/ return(p) \/ end(p)

\* A thread enters the kernel with the call c, one of the lists above.
Call(p, c) ==
  /\ panic = "none" /\ cpu = Nobody /\ todo[p] = << >>
  /\ made[p] < MaxCalls /\ made' = [made EXCEPT ![p] = @ + 1]
  /\ GoTo(p, c)
  /\ UNCHANGED <<disk, com, ic, log, file, fds, v, asleep, crashes, panic>>

\* The machine loses power and boots: memory is lost, the disk is that of the
\* last commit.
Crash ==
  /\ panic = "none" /\ crashes < Crashes /\ crashes' = crashes + 1
  /\ disk' = com /\ com' = com
  /\ ic' = ic0 /\ log' = Nobody /\ file' = file0 /\ fds' = fds0
  /\ todo' = todo0 /\ v' = v0 /\ cpu' = Nobody /\ asleep' = [p \in Proc |-> Awake]
  /\ UNCHANGED <<made, panic>>

Next ==
  \/ \E p \in Proc : Step(p) \/ \E c \in Calls : Call(p, c)
  \/ Crash

Spec == Init /\ [][Next]_vars

-----------------------------------------------------------------------------
(* Properties.                                                               *)

TypeOK ==
  /\ \A d \in {disk, com} : \A i \in Inum :
       /\ d[i].type \in {T_NONE, T_DIR, T_FILE} /\ d[i].nlink \in Nat
       /\ \A o \in DOMAIN d[i].ents : d[i].ents[o].inum \in 0 .. NDisk
       /\ Len(d[i].data) <= MAXFILE /\ (d[i].type = T_NONE => d[i].ents = << >>)
  /\ \A k \in Slot : ic[k].inum \in 0 .. NDisk /\ ic[k].ref \in Nat /\ ic[k].nlink \in Int
  /\ log \in Proc \cup {Nobody} /\ cpu \in Proc \cup {Nobody}
  /\ \A p \in Proc : asleep[p] \in Awake .. LogChan /\ \A r \in Owning : v[p][r] \in 0 .. NINODE
  /\ \A p \in Proc : \A d \in 1 .. NOFILE : fds[p][d] \in 0 .. NFILE

\* ip->ref "tracks the number of in-memory pointers to the entry": open files,
\* current directories and the variables of calls in progress (inode.h).
Pointers(k) ==
  Cardinality({x \in Proc \X Owning : v[x[1]][x[2]] = k})
    + Cardinality({f \in 1 .. NFILE : file[f].ref > 0 /\ file[f].ip = k})
RefsCounted == \A k \in Slot : ic[k].ref = Pointers(k)

\* An inode is in the cache once only, and a copy that is valid and not locked
\* says what the disk says: what a thread changes it writes before it unlocks.
CacheCoherent ==
  /\ \A k, l \in Slot : ic[k].ref > 0 /\ ic[l].ref > 0 /\ ic[k].inum = ic[l].inum => k = l
  /\ \A k \in Slot : ic[k].ref > 0 /\ ic[k].valid /\ ~ic[k].busy =>
       ic[k].type = disk[ic[k].inum].type /\ ic[k].nlink = disk[ic[k].inum].nlink

Live(d, i) == d[i].type = T_DIR /\ d[i].nlink > 0

\* The entries in use of live directories that count as links, as
\* <<directory, offset>>: all but the "." of each and the ".." of the root.
Links(d) ==
  UNION {{<<j, o>> : o \in {o \in DOMAIN d[j].ents :
                              /\ d[j].ents[o].inum # 0
                              /\ d[j].ents[o].inum = j => d[j].ents[o].name \notin {".", ".."}}} :
           j \in {j \in Inum : Live(d, j)}}

\* In every state recovery can find, the link count of an inode is the number of
\* entries that point to it (the root has one by decree), no entry points to a
\* free inode, and no directory has two entries of one name.
LinksCounted ==
  LET links == Links(com)
      target(x) == com[x[1]].ents[x[2]].inum
  IN  /\ \A x \in links : com[target(x)].type # T_NONE
      /\ \A i \in {i \in Inum : com[i].type # T_NONE} :
           LET used == {o \in DOMAIN com[i].ents : com[i].ents[o].inum # 0}
           IN  /\ com[i].nlink = Cardinality({x \in links : target(x) = i}) + (IF i = ROOTINO THEN 1 ELSE 0)
               /\ Live(com, i) => Cardinality({com[i].ents[o].name : o \in used}) = Cardinality(used)

\* An inode without links is kept for those who have it open, and for nobody else:
\* when it has lost its last reference inode_put has freed it.  After a power loss
\* nobody has it open and nothing frees it.
NoOrphans ==
  log = Nobody /\ crashes = 0 => \A i \in Inum : com[i].type # T_NONE /\ com[i].nlink = 0 => Holds(ic, i) # {}


\* The machine goes on.  Nothing the code guards with KERN_PANIC or KERN_ASSERT
\* happens: no lock of a freed inode, no unlock of one that is not locked, no entry
\* that create finds taken after it has looked.  And a thread never waits while
\* nobody runs that could wake it: no cycle of inode locks and the log, no wakeup
\* lost.
NobodyStuck ==
  /\ panic = "none"
  /\ (\E p \in Proc : todo[p] # << >>) => \E p \in Proc : todo[p] # << >> /\ asleep[p] = Awake

\* The descriptor of a thread outside the kernel is a file that is open and its own.
FilesOwned ==
  \A p \in Proc : todo[p] = << >> =>
    \A d \in 1 .. NOFILE : fds[p][d] # 0 =>
      /\ file[fds[p][d]].ref = 1
      /\ \A q \in Proc, e \in 1 .. NOFILE :
           todo[q] = << >> /\ fds[q][e] = fds[p][d] => q = p /\ e = d

\* The tables in memory are sound through every interleaving: references are
\* counted, cached inodes agree with the disk, and open files have one owner.
TablesSound == TypeOK /\ RefsCounted /\ CacheCoherent /\ FilesOwned

\* Inodes live as long as they are used: link counts agree with directories in
\* all that recovery can find, and an inode without links goes with its last user.
LinksSound == LinksCounted /\ NoOrphans

-----------------------------------------------------------------------------
(* Refinement of NameSpace, where a call changes the disk in one step.       *)

\* The directories of d as sets of entries.
Tree(d) ==
  [i \in Inum |->
     [type |-> d[i].type, nlink |-> d[i].nlink, data |-> d[i].data,
      ents |-> {<<d[i].ents[o].name, d[i].ents[o].inum>> :
                  o \in {o \in DOMAIN d[i].ents : d[i].ents[o].inum # 0}}]]

NS == INSTANCE NameSpace WITH fs <- Tree(com), First <- Tree(Image)

\* What is on the disk after recovery changes by whole file system calls only.
CallsAtomic == NS!Spec
=============================================================================
