------------------------------ MODULE FileLocks ------------------------------
(***************************************************************************)
(* The path of open(2), flock(2) and close(2) through sysfile.c, file.c,    *)
(* inode.c and flock.c: the inode cache with its reference counts and one   *)
(* flock_t per entry, the table of open files with the lock each of them    *)
(* holds, and the descriptors of every process.                             *)
(*                                                                          *)
(* One action is one critical section of the code (of inode_cache.lock,     *)
(* ftable.lock or fl->lock) together with the private code of the calling   *)
(* thread around it.  A field of a struct file is private to the process    *)
(* whose descriptor points to it: nothing calls file_dup and there is no    *)
(* fork, so no struct file is ever shared.                                  *)
(*                                                                          *)
(* How a thread sleeps and is woken is left to the modules that extend this *)
(* one: AcquireBlocked and ResumeBlocked end in thread_sleep, and a release *)
(* calls thread_wakeup when NeedWakeup says so.                             *)
(***************************************************************************)
EXTENDS Flock

CONSTANTS
  Inode,     \* the entries of inode_cache, NINODE of them
  Inum,      \* the inode numbers of the files on disk
  File,      \* the entries of ftable, NFILE of them
  NOFILE,    \* open files per process
  Nil        \* a null pointer

ASSUME FileLocksAssumption ==
  /\ IsFiniteSet(Inode) /\ IsFiniteSet(File)
  /\ NOFILE \in Nat
  /\ Nil \notin Inode /\ Nil \notin File /\ Nil \notin Inum

VARIABLES
  inode,      \* inode[i]: the number and the reference count of cache entry i
  flock,      \* flock[i]: the flock_t of cache entry i
  file,       \* file[f]: reference count, inode and lock held of open file f
  openfiles,  \* openfiles[p]: the struct file pointers in p's descriptors
  pc,         \* pc[p]: where p is in the system call it executes
  call        \* call[p]: the arguments and local variables of that call

dataVars == <<inode, flock, file, openfiles, pc, call>>

(***************************************************************************)
(* Where a thread can be between two critical sections:                     *)
(*   user      in user mode                                                 *)
(*   open      sys_open has its inode reference, file_alloc comes next      *)
(*   acquire   file_flock is about to call flock_acquire                    *)
(*   wait      in the while loop of try_acquire_shared or _exclusive        *)
(*   release   file_close has freed the slot and is about to flock_release  *)
(*   put       file_close or sys_open is about to inode_put                 *)
(***************************************************************************)
Place == {"user", "open", "acquire", "wait", "release", "put"}

Call == [file : File \cup {Nil}, ip : Inode \cup {Nil},
         type : Held \cup {BAD}, nb : BOOLEAN]

NoCall == [file |-> Nil, ip |-> Nil, type |-> NONE, nb |-> FALSE]

DataInit ==
  /\ inode     = [i \in Inode |-> [inum |-> Nil, ref |-> 0]]
  /\ flock     = [i \in Inode |-> flock_init]
  /\ file      = [f \in File |-> [ref |-> 0, ip |-> Nil, holding |-> NONE]]
  /\ openfiles = [p \in Pid |-> {}]
  /\ pc        = [p \in Pid |-> "user"]
  /\ call      = [p \in Pid |-> NoCall]

\* Thread p moves on to place l with local variables c.
Goto(p, l, c) ==
  /\ pc'   = [pc EXCEPT ![p] = l]
  /\ call' = [call EXCEPT ![p] = c]

Return(p) == Goto(p, "user", NoCall)

-----------------------------------------------------------------------------
(* sys_open                                                                  *)

\* inode_get finds the file in the cache.
GetCached(p, n, i) ==
  /\ pc[p] = "user"
  /\ inode[i].ref > 0 /\ inode[i].inum = n
  /\ inode' = [inode EXCEPT ![i].ref = @ + 1]
  /\ Goto(p, "open", [NoCall EXCEPT !.ip = i])
  /\ UNCHANGED <<flock, file, openfiles>>

\* Mutant: an unused entry is recycled although the file is cached.
GetRecycled_NoScan(p, n, i) ==
  /\ pc[p] = "user"
  /\ inode[i].ref = 0
  /\ inode' = [inode EXCEPT ![i] = [inum |-> n, ref |-> 1]]
  /\ flock' = [flock EXCEPT ![i] = flock_init]
  /\ Goto(p, "open", [NoCall EXCEPT !.ip = i])
  /\ UNCHANGED <<file, openfiles>>

\* inode_get recycles an unused entry; without one the kernel panics.
GetRecycled(p, n, i) ==
  /\ pc[p] = "user"
  /\ \A k \in Inode : ~ (inode[k].ref > 0 /\ inode[k].inum = n)
  /\ inode[i].ref = 0
  /\ inode' = [inode EXCEPT ![i] = [inum |-> n, ref |-> 1]]
  /\ flock' = [flock EXCEPT ![i] = flock_init]
  /\ Goto(p, "open", [NoCall EXCEPT !.ip = i])
  /\ UNCHANGED <<file, openfiles>>

\* file_alloc and fdalloc succeed and sys_open fills in the struct file.
OpenFile(p, f) ==
  /\ pc[p] = "open"
  /\ file[f].ref = 0
  /\ Cardinality(openfiles[p]) < NOFILE
  /\ file' = [file EXCEPT ![f] = [ref |-> 1, ip |-> call[p].ip, holding |-> NONE]]
  /\ openfiles' = [openfiles EXCEPT ![p] = @ \cup {f}]
  /\ Return(p)
  /\ UNCHANGED <<inode, flock>>

\* Mutant: the error path forgets the inode reference.
OpenFails_NoPut(p) ==
  /\ pc[p] = "open"
  /\ Return(p)
  /\ UNCHANGED <<inode, flock, file, openfiles>>

\* A check on the inode, file_alloc or fdalloc fails: the reference is dropped.
OpenFails(p) ==
  /\ pc[p] = "open"
  /\ Goto(p, "put", call[p])
  /\ UNCHANGED <<inode, flock, file, openfiles>>

\* The inode_put that ends a failed sys_open and every sys_close.  sys_close
\* clears the descriptor after it.
Put(p) ==
  /\ pc[p] = "put"
  /\ inode' = [inode EXCEPT ![call[p].ip].ref = @ - 1]
  /\ openfiles' = [openfiles EXCEPT ![p] = @ \ {call[p].file}]
  /\ Return(p)
  /\ UNCHANGED <<flock, file>>

-----------------------------------------------------------------------------
(* sys_flock                                                                 *)

\* The caller of sys_flock or sys_close, with a descriptor for f.
Calls(p, f) == pc[p] = "user" /\ f \in openfiles[p]

\* file_flock(f, LOCK_UN) with a lock to release.
Unlock(p, f) ==
  /\ Calls(p, f)
  /\ file[f].holding # NONE
  /\ flock' = [flock EXCEPT ![file[f].ip] = flock_release(@, file[f].holding)]
  /\ file' = [file EXCEPT ![f].holding = NONE]
  /\ UNCHANGED <<inode, openfiles, pc, call>>

\* file_flock(f, type) without a lock on f.
Lock(p, f, type, nb) ==
  /\ Calls(p, f)
  /\ file[f].holding = NONE
  /\ Goto(p, "acquire", [file |-> f, ip |-> file[f].ip, type |-> type, nb |-> nb])
  /\ UNCHANGED <<inode, flock, file, openfiles>>

\* file_flock(f, type) with another type of lock on f: it is released first.
Convert(p, f, type, nb) ==
  /\ Calls(p, f)
  /\ file[f].holding \notin {NONE, type}
  /\ flock' = [flock EXCEPT ![file[f].ip] = flock_release(@, file[f].holding)]
  /\ file' = [file EXCEPT ![f].holding = NONE]
  /\ Goto(p, "acquire", [file |-> f, ip |-> file[f].ip, type |-> type, nb |-> nb])
  /\ UNCHANGED <<inode, openfiles>>

\* flock_acquire takes the lock at once.
AcquireGranted(p) ==
  /\ pc[p] = "acquire" /\ call[p].type \in LockType
  /\ ~ MustWait(flock[call[p].ip], call[p].type)
  /\ flock' = [flock EXCEPT ![call[p].ip] = Grant(@, call[p].type)]
  /\ file' = [file EXCEPT ![call[p].file].holding = call[p].type]
  /\ Return(p)
  /\ UNCHANGED <<inode, openfiles>>

\* flock_acquire returns -1: an invalid operation, or LOCK_NB and it would block.
AcquireRefused(p) ==
  /\ pc[p] = "acquire"
  /\ \/ call[p].type \notin LockType
     \/ call[p].nb /\ MustWait(flock[call[p].ip], call[p].type)
  /\ Return(p)
  /\ UNCHANGED <<inode, flock, file, openfiles>>

\* flock_acquire queues the request and calls thread_sleep.
AcquireBlocked(p) ==
  /\ pc[p] = "acquire" /\ call[p].type \in LockType /\ ~ call[p].nb
  /\ MustWait(flock[call[p].ip], call[p].type)
  /\ flock' = [flock EXCEPT ![call[p].ip] = StartWait(@, p, call[p].type)]
  /\ Goto(p, "wait", call[p])
  /\ UNCHANGED <<inode, file, openfiles>>

\* Back from thread_sleep: the while condition is false and the lock is taken.
ResumeGranted(p) ==
  /\ pc[p] = "wait"
  /\ ~ MustWait(flock[call[p].ip], call[p].type)
  /\ flock' = [flock EXCEPT ![call[p].ip] =
                 Grant(EndWait(@, p, call[p].type), call[p].type)]
  /\ file' = [file EXCEPT ![call[p].file].holding = call[p].type]
  /\ Return(p)
  /\ UNCHANGED <<inode, openfiles>>

\* Back from thread_sleep: the while condition still holds.
ResumeBlocked(p) ==
  /\ pc[p] = "wait"
  /\ MustWait(flock[call[p].ip], call[p].type)
  /\ UNCHANGED dataVars

-----------------------------------------------------------------------------
(* sys_close                                                                 *)

\* file_close frees the slot of f and keeps a copy of it.
CloseFile(p, f) ==
  /\ Calls(p, f)
  /\ file[f].ref > 0
  /\ file' = [file EXCEPT ![f].ref = 0]
  /\ Goto(p, IF file[f].holding = NONE THEN "put" ELSE "release",
          [file |-> f, ip |-> file[f].ip, type |-> file[f].holding, nb |-> FALSE])
  /\ UNCHANGED <<inode, flock, openfiles>>

\* file_close releases the lock recorded in its copy.
CloseRelease(p) ==
  /\ pc[p] = "release"
  /\ flock' = [flock EXCEPT ![call[p].ip] = flock_release(@, call[p].type)]
  /\ Goto(p, "put", call[p])
  /\ UNCHANGED <<inode, file, openfiles>>
=============================================================================
