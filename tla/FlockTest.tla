------------------------------ MODULE FlockTest ------------------------------
(***************************************************************************)
(* The test program user/flocktest and its helper user/flockchild on the    *)
(* lock engine of Flock.  The two talk through two files: the parent writes *)
(* a mode and a nonce, the child does what the mode says and writes a code  *)
(* with the same nonce.  Every system call is one step and the two programs *)
(* interleave; a blocked flock is taken at the contract of thread_sleep, as *)
(* in FileFlock.                                                            *)
(*                                                                          *)
(* A test is the list of its calls with the results it asserts.  bail is    *)
(* what is left to do of the test when the assertion fails, or Go when the  *)
(* test goes on.                                                            *)
(***************************************************************************)
EXTENDS Flock, SequencesExt

CONSTANTS
  Parent, Child,   \* the two processes
  Crashes          \* how often the machine may be switched off

ASSUME FlockTestAssumption ==
  Pid = {Parent, Child} /\ Parent # Child /\ Crashes \in Nat

\* The modes, and the codes of results; TIMEOUT and NOTYET are not in files.
TRY_SH_NB    == 1
TRY_EX_NB    == 2
ACQ_SH_NB    == 3
ACQ_EX_NB    == 4
TRY_SH_EX_NB == 5
ACQ_SH_BLOCK == 6
ACQ_EX_BLOCK == 7
EXIT         == 9
TIMEOUT      == 9
NOTYET       == -2

LOCK_UN == "UN"

VARIABLES
  fl,       \* the flock_t of TEST_FILE
  held,     \* the lock of every descriptor of TEST_FILE: two of the parent, one of the child
  disk,     \* TEST_FILE exists; the records of the mode and the result file
  todo,     \* the tests the parent still has to do, each a list of steps
  par,      \* child_nonce, helper_pid != -1, and whether the parent sleeps in flock
  ch,       \* the child: where it is, and its variables
  failed,   \* some test_assert failed
  ghost,    \* the request the child of this run answered last; whether the parent took
            \* another record for the answer to its request; whether a sys_spawn failed or
            \* 400 attempts were too few
  crashes

vars == <<fl, held, disk, todo, par, ch, failed, ghost, crashes>>

\* A record is the list of its numbers; a file may be missing or still empty.
Missing == <<0>>
Empty   == << >>
IsRecord(r) == Len(r) = 2

-----------------------------------------------------------------------------
(* The steps of tests.                                                       *)

Go == << <<"go">> >>

Step(op, fd, arg, nb, want, bail) ==
  << [op |-> op, fd |-> fd, arg |-> arg, nb |-> nb, want |-> want, bail |-> bail] >>

Whatever == -2 .. 9
Open(fd, creates)              == Step("open", fd, creates, FALSE, {0}, << >>)
flock(fd, type, want)          == Step("flock", fd, type, FALSE, want, Go)
flockNB(fd, type, want)        == Step("flock", fd, type, TRUE, want, Go)
close(fd)                      == Step("close", fd, NONE, FALSE, Whatever, Go)
FlockOrLeave(fd, type)         == Step("flock", fd, type, FALSE, {0}, close(fd))
helper_start                   == Step("spawn", 0, NONE, FALSE, Whatever, Go)
child_set_mode_with_nonce(m)   == Step("create", 0, NONE, FALSE, Whatever, Go) \o Step("mode", 0, m, FALSE, Whatever, Go)
child_poll_result(want)        == Step("poll", 0, NONE, FALSE, want, Go)
child_wait_for_result(want)    == Step("wait", 0, NONE, FALSE, want, Go)
helper_request(m, want)        == helper_start \o child_set_mode_with_nonce(m) \o child_wait_for_result(want)
unlink(file)                   == Step("unlink", 0, file, FALSE, Whatever, Go)
Content(fd)                    == Step("content", fd, NONE, FALSE, {0}, Go)

Ok    == {0}
Fails == {-1}
NoFd  == 0    \* -1 and 999

test_basic_shared_lock ==
  Open(1, TRUE) \o flock(1, LOCK_SH, Ok) \o flock(1, LOCK_UN, Ok) \o close(1)

test_basic_exclusive_lock ==
  Open(1, FALSE) \o flock(1, LOCK_EX, Ok) \o flock(1, LOCK_UN, Ok) \o close(1)

test_multiple_shared_locks ==
  Open(1, FALSE) \o Open(2, FALSE) \o flock(1, LOCK_SH, Ok) \o flock(2, LOCK_SH, Ok)
    \o flock(1, LOCK_UN, Whatever) \o flock(2, LOCK_UN, Whatever) \o close(1) \o close(2)

test_exclusive_blocks_shared ==
  Open(1, FALSE) \o Open(2, FALSE) \o flock(1, LOCK_EX, Ok) \o flockNB(2, LOCK_SH, Fails)
    \o flock(1, LOCK_UN, Whatever) \o flockNB(2, LOCK_SH, Ok) \o flock(2, LOCK_UN, Whatever) \o close(1) \o close(2)

test_shared_blocks_exclusive ==
  Open(1, FALSE) \o Open(2, FALSE) \o flock(1, LOCK_SH, Ok) \o flockNB(2, LOCK_EX, Fails)
    \o flock(1, LOCK_UN, Whatever) \o flockNB(2, LOCK_EX, Ok) \o flock(2, LOCK_UN, Whatever) \o close(1) \o close(2)

test_lock_upgrade ==
  Open(1, FALSE) \o flock(1, LOCK_SH, Ok) \o flock(1, LOCK_EX, Ok) \o flock(1, LOCK_UN, Whatever) \o close(1)

test_lock_downgrade ==
  Open(1, FALSE) \o flock(1, LOCK_EX, Ok) \o flock(1, LOCK_SH, Ok) \o flock(1, LOCK_UN, Whatever) \o close(1)

test_auto_release_on_close ==
  Open(1, FALSE) \o flock(1, LOCK_EX, Ok) \o close(1)
    \o Open(2, FALSE) \o flockNB(2, LOCK_EX, Ok) \o flock(2, LOCK_UN, Whatever) \o close(2)

test_invalid_fd == flock(NoFd, LOCK_SH, Fails) \o flock(NoFd, LOCK_EX, Fails)

test_write_with_exclusive ==
  Open(1, FALSE) \o flock(1, LOCK_EX, Ok) \o Content(1) \o flock(1, LOCK_UN, Whatever) \o close(1)

test_read_with_shared ==
  Open(1, FALSE) \o flock(1, LOCK_SH, Ok) \o Content(1) \o flock(1, LOCK_UN, Whatever) \o close(1)

test_multiprocess_exclusive_blocks_child ==
  Open(1, TRUE) \o FlockOrLeave(1, LOCK_EX) \o helper_request(TRY_SH_EX_NB, Ok) \o flock(1, LOCK_UN, Whatever) \o close(1)

test_multiprocess_shared_blocks_child_exclusive ==
  Open(1, TRUE) \o FlockOrLeave(1, LOCK_SH) \o helper_request(TRY_EX_NB, Ok) \o flock(1, LOCK_UN, Whatever) \o close(1)

test_multiprocess_child_succeeds_after_release ==
  Open(1, TRUE) \o FlockOrLeave(1, LOCK_EX) \o flock(1, LOCK_UN, Whatever) \o close(1) \o helper_request(ACQ_EX_NB, Ok)

\* The parent holds a lock, the child asks for mode m and must not have got it
\* before the parent lets go, but after it.
Blocking(type, m) ==
  Open(1, TRUE) \o FlockOrLeave(1, type) \o helper_start \o child_set_mode_with_nonce(m)
    \o child_poll_result({NOTYET}) \o flock(1, LOCK_UN, Whatever) \o child_wait_for_result(Ok) \o close(1)

test_blocking_exclusive_waits_for_shared_release == Blocking(LOCK_SH, ACQ_EX_BLOCK)
test_blocking_shared_waits_for_exclusive_release == Blocking(LOCK_EX, ACQ_SH_BLOCK)

\* helper_stop does nothing without a helper; then the files are removed.
helper_stop == Step("stop", 0, NONE, FALSE, Whatever, Go)

run_all_tests ==
  <<test_basic_shared_lock, test_basic_exclusive_lock, test_multiple_shared_locks, test_exclusive_blocks_shared,
    test_shared_blocks_exclusive, test_lock_upgrade, test_lock_downgrade, test_auto_release_on_close, test_invalid_fd,
    test_write_with_exclusive, test_read_with_shared, test_multiprocess_exclusive_blocks_child,
    test_multiprocess_shared_blocks_child_exclusive, test_multiprocess_child_succeeds_after_release,
    test_blocking_exclusive_waits_for_shared_release, test_blocking_shared_waits_for_exclusive_release,
    helper_stop, unlink("test") \o unlink("mode") \o unlink("res")>>

-----------------------------------------------------------------------------
Fresh == [at |-> "none", mode |-> 0, nonce |-> 0, last |-> -1, code |-> 1, r1 |-> 0]

Booted ==
  /\ fl = flock_init
  /\ held = [d \in {1, 2, Child} |-> NONE]
  /\ todo = run_all_tests
  /\ par = [nonce |-> 1, helper |-> FALSE, asleep |-> FALSE]
  /\ ch = Fresh
  /\ failed = FALSE
  /\ ghost = [answered |-> 0, stale |-> FALSE, fault |-> FALSE]

Init == Booted /\ disk = [test |-> FALSE, mode |-> Missing, res |-> Missing] /\ crashes = 0

-----------------------------------------------------------------------------
(* file_flock and file_close for descriptor d; <<flock_t, lock held, result>>,*)
(* where the result Sleep means that the thread goes to sleep.                *)

Sleep == 1

file_flock(d, pid, type, nb) ==
  LET f == IF held[d] = NONE THEN fl ELSE flock_release(fl, held[d])
  IN  IF type = LOCK_UN THEN <<f, NONE, 0>>
      ELSE IF held[d] = type THEN <<fl, type, 0>>
      ELSE IF ~MustWait(f, type) THEN <<Grant(f, type), type, 0>>
      ELSE IF nb THEN <<f, NONE, -1>>
      ELSE <<StartWait(f, pid, type), NONE, Sleep>>

\* The thread finds the lock free after it slept.
Resumed(pid, type) == <<Grant(EndWait(fl, pid, type), type), type, 0>>

file_close(d) == IF held[d] = NONE THEN fl ELSE flock_release(fl, held[d])

-----------------------------------------------------------------------------
(* The parent.                                                               *)

\* The nonce of the last request.
Nonce == par.nonce - 1

AtParent(op) == todo # << >> /\ ~par.asleep /\ Head(Head(todo)).op = op
Now == Head(Head(todo))

\* The list that is left when the test goes on with seq; an empty test is over.
Then(seq) == IF seq = << >> THEN Tail(todo) ELSE <<seq>> \o Tail(todo)

\* test_assert on the result r of the current step.
Returned(r) ==
  /\ failed' = (failed \/ r \notin Now.want)
  /\ todo' = Then(IF r \notin Now.want /\ Now.bail # Go THEN Now.bail ELSE Tail(Head(todo)))

ParentOpen ==
  /\ AtParent("open")
  /\ LET ok == disk.test \/ Now.arg
     IN  disk' = [disk EXCEPT !.test = ok] /\ Returned(IF ok THEN 0 ELSE -1)
  /\ UNCHANGED <<fl, held, par, ch, ghost, crashes>>

ParentFlock ==
  /\ AtParent("flock")
  /\ IF Now.fd = NoFd
     THEN Returned(-1) /\ UNCHANGED <<fl, held, par>>
     ELSE LET r == file_flock(Now.fd, Parent, Now.arg, Now.nb)
          IN  /\ fl' = r[1] /\ held' = [held EXCEPT ![Now.fd] = r[2]]
              /\ IF r[3] = Sleep
                 THEN par' = [par EXCEPT !.asleep = TRUE] /\ UNCHANGED <<todo, failed>>
                 ELSE Returned(r[3]) /\ UNCHANGED par
  /\ UNCHANGED <<disk, ch, ghost, crashes>>

ParentWakes ==
  /\ par.asleep /\ ~MustWait(fl, Now.arg)
  /\ LET r == Resumed(Parent, Now.arg)
     IN  fl' = r[1] /\ held' = [held EXCEPT ![Now.fd] = r[2]] /\ Returned(r[3])
  /\ par' = [par EXCEPT !.asleep = FALSE]
  /\ UNCHANGED <<disk, ch, ghost, crashes>>

ParentClose ==
  /\ AtParent("close")
  /\ fl' = file_close(Now.fd) /\ held' = [held EXCEPT ![Now.fd] = NONE]
  /\ Returned(0)
  /\ UNCHANGED <<disk, par, ch, ghost, crashes>>

\* read and write with a lock held, and the removal of a file.
ParentFile ==
  /\ AtParent("content") \/ AtParent("unlink")
  /\ disk' = IF Now.op = "content" THEN disk
             ELSE IF Now.arg = "test" THEN [disk EXCEPT !.test = FALSE] ELSE [disk EXCEPT ![Now.arg] = Missing]
  /\ Returned(0)
  /\ UNCHANGED <<fl, held, par, ch, ghost, crashes>>

\* helper_start: spawn returns -1 when it fails, which is not >= NUM_IDS, so
\* the test goes on as if there were a child.
ParentSpawn ==
  /\ AtParent("spawn")
  /\ \/ par.helper /\ UNCHANGED <<par, ch, ghost>>
     \/ /\ ~par.helper
        /\ par' = [par EXCEPT !.helper = TRUE] /\ ch' = [Fresh EXCEPT !.at = "read"]
        /\ UNCHANGED ghost
     \/ ~par.helper /\ ghost' = [ghost EXCEPT !.fault = TRUE] /\ UNCHANGED <<par, ch>>
  /\ Returned(0)
  /\ UNCHANGED <<fl, held, disk, crashes>>

\* child_set_mode_with_nonce: the file may be created first, then it is written.
ParentCreate ==
  /\ AtParent("create")
  /\ par' = [par EXCEPT !.nonce = @ + 1]
  /\ disk' = [disk EXCEPT !.mode = IF @ = Missing THEN Empty ELSE @]
  /\ Returned(0)
  /\ UNCHANGED <<fl, held, ch, ghost, crashes>>

ParentMode ==
  /\ AtParent("mode")
  /\ disk' = [disk EXCEPT !.mode = <<Now.arg, Nonce>>]
  /\ Returned(0)
  /\ UNCHANGED <<fl, held, par, ch, ghost, crashes>>

\* Mutant: the nonce of the record is not compared.
Ready_AnyNonce(n) == IsRecord(disk.res)

\* Whether the result file answers the request with nonce n.
Ready(n) == IsRecord(disk.res) /\ disk.res[2] = n

Taken == [ghost EXCEPT !.stale = @ \/ ghost.answered # Nonce]

ParentPoll ==
  /\ AtParent("poll")
  /\ ghost' = IF Ready(Nonce) THEN Taken ELSE ghost
  /\ Returned(IF Ready(Nonce) THEN disk.res[1] ELSE NOTYET)
  /\ UNCHANGED <<fl, held, disk, par, ch, crashes>>

\* The loop of child_wait_for_result, at the attempt that finds the result.
ParentWait ==
  /\ AtParent("wait") /\ Ready(Nonce)
  /\ ghost' = Taken
  /\ Returned(disk.res[1])
  /\ UNCHANGED <<fl, held, disk, par, ch, crashes>>

\* The loop when its last attempt found nothing.
ParentGivesUp ==
  /\ AtParent("wait") /\ ~Ready(Nonce)
  /\ ghost' = [ghost EXCEPT !.fault = TRUE]
  /\ Returned(TIMEOUT)
  /\ UNCHANGED <<fl, held, disk, par, ch, crashes>>

ParentStop ==
  /\ AtParent("stop")
  /\ todo' = IF par.helper THEN <<child_set_mode_with_nonce(EXIT) \o child_wait_for_result(Whatever)>> \o Tail(todo)
             ELSE Tail(todo)
  /\ UNCHANGED <<fl, held, disk, par, ch, failed, ghost, crashes>>

ParentStep ==
  \/ ParentOpen \/ ParentFlock \/ ParentWakes \/ ParentClose \/ ParentFile \/ ParentSpawn
  \/ ParentCreate \/ ParentMode \/ ParentPoll \/ ParentWait \/ ParentGivesUp \/ ParentStop

-----------------------------------------------------------------------------
(* The child.  Reading a record it has seen, or none, leads back to reading. *)

\* want and expect_ok of the switch; 0 for the default case.
Want(m) ==
  CASE m \in {TRY_SH_NB, ACQ_SH_NB, ACQ_SH_BLOCK} -> LOCK_SH
    [] m \in {TRY_EX_NB, ACQ_EX_NB, ACQ_EX_BLOCK} -> LOCK_EX
    [] OTHER -> BAD

NonBlocking(m) == m \in {TRY_SH_NB, TRY_EX_NB, ACQ_SH_NB, ACQ_EX_NB}
ExpectOk(m)    == m \in {ACQ_SH_NB, ACQ_EX_NB, ACQ_SH_BLOCK, ACQ_EX_BLOCK}
Code(m, r)     == IF (IF ExpectOk(m) THEN r = 0 ELSE r = -1) THEN 0 ELSE 1

ChildRead ==
  /\ ch.at = "read" /\ IsRecord(disk.mode) /\ disk.mode[2] # ch.last
  /\ ch' = [ch EXCEPT !.mode = disk.mode[1], !.nonce = disk.mode[2], !.last = disk.mode[2],
                      !.code = IF disk.mode[1] = EXIT THEN 0 ELSE 1,
                      !.at = IF disk.mode[1] = EXIT THEN "create" ELSE "open"]
  /\ UNCHANGED <<fl, held, disk, todo, par, failed, ghost, crashes>>

ChildOpen ==
  /\ ch.at = "open"
  /\ disk' = [disk EXCEPT !.test = TRUE]
  /\ ch' = [ch EXCEPT !.at = IF ch.mode = TRY_SH_EX_NB THEN "first" ELSE "flock"]
  /\ UNCHANGED <<fl, held, todo, par, failed, ghost, crashes>>

\* The two requests of MODE_TRY_SH_EX_NB.
ChildTryBoth ==
  /\ ch.at \in {"first", "second"}
  /\ LET r == file_flock(Child, Child, IF ch.at = "first" THEN LOCK_SH ELSE LOCK_EX, TRUE)
     IN  /\ fl' = r[1] /\ held' = [held EXCEPT ![Child] = r[2]]
         /\ ch' = IF ch.at = "first" THEN [ch EXCEPT !.at = "second", !.r1 = r[3]]
                  ELSE [ch EXCEPT !.at = "close", !.code = IF ch.r1 = -1 /\ r[3] = -1 THEN 0 ELSE 1]
  /\ UNCHANGED <<disk, todo, par, failed, ghost, crashes>>

ChildFlock ==
  /\ ch.at = "flock"
  /\ LET r == file_flock(Child, Child, Want(ch.mode), NonBlocking(ch.mode))
     IN  /\ fl' = r[1] /\ held' = [held EXCEPT ![Child] = r[2]]
         /\ ch' = [ch EXCEPT !.at = IF r[3] = Sleep THEN "asleep" ELSE IF r[3] = 0 THEN "unlock" ELSE "close",
                             !.code = Code(ch.mode, r[3])]
  /\ UNCHANGED <<disk, todo, par, failed, ghost, crashes>>

ChildWakes ==
  /\ ch.at = "asleep" /\ ~MustWait(fl, Want(ch.mode))
  /\ LET r == Resumed(Child, Want(ch.mode))
     IN  fl' = r[1] /\ held' = [held EXCEPT ![Child] = r[2]]
  /\ ch' = [ch EXCEPT !.at = "unlock", !.code = Code(ch.mode, 0)]
  /\ UNCHANGED <<disk, todo, par, failed, ghost, crashes>>

\* Mutant: a lock that was got is kept when the file is closed.
ChildClose_KeepsLock ==
  /\ ch.at \in {"unlock", "close"}
  /\ UNCHANGED <<fl, held>>
  /\ ch' = [ch EXCEPT !.at = IF ch.at = "unlock" THEN "close" ELSE "create"]
  /\ UNCHANGED <<disk, todo, par, failed, ghost, crashes>>

\* flock(fd, LOCK_UN) where the lock was got, and close.
ChildClose ==
  /\ ch.at \in {"unlock", "close"}
  /\ fl' = file_close(Child) /\ held' = [held EXCEPT ![Child] = NONE]
  /\ ch' = [ch EXCEPT !.at = IF ch.at = "unlock" THEN "close" ELSE "create"]
  /\ UNCHANGED <<disk, todo, par, failed, ghost, crashes>>

\* write_result_with_nonce: the file may be created first, then it is written.
ChildResult ==
  /\ ch.at \in {"create", "write"}
  /\ IF ch.at = "create"
     THEN /\ disk' = [disk EXCEPT !.res = IF @ = Missing THEN Empty ELSE @]
          /\ ch' = [ch EXCEPT !.at = "write"] /\ UNCHANGED ghost
     ELSE /\ disk' = [disk EXCEPT !.res = <<ch.code, ch.nonce>>]
          /\ ch' = [ch EXCEPT !.at = IF ch.mode = EXIT THEN "exit" ELSE "read"]
          /\ ghost' = [ghost EXCEPT !.answered = ch.nonce]
  /\ UNCHANGED <<fl, held, todo, par, failed, crashes>>

ChildStep == ChildRead \/ ChildOpen \/ ChildTryBoth \/ ChildFlock \/ ChildWakes \/ ChildClose \/ ChildResult

-----------------------------------------------------------------------------
\* The machine is switched off, and the test runs again on the same disk.
Crash ==
  /\ crashes < Crashes /\ crashes' = crashes + 1
  /\ fl' = flock_init /\ held' = [d \in {1, 2, Child} |-> NONE]
  /\ todo' = run_all_tests /\ par' = [nonce |-> 1, helper |-> FALSE, asleep |-> FALSE]
  /\ ch' = Fresh /\ failed' = FALSE /\ ghost' = [answered |-> 0, stale |-> FALSE, fault |-> FALSE]
  /\ UNCHANGED disk

Next == ParentStep \/ ChildStep \/ Crash

Spec == Init /\ [][Next]_vars

\* yield passes the CPU to the next process of the ready queue, and a thread
\* that sleeps on the lock is woken when the lock is released.
FairSpec == Spec /\ WF_vars(ParentStep) /\ WF_vars(ChildStep)

-----------------------------------------------------------------------------
\* No assertion of flocktest.c fails, however the two programs interleave, unless
\* the helper could not be spawned, was too slow, or an interrupted run has left
\* its files.
AllTestsPass == failed => ghost.fault \/ crashes > 0

\* A result the parent takes for the answer to a request was written by the
\* child of this run for that request (the nonces of flocktest.c and
\* flockchild.c), however late answers come and whether or not there is a child,
\* unless an interrupted run has left its files.
ResultsFresh == ghost.stale => crashes > 0

\* The parent comes to its end even with late answers, failing spawns and what
\* an interrupted run left on the disk: it never sleeps for good on the lock.
ParentEnds == <>(todo = << >>)

\* Without these faults the helper comes to its end too.
HelperEnds == [](~ghost.fault /\ crashes = 0) => <>(ch.at = "exit")

\* The two programs never wait for each other for good, neither for the lock nor
\* for a record (flock, child_wait_for_result, the loop of flockchild).
BothEnd == ParentEnds /\ HelperEnds
==============================================================================
