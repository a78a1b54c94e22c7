--------------------------- MODULE FlockSchedProofs --------------------------
(***************************************************************************)
(* Proofs about FlockSched for every number of threads, open files and      *)
(* inode cache entries: the ready queue of Sched stays sound although       *)
(* thread_wakeup may enqueue a thread that is on it already, and every step *)
(* of the lock path on this scheduler is one that the contract of sleep and *)
(* wakeup in FileFlock allows.                                              *)
(***************************************************************************)
EXTENDS FlockSched, SchedProofs

USE DEF TSTATE_READY, TSTATE_RUN, TSTATE_SLEEP, TSTATE_DEAD

-----------------------------------------------------------------------------
(* The scheduler when the first process runs.                                *)

\* The scheduler after boot is sound, and nobody sleeps.
LEMMA BootSound ==
  SchedSound(kern_main) /\ \A t \in Thread : kern_main.state[t] # TSTATE_SLEEP
<1> DEFINE i == thread_init(Idle)
           m == [i EXCEPT !.state = [@ EXCEPT ![Idle] = TSTATE_READY],
                          !.chan = [@ EXCEPT ![Idle] = NoChan]]
           e == tqueue_enqueue(m, Idle)
           x == tqueue_remove(e, Idle)
           none == [t \in Thread |-> Null]
<1>1. kern_main = SwitchTo(x, Idle)
  BY DEF kern_main, thread_spawn
<1>2. Idle \in Thread /\ Null \notin Thread /\ Null \in Link
  BY FlockSchedAssumption, Threads
<1>3. m = [head |-> Null, tail |-> Null, next |-> none, prev |-> none,
           state |-> [t \in Thread |-> IF t = Idle THEN TSTATE_READY ELSE TSTATE_DEAD],
           chan |-> [t \in Thread |-> NoChan], curid |-> Idle]
  <2>1. i = [head |-> Null, tail |-> Null, next |-> none, prev |-> none,
             state |-> [t \in Thread |-> TSTATE_DEAD],
             chan |-> [t \in Thread |-> NoChan], curid |-> Idle]
    BY DEF thread_init
  <2>2. /\ [[t \in Thread |-> TSTATE_DEAD] EXCEPT ![Idle] = TSTATE_READY]
             = [t \in Thread |-> IF t = Idle THEN TSTATE_READY ELSE TSTATE_DEAD]
        /\ [[t \in Thread |-> NoChan] EXCEPT ![Idle] = NoChan] = [t \in Thread |-> NoChan]
    BY Zenon, <1>2
  <2>3. m = [i EXCEPT !.state = [@ EXCEPT ![Idle] = TSTATE_READY],
                      !.chan = [@ EXCEPT ![Idle] = NoChan]]
    OBVIOUS
  <2> HIDE DEF i, none, m
  <2> QED
    BY Zenon, <2>1, <2>2, <2>3
<1>4. e = [m EXCEPT !.prev = [@ EXCEPT ![Idle] = Null], !.next = [@ EXCEPT ![Idle] = Null],
                    !.head = Idle, !.tail = Idle]
  <2>1. m.tail = Null
    BY Zenon, <1>3
  <2> HIDE DEF m
  <2> QED
    BY <2>1 DEF tqueue_enqueue
<1> HIDE DEF m
<1>5. e = [head |-> Idle, tail |-> Idle, next |-> none, prev |-> none,
           state |-> [t \in Thread |-> IF t = Idle THEN TSTATE_READY ELSE TSTATE_DEAD],
           chan |-> [t \in Thread |-> NoChan], curid |-> Idle]
  <2>1. [none EXCEPT ![Idle] = Null] = none
    BY <1>2
  <2> HIDE DEF e, none
  <2> QED
    BY Zenon, <1>3, <1>4, <2>1
<1> HIDE DEF e
<1>6. e.prev[Idle] = Null /\ e.next[Idle] = Null
  BY <1>2, <1>5
<1>7. x = [e EXCEPT !.head = Null, !.tail = Null,
                    !.prev = [t \in Thread |-> IF t = Idle THEN Null ELSE @[t]],
                    !.next = [t \in Thread |-> IF t = Idle THEN Null ELSE @[t]]]
  BY Zenon, <1>2, <1>6 DEF tqueue_remove
<1> HIDE DEF x
<1>8. /\ x.head = Null /\ x.tail = Null /\ x.curid = Idle
      /\ x.next \in [Thread -> Link] /\ x.prev \in [Thread -> Link]
      /\ x.state = [t \in Thread |-> IF t = Idle THEN TSTATE_READY ELSE TSTATE_DEAD]
      /\ x.chan = [t \in Thread |-> NoChan]
  BY <1>2, <1>5, <1>7
<1>9. x \in SchedT
  BY Zenon, <1>2, <1>5, <1>7 DEF SchedT
<1>10. Chain(x, << >>) /\ AllReady(x, << >>)
  BY <1>8 DEF Chain, AllReady
<1>11. Dispatches(x, Idle)
  BY <1>2, <1>8, <1>9, <1>10 DEF Dispatches
<1>12. PICK u : u = SwitchTo(x, Idle)
  OBVIOUS
<1>13. SchedSound(u) /\ u.state = [x.state EXCEPT ![Idle] = TSTATE_RUN]
  BY ZenonT(40), <1>11, <1>12, SwitchSound
<1> QED
  BY <1>1, <1>2, <1>8, <1>12, <1>13

-----------------------------------------------------------------------------
(* The lock path.                                                            *)

\* What FileLocks keeps on any scheduler: an open file and a call in progress
\* have an inode, so that what they sleep on or wake is the flock_t of one.
DataSound ==
  /\ pc \in [Pid -> Place] /\ call \in [Pid -> Call]
  /\ file \in [File -> [ref : {0, 1}, ip : Inode \cup {Nil}, holding : Held]]
  /\ openfiles \in [Pid -> SUBSET File]
  /\ \A p \in Pid : \A f \in openfiles[p] : file[f].ip \in Inode
  /\ \A p \in Pid : pc[p] # "user" => call[p].ip \in Inode
  /\ \A p \in Pid : pc[p] = "wait" => call[p].type \in Held

\* The steps of FileLocks, whatever the thread layer does with them.
DataStep(p) ==
  \/ \E n \in Inum, i \in Inode : GetCached(p, n, i) \/ GetRecycled(p, n, i)
  \/ \E f \in File : OpenFile(p, f) \/ Unlock(p, f) \/ CloseFile(p, f)
  \/ \E f \in File, type \in {LOCK_SH, LOCK_EX, BAD}, nb \in BOOLEAN :
       Lock(p, f, type, nb) \/ Convert(p, f, type, nb)
  \/ OpenFails(p) \/ AcquireGranted(p) \/ AcquireRefused(p) \/ AcquireBlocked(p)
  \/ ResumeGranted(p) \/ ResumeBlocked(p) \/ CloseRelease(p) \/ Put(p)

\* The locks a struct file can hold are among the types of a call.
LEMMA HeldTypes ==
  /\ LOCK_SH \in Held /\ LOCK_EX \in Held /\ NONE \in Held /\ LockType \subseteq Held
  /\ NoCall \in Call
BY DEF Held, LockType, LOCK_SH, LOCK_EX, NONE, NoCall, Call

\* Thread p goes on: its place and its call are new, the others' are not.
LEMMA GotoSound ==
  ASSUME NEW p \in Pid, NEW l \in Place, NEW c \in Call, Goto(p, l, c),
         pc \in [Pid -> Place], call \in [Pid -> Call]
  PROVE  /\ pc' \in [Pid -> Place] /\ call' \in [Pid -> Call]
         /\ pc'[p] = l /\ call'[p] = c
         /\ \A q \in Pid : q # p => pc'[q] = pc[q] /\ call'[q] = call[q]
BY DEF Goto

\* Every step of FileLocks keeps its data sound and moves one thread only.
LEMMA DataStepSound ==
  ASSUME DataSound, NEW p \in Pid, DataStep(p)
  PROVE  DataSound' /\ \A q \in Pid : q # p => pc'[q] = pc[q] /\ call'[q] = call[q]
<1>1. /\ pc \in [Pid -> Place] /\ call \in [Pid -> Call]
      /\ file \in [File -> [ref : {0, 1}, ip : Inode \cup {Nil}, holding : Held]]
      /\ openfiles \in [Pid -> SUBSET File]
      /\ \A q \in Pid : \A f \in openfiles[q] : file[f].ip \in Inode
      /\ \A q \in Pid : pc[q] # "user" => call[q].ip \in Inode
      /\ \A q \in Pid : pc[q] = "wait" => call[q].type \in Held
  BY DEF DataSound
<1> DEFINE Files == /\ file' \in [File -> [ref : {0, 1}, ip : Inode \cup {Nil}, holding : Held]]
                    /\ openfiles' \in [Pid -> SUBSET File]
                    /\ \A q \in Pid : \A f \in openfiles'[q] : file'[f].ip \in Inode
           Moves == \E l \in Place, c \in Call :
                      /\ Goto(p, l, c)
                      /\ l # "user" => c.ip \in Inode
                      /\ l = "wait" => c.type \in Held
<1>2. /\ call[p] \in Call /\ call[p].ip \in Inode \cup {Nil}
      /\ call[p].type \in Held \cup {BAD} /\ call[p].file \in File \cup {Nil}
  BY <1>1 DEF Call
<1>3. ASSUME Files, Moves \/ (pc' = pc /\ call' = call)
      PROVE  DataSound' /\ \A q \in Pid : q # p => pc'[q] = pc[q] /\ call'[q] = call[q]
  <2>1. CASE Moves
    <3>1. PICK l \in Place, c \in Call : /\ Goto(p, l, c)
                                         /\ l # "user" => c.ip \in Inode
                                         /\ l = "wait" => c.type \in Held
      BY <2>1
    <3>2. /\ pc' \in [Pid -> Place] /\ call' \in [Pid -> Call]
          /\ pc'[p] = l /\ call'[p] = c
          /\ \A q \in Pid : q # p => pc'[q] = pc[q] /\ call'[q] = call[q]
      BY <1>1, <3>1, GotoSound
    <3> QED
      BY <1>1, <1>3, <3>1, <3>2 DEF DataSound
  <2>2. CASE pc' = pc /\ call' = call
    BY <1>1, <1>3, <2>2 DEF DataSound
  <2> QED
    BY <1>3, <2>1, <2>2
<1>4. (file' = file /\ openfiles' = openfiles) => Files
  BY <1>1
<1>5. ASSUME NEW c \in Call, NEW l \in Place, Goto(p, l, c), c.ip \in Inode, l # "wait"
      PROVE  Moves
  BY <1>5
<1>6. Return(p) => Moves
  <2>1. "user" \in Place
    BY DEF Place
  <2> QED
    BY <2>1, HeldTypes DEF Return
<1>7. ASSUME NEW n \in Inum, NEW i \in Inode, GetCached(p, n, i) \/ GetRecycled(p, n, i)
      PROVE  Files /\ Moves
  <2>1. [NoCall EXCEPT !.ip = i] \in Call /\ [NoCall EXCEPT !.ip = i].ip = i /\ "open" \in Place
    BY ZenonT(40) DEF NoCall, Call, Place, Held
  <2>2. Goto(p, "open", [NoCall EXCEPT !.ip = i]) /\ file' = file /\ openfiles' = openfiles
    BY <1>7 DEF GetCached, GetRecycled
  <2> HIDE DEF Files, Moves
  <2> QED
    BY Zenon, <1>4, <1>5, <2>1, <2>2
<1>8. ASSUME NEW f \in File, OpenFile(p, f)
      PROVE  Files /\ Moves
  <2>1. /\ call[p].ip \in Inode
        /\ file' = [file EXCEPT ![f] = [ref |-> 1, ip |-> call[p].ip, holding |-> NONE]]
        /\ openfiles' = [openfiles EXCEPT ![p] = @ \cup {f}]
        /\ Return(p)
    BY <1>1, <1>8 DEF OpenFile
  <2>2. /\ file' \in [File -> [ref : {0, 1}, ip : Inode \cup {Nil}, holding : Held]]
        /\ openfiles' \in [Pid -> SUBSET File]
    BY <1>1, <2>1, HeldTypes
  <2>3. \A q \in Pid : \A g \in openfiles'[q] : file'[g].ip \in Inode
    <3>1. ASSUME NEW q \in Pid, NEW g \in openfiles'[q]
          PROVE  file'[g].ip \in Inode
      <4>1. g \in File /\ (g = f \/ g \in openfiles[q])
        BY <1>1, <2>1, <3>1
      <4> QED
        BY <1>1, <2>1, <4>1
    <3> QED
      BY <3>1
  <2> QED
    BY <1>6, <2>1, <2>2, <2>3
<1>9. ASSUME NEW f \in File, Unlock(p, f)
      PROVE  Files /\ pc' = pc /\ call' = call
  <2>1. /\ file' = [file EXCEPT ![f].holding = NONE] /\ openfiles' = openfiles
        /\ pc' = pc /\ call' = call
    BY <1>9 DEF Unlock
  <2> QED
    BY <1>1, <2>1, HeldTypes
<1>10. ASSUME NEW f \in File, CloseFile(p, f)
       PROVE  Files /\ Moves
  <2> DEFINE l == IF file[f].holding = NONE THEN "put" ELSE "release"
             c == [file |-> f, ip |-> file[f].ip, type |-> file[f].holding, nb |-> FALSE]
  <2>1. /\ file' = [file EXCEPT ![f].ref = 0] /\ openfiles' = openfiles
        /\ Goto(p, l, c) /\ f \in openfiles[p]
    BY <1>10 DEF CloseFile, Calls
  <2>2. /\ l \in Place /\ l # "wait" /\ c \in Call /\ c.ip \in Inode
    BY <1>1, <2>1 DEF Place, Call
  <2>3. Files
    BY <1>1, <2>1
  <2> HIDE DEF Files, Moves, l, c
  <2> QED
    BY <1>5, <2>1, <2>2, <2>3
<1>11. ASSUME NEW f \in File, NEW type \in {LOCK_SH, LOCK_EX, BAD}, NEW nb \in BOOLEAN,
              Lock(p, f, type, nb) \/ Convert(p, f, type, nb)
       PROVE  Files /\ Moves
  <2> DEFINE c == [file |-> f, ip |-> file[f].ip, type |-> type, nb |-> nb]
  <2>1. /\ file' = file \/ file' = [file EXCEPT ![f].holding = NONE]
        /\ openfiles' = openfiles
        /\ Goto(p, "acquire", c) /\ f \in openfiles[p]
    BY <1>11 DEF Lock, Convert, Calls
  <2>2. /\ "acquire" \in Place /\ c \in Call /\ c.ip \in Inode
    BY <1>1, <2>1, HeldTypes DEF Place, Call
  <2>3. Files
    BY <1>1, <2>1, HeldTypes
  <2> HIDE DEF Files, Moves, c
  <2> QED
    BY <1>5, <2>1, <2>2, <2>3
<1>12. ASSUME OpenFails(p) \/ CloseRelease(p) PROVE Files /\ Moves
  <2>1. /\ file' = file /\ openfiles' = openfiles /\ Goto(p, "put", call[p])
        /\ call[p].ip \in Inode /\ "put" \in Place
    BY <1>1, <1>12 DEF OpenFails, CloseRelease, Place
  <2> HIDE DEF Files, Moves
  <2> QED
    BY <1>2, <1>4, <1>5, <2>1
<1>13. ASSUME Put(p) PROVE Files /\ Moves
  <2>1. /\ file' = file /\ openfiles' = [openfiles EXCEPT ![p] = @ \ {call[p].file}]
        /\ Return(p)
    BY <1>13 DEF Put
  <2>2. Files
    BY <1>1, <2>1
  <2> QED
    BY <1>6, <2>1, <2>2
<1>14. ASSUME AcquireRefused(p) PROVE Files /\ Moves
  BY <1>4, <1>6, <1>14 DEF AcquireRefused
<1>15. ASSUME AcquireBlocked(p) PROVE Files /\ Moves
  <2>1. /\ file' = file /\ openfiles' = openfiles /\ Goto(p, "wait", call[p])
        /\ call[p].ip \in Inode /\ call[p].type \in LockType /\ "wait" \in Place
    BY <1>1, <1>15 DEF AcquireBlocked, Place
  <2> QED
    BY <1>1, <1>2, <2>1, HeldTypes
<1>16. ASSUME AcquireGranted(p) \/ ResumeGranted(p) PROVE Files /\ Moves
  <2>1. /\ file' = [file EXCEPT ![call[p].file].holding = call[p].type]
        /\ openfiles' = openfiles /\ Return(p) /\ call[p].type \in Held
    BY <1>1, <1>16, HeldTypes DEF AcquireGranted, ResumeGranted
  <2>2. Files
    BY ZenonT(40), <1>1, <2>1
  <2> QED
    BY <1>6, <2>1, <2>2
<1>17. ResumeBlocked(p) => Files /\ pc' = pc /\ call' = call
  BY <1>4 DEF ResumeBlocked, dataVars
<1> HIDE DEF Files, Moves
<1> QED
  BY <1>3, <1>7, <1>8, <1>9, <1>10, <1>11, <1>12, <1>13, <1>14, <1>15, <1>16, <1>17 DEF DataStep

-----------------------------------------------------------------------------
(* The lock path on the scheduler.                                           *)

\* Whoever sleeps on a flock_t is in the loop of flock_acquire, on the flock_t
\* of its call.
SleepersWait ==
  \A t \in Thread : sched.state[t] = TSTATE_SLEEP /\ sched.chan[t] \in Inode
                    => pc[t] = "wait" /\ call[t].ip = sched.chan[t]

\* The inductive invariant.  A kernel that panics in thread_sleep has already
\* queued the request of the running thread.
SystemSound ==
  /\ DataSound /\ SchedSound(sched) /\ panic \in BOOLEAN
  /\ ~ panic => SleepersWait

\* The state function that Contract puts in the place of asleep.
Sleepers == {p \in Pid : sched.state[p] = TSTATE_SLEEP /\ sched.chan[p] \in Inode}

\* flock_release wakes exactly the threads that wait for the lock it frees.
LEMMA WakeupEffect ==
  ASSUME SystemSound, ~ panic, NEW i \in Inode, NEW type, Wakeup(i, type)
  PROVE  /\ SchedSound(sched') /\ panic' = panic
         /\ \A t \in Thread : sched'.state[t] = TSTATE_SLEEP =>
              sched.state[t] = TSTATE_SLEEP /\ sched'.chan[t] = sched.chan[t]
         /\ Sleepers' = IF NeedWakeup(flock[i], type)
                          THEN Sleepers \ {p \in Pid : pc[p] = "wait" /\ call[p].ip = i}
                          ELSE Sleepers
<1>1. /\ Pid = Thread /\ i \in Chan /\ SchedSound(sched) /\ SleepersWait /\ panic' = panic
  BY FlockSchedAssumption DEF SystemSound, Wakeup
<1>2. CASE ~ NeedWakeup(flock[i], type)
  <2>1. sched' = sched
    BY <1>2 DEF Wakeup
  <2> QED
    BY <1>1, <1>2, <2>1 DEF Sleepers
<1>3. CASE NeedWakeup(flock[i], type)
  <2>1. PICK u : u = sched'
    OBVIOUS
  <2>2. u = thread_wakeup(sched, i)
    BY <1>3, <2>1 DEF Wakeup
  <2>3. PICK s : s = sched
    OBVIOUS
  <2>4. /\ SchedSound(u) /\ u.chan = s.chan
        /\ \A t \in Thread : u.state[t] = IF s.chan[t] = i THEN TSTATE_READY ELSE s.state[t]
    BY <1>1, <2>2, <2>3, WakeupSound
  <2>5. \A t \in Thread : u.state[t] = TSTATE_SLEEP <=> s.state[t] = TSTATE_SLEEP /\ s.chan[t] # i
    BY <2>4
  <2>6. Sleepers' = {p \in Pid : u.state[p] = TSTATE_SLEEP /\ u.chan[p] \in Inode}
    BY <2>1 DEF Sleepers
  <2>7. Sleepers = {p \in Pid : s.state[p] = TSTATE_SLEEP /\ s.chan[p] \in Inode}
    BY <2>3 DEF Sleepers
  <2>8. \A p \in Sleepers : pc[p] = "wait" /\ call[p].ip = s.chan[p]
    BY <1>1, <2>3, <2>7 DEF SleepersWait
  <2>9. Sleepers' = Sleepers \ {p \in Pid : pc[p] = "wait" /\ call[p].ip = i}
    BY <1>1, <2>4, <2>5, <2>6, <2>7, <2>8
  <2> QED
    BY <1>1, <1>3, <2>1, <2>3, <2>4, <2>5, <2>9
<1> QED
  BY <1>2, <1>3

\* thread_sleep adds the running thread to those that sleep on c, unless the
\* kernel panics.
LEMMA SleepEffect ==
  ASSUME SystemSound, ~ panic, NEW c \in Chan, Sleep(c)
  PROVE  /\ SchedSound(sched') /\ panic' \in BOOLEAN
         /\ ~ panic' =>
              /\ \A t \in Thread : sched'.state[t] = TSTATE_SLEEP =>
                   IF t = sched.curid THEN sched'.chan[t] = c
                   ELSE sched.state[t] = TSTATE_SLEEP /\ sched'.chan[t] = sched.chan[t]
              /\ Sleepers' = IF c \in Inode THEN Sleepers \cup {sched.curid} ELSE Sleepers
<1>1. Pid = Thread /\ SchedSound(sched) /\ panic = FALSE
  BY FlockSchedAssumption DEF SystemSound
<1>2. CASE ~ CanSleep(sched)
  BY <1>1, <1>2 DEF Sleep
<1>3. CASE CanSleep(sched)
  <2>1. PICK u : u = sched'
    OBVIOUS
  <2>2. u = thread_sleep(sched, c) /\ panic' = panic
    BY <1>3, <2>1 DEF Sleep
  <2>3. PICK s : s = sched
    OBVIOUS
  <2>4. /\ SchedSound(u)
        /\ \A t \in Thread :
             /\ u.state[t] = TSTATE_SLEEP <=> s.state[t] = TSTATE_SLEEP \/ t = s.curid
             /\ u.state[t] = TSTATE_SLEEP => u.chan[t] = IF t = s.curid THEN c ELSE s.chan[t]
    BY <1>1, <1>3, <2>2, <2>3, SleepSound
  <2>5. s.curid \in Thread /\ s.state[s.curid] # TSTATE_SLEEP
    BY <1>1, <2>3 DEF SchedSound, SchedT
  <2>6. Sleepers' = {p \in Pid : u.state[p] = TSTATE_SLEEP /\ u.chan[p] \in Inode}
    BY <2>1 DEF Sleepers
  <2>7. Sleepers = {p \in Pid : s.state[p] = TSTATE_SLEEP /\ s.chan[p] \in Inode}
    BY <2>3 DEF Sleepers
  <2>8. Sleepers' = IF c \in Inode THEN Sleepers \cup {s.curid} ELSE Sleepers
    BY <1>1, <2>4, <2>5, <2>6, <2>7
  <2> QED
    BY Zenon, <1>1, <2>1, <2>2, <2>3, <2>4, <2>8
<1> QED
  BY <1>2, <1>3

\* A scheduler step that puts nobody to sleep and wakes nobody who waits for a
\* lock.
LEMMA QuietEffect ==
  ASSUME SystemSound, ~ panic, panic' = panic,
         \/ sched' = thread_yield(sched)
         \/ \E q \in Thread : sched.state[q] = TSTATE_DEAD /\ sched' = thread_spawn(sched, q)
         \/ \E q \in Thread : sched' = thread_wakeup(sched, IoChan(q))
  PROVE  /\ SchedSound(sched') /\ Sleepers' = Sleepers
         /\ \A t \in Thread : sched'.state[t] = TSTATE_SLEEP =>
              sched.state[t] = TSTATE_SLEEP /\ sched'.chan[t] = sched.chan[t]
<1>1. Pid = Thread /\ SchedSound(sched)
  BY FlockSchedAssumption DEF SystemSound
<1>2. PICK u : u = sched'
  OBVIOUS
<1>3. PICK s : s = sched
  OBVIOUS
<1>4. /\ Sleepers' = {p \in Pid : u.state[p] = TSTATE_SLEEP /\ u.chan[p] \in Inode}
      /\ Sleepers = {p \in Pid : s.state[p] = TSTATE_SLEEP /\ s.chan[p] \in Inode}
  BY <1>2, <1>3 DEF Sleepers
<1>5. CASE SchedSound(u) /\ SameSleepers(s, u)
  <2>1. Sleepers' = Sleepers
    BY <1>1, <1>4, <1>5 DEF SameSleepers
  <2> QED
    BY <1>2, <1>3, <1>5, <2>1 DEF SameSleepers
<1>6. CASE u = thread_yield(s)
  BY <1>1, <1>3, <1>5, <1>6, YieldSound
<1>7. CASE \E q \in Thread : s.state[q] = TSTATE_DEAD /\ u = thread_spawn(s, q)
  BY <1>1, <1>3, <1>5, <1>7, SpawnSound
<1>8. CASE \E q \in Thread : u = thread_wakeup(s, IoChan(q))
  <2>1. PICK q \in Thread : u = thread_wakeup(s, q)
    BY <1>8 DEF IoChan
  <2>2. q \in Chan /\ q \notin Inode
    BY FlockSchedAssumption
  <2>3. /\ SchedSound(u) /\ u.chan = s.chan
        /\ \A t \in Thread : u.state[t] = IF s.chan[t] = q THEN TSTATE_READY ELSE s.state[t]
    BY <1>1, <1>3, <2>1, <2>2, WakeupSound
  <2>4. Sleepers' = Sleepers
    BY <1>1, <1>4, <2>2, <2>3
  <2> QED
    BY <1>2, <1>3, <2>3, <2>4
<1> QED
  BY <1>2, <1>3, <1>6, <1>7, <1>8

\* Every step keeps the inductive invariant.
LEMMA SystemStep ==
  SystemSound /\ [Next]_vars => SystemSound'
<1> SUFFICES ASSUME SystemSound, [Next]_vars PROVE SystemSound'
  OBVIOUS
<1>1. /\ DataSound /\ SchedSound(sched) /\ panic \in BOOLEAN
      /\ ~ panic => SleepersWait
      /\ Pid = Thread /\ Inode \subseteq Chan /\ Thread \subseteq Chan /\ Inode \cap Thread = {}
  BY FlockSchedAssumption DEF SystemSound
<1>2. \A t \in Thread : t = sched.curid => sched.state[t] # TSTATE_SLEEP
  BY <1>1 DEF SchedSound
<1> DEFINE SleepBefore(t) ==
             sched.state[t] = TSTATE_SLEEP /\ sched'.chan[t] = sched.chan[t]
<1>3. ASSUME NEW p \in Pid, Runs(p), DataStep(p), SchedSound(sched'), panic' \in BOOLEAN,
             ~ panic' => \A t \in Thread : sched'.state[t] = TSTATE_SLEEP =>
                           \/ SleepBefore(t)
                           \/ t = p /\ pc'[p] = "wait" /\ sched'.chan[p] = call'[p].ip
      PROVE  SystemSound'
  <2>1. DataSound' /\ \A q \in Pid : q # p => pc'[q] = pc[q] /\ call'[q] = call[q]
    BY <1>1, <1>3, DataStepSound
  <2>2. sched.curid = p /\ ~ panic
    BY <1>3 DEF Runs
  <2>3. ASSUME ~ panic', NEW t \in Thread, sched'.state[t] = TSTATE_SLEEP,
               sched'.chan[t] \in Inode
        PROVE  pc'[t] = "wait" /\ call'[t].ip = sched'.chan[t]
    <3>1. CASE SleepBefore(t)
      BY <1>1, <1>2, <2>1, <2>2, <2>3, <3>1 DEF SleepersWait
    <3>2. CASE t = p /\ pc'[p] = "wait" /\ sched'.chan[p] = call'[p].ip
      BY <3>2
    <3> QED
      BY <1>3, <2>3, <3>1, <3>2
  <2> QED
    BY <1>3, <2>1, <2>3 DEF SystemSound, SleepersWait
<1>4. ASSUME NEW p \in Pid, Runs(p), DataStep(p), NoSwitch
      PROVE  SystemSound'
  <2>1. sched' = sched /\ panic' = panic
    BY <1>4 DEF NoSwitch
  <2>2. SchedSound(sched') /\ panic' \in BOOLEAN
    BY <1>1, <2>1
  <2> QED
    BY <1>3, <1>4, <2>1, <2>2
<1>5. ASSUME NEW p \in Pid, Runs(p), DataStep(p), NEW i \in Inode, NEW type, Wakeup(i, type)
      PROVE  SystemSound'
  <2>1. ~ panic
    BY <1>5 DEF Runs
  <2>2. /\ SchedSound(sched') /\ panic' = panic
        /\ \A t \in Thread : sched'.state[t] = TSTATE_SLEEP => SleepBefore(t)
    BY <1>5, <2>1, WakeupEffect
  <2> QED
    BY <1>1, <1>3, <1>5, <2>2
<1>6. ASSUME NEW p \in Pid, Runs(p), AcquireBlocked(p) \/ ResumeBlocked(p), Sleep(call[p].ip)
      PROVE  SystemSound'
  <2>1. ~ panic /\ sched.curid = p
    BY <1>6 DEF Runs
  <2>2. DataStep(p)
    BY <1>6 DEF DataStep
  <2>3. call[p].ip \in Inode /\ pc'[p] = "wait" /\ call'[p] = call[p]
    BY <1>1, <1>6 DEF DataSound, AcquireBlocked, ResumeBlocked, Goto, dataVars
  <2>4. /\ SchedSound(sched') /\ panic' \in BOOLEAN
        /\ ~ panic' => \A t \in Thread : sched'.state[t] = TSTATE_SLEEP =>
                         IF t = sched.curid THEN sched'.chan[t] = call[p].ip ELSE SleepBefore(t)
    BY <1>1, <1>6, <2>1, <2>3, SleepEffect
  <2> QED
    BY <1>3, <1>6, <2>1, <2>2, <2>3, <2>4
<1>7. ASSUME UNCHANGED dataVars, ~ panic, SchedSound(sched'), panic' \in BOOLEAN,
             ~ panic' => \A t \in Thread : sched'.state[t] = TSTATE_SLEEP =>
                           SleepBefore(t) \/ sched'.chan[t] \notin Inode
      PROVE  SystemSound'
  <2>1. DataSound' /\ pc' = pc /\ call' = call
    BY <1>1, <1>7 DEF DataSound, dataVars
  <2>2. ~ panic' => SleepersWait'
    BY <1>1, <1>7, <2>1 DEF SleepersWait
  <2> QED
    BY <1>7, <2>1, <2>2 DEF SystemSound
<1>8. CASE UNCHANGED vars
  BY <1>1, <1>8 DEF vars, SystemSound, DataSound, SleepersWait
<1>9. CASE Timer \/ \E p \in Pid : ide_intr(p) \/ \E q \in Pid : sys_spawn(p, q)
  <2>1. /\ UNCHANGED dataVars /\ ~ panic /\ panic' = panic
        /\ \/ sched' = thread_yield(sched)
           \/ \E q \in Thread : sched.state[q] = TSTATE_DEAD /\ sched' = thread_spawn(sched, q)
           \/ \E q \in Thread : sched' = thread_wakeup(sched, IoChan(q))
    BY <1>1, <1>9 DEF Timer, ide_intr, sys_spawn, InUserMode
  <2>2. /\ SchedSound(sched')
        /\ \A t \in Thread : sched'.state[t] = TSTATE_SLEEP => SleepBefore(t)
    BY <2>1, QuietEffect
  <2> QED
    BY <1>1, <1>7, <2>1, <2>2
<1>10. ASSUME NEW p \in Pid, DiskWait(p)
       PROVE  SystemSound'
  <2>1. /\ UNCHANGED dataVars /\ ~ panic /\ Sleep(p) /\ sched.curid = p
        /\ p \in Chan /\ p \notin Inode
    BY <1>1, <1>10 DEF DiskWait, Runs, IoChan
  <2>2. /\ SchedSound(sched') /\ panic' \in BOOLEAN
        /\ ~ panic' => \A t \in Thread : sched'.state[t] = TSTATE_SLEEP =>
                         IF t = sched.curid THEN sched'.chan[t] = p ELSE SleepBefore(t)
    BY <2>1, SleepEffect
  <2> QED
    BY <1>7, <2>1, <2>2
<1>11. ASSUME NEW p \in Pid, sys_open(p)
       PROVE  SystemSound'
  BY <1>4, <1>11 DEF sys_open, DataStep
<1>12. ASSUME NEW p \in Pid, NEW f \in File, flock_un(p, f)
       PROVE  SystemSound'
  <2>1. file[f].ip \in Inode
    BY <1>1, <1>12 DEF flock_un, Unlock, Calls, DataSound
  <2>2. Runs(p) /\ DataStep(p) /\ Wakeup(file[f].ip, file[f].holding)
    BY <1>12 DEF flock_un, DataStep
  <2> QED
    BY <1>5, <2>1, <2>2
<1>13. ASSUME NEW p \in Pid, NEW f \in File, flock_lock(p, f)
       PROVE  SystemSound'
  <2>1. PICK type \in {LOCK_SH, LOCK_EX, BAD}, nb \in BOOLEAN :
          \/ Lock(p, f, type, nb) /\ NoSwitch
          \/ Convert(p, f, type, nb) /\ Wakeup(file[f].ip, file[f].holding)
    BY <1>13 DEF flock_lock
  <2>2. Runs(p) /\ DataStep(p)
    BY <1>13, <2>1 DEF flock_lock, DataStep
  <2>3. file[f].ip \in Inode
    BY <1>1, <2>1 DEF Lock, Convert, Calls, DataSound
  <2> QED
    BY <1>4, <1>5, <2>1, <2>2, <2>3
<1>14. ASSUME NEW p \in Pid, flock_acquire(p) \/ flock_resume(p)
       PROVE  SystemSound'
  <2>1. Runs(p)
    BY <1>14 DEF flock_acquire, flock_resume
  <2>2. CASE (AcquireGranted(p) \/ AcquireRefused(p) \/ ResumeGranted(p)) /\ NoSwitch
    BY <1>4, <2>1, <2>2 DEF DataStep
  <2>3. CASE (AcquireBlocked(p) \/ ResumeBlocked(p)) /\ Sleep(call[p].ip)
    BY <1>6, <2>1, <2>3
  <2> QED
    BY <1>14, <2>2, <2>3 DEF flock_acquire, flock_resume
<1>15. ASSUME NEW p \in Pid, sys_close(p)
       PROVE  SystemSound'
  <2>1. Runs(p)
    BY <1>15 DEF sys_close
  <2>2. CASE (Put(p) \/ \E f \in File : CloseFile(p, f)) /\ NoSwitch
    BY <1>4, <2>1, <2>2 DEF DataStep
  <2>3. CASE CloseRelease(p) /\ Wakeup(call[p].ip, call[p].type)
    <3>1. call[p].ip \in Inode
      BY <1>1, <2>3 DEF CloseRelease, DataSound
    <3> QED
      BY <1>5, <2>1, <2>3, <3>1 DEF DataStep
  <2> QED
    BY <1>15, <2>2, <2>3 DEF sys_close
<1> QED
  BY <1>8, <1>9, <1>10, <1>11, <1>12, <1>13, <1>14, <1>15 DEF Next

\* The invariant holds when the first process starts.
LEMMA SystemStart ==
  Init => SystemSound
<1> SUFFICES ASSUME Init PROVE SystemSound
  OBVIOUS
<1>1. SchedSound(sched) /\ \A t \in Thread : sched.state[t] # TSTATE_SLEEP
  BY BootSound DEF Init
<1>2. DataSound
  BY HeldTypes DEF Init, DataInit, DataSound, Place
<1>3. panic = FALSE
  BY DEF Init
<1> QED
  BY Zenon, <1>1, <1>2, <1>3 DEF SystemSound, SleepersWait

\* The invariant in every reachable state.
LEMMA SystemStaysSound ==
  Spec => []SystemSound
BY SystemStart, SystemStep, PTL DEF Spec

\* A sound scheduler and sound data are what QueueSound asks for.
LEMMA SoundQueue ==
  SystemSound => QueueSound
<1> SUFFICES ASSUME SystemSound PROVE QueueSound
  OBVIOUS
<1>1. /\ SchedSound(sched) /\ sched \in SchedT /\ panic \in BOOLEAN
      /\ \A t \in Thread : sched.state[t] = TSTATE_RUN <=> t = sched.curid
  BY DEF SystemSound, SchedSound
<1>2. PICK q : Chain(sched, q) /\ AllReady(sched, q)
  BY <1>1 DEF SchedSound
<1>3. ReadyQueue(sched) = q
  BY <1>2, QueueWalked
<1>4. TypeOK
  BY <1>1 DEF TypeOK, SystemSound, DataSound
<1>5. q \in Seq(Thread) /\ Len(q) \in Nat /\ DOMAIN q = 1 .. Len(q)
  BY <1>2, LenProperties DEF Chain
<1>6. IsInjective(q)
  BY Zenon, <1>2, <1>5 DEF Chain, IsInjective
<1>7. sched.tail = IF q = << >> THEN Null ELSE q[Len(q)]
  <2>1. q = << >> <=> Len(q) = 0
    BY <1>5, EmptySeq
  <2> QED
    BY <1>2, <2>1 DEF Chain
<1>8. \A t \in Range(q) : sched.state[t] = TSTATE_READY
  BY <1>2, <1>5 DEF Range, AllReady
<1> QED
  BY <1>1, <1>3, <1>4, <1>6, <1>7, <1>8 DEF QueueSound

(***************************************************************************)
(* On the real scheduler, with thread_wakeup enqueueing again threads that  *)
(* are on the ready queue already, the queue stays a proper list of ready   *)
(* threads: each at most once, ending at the tail, without the running      *)
(* thread and without any that sleeps.                                      *)
(***************************************************************************)
THEOREM QueueStaysSound ==
  Spec => []QueueSound
BY SystemStaysSound, SoundQueue, PTL

-----------------------------------------------------------------------------
(* The contract of sleep and wakeup.                                         *)

\* The operators of Flock are those of the instance.
LEMMA SameOperators ==
  /\ Contract!NONE = NONE /\ Contract!LOCK_SH = LOCK_SH /\ Contract!LOCK_EX = LOCK_EX
  /\ Contract!BAD = BAD /\ Contract!LockType = LockType /\ Contract!NoCall = NoCall
  /\ Contract!flock_init = flock_init /\ \A S : Contract!Cardinality(S) = Cardinality(S)
  /\ \A fl, type : /\ Contract!MustWait(fl, type) <=> MustWait(fl, type)
                   /\ Contract!NeedWakeup(fl, type) <=> NeedWakeup(fl, type)
                   /\ Contract!Grant(fl, type) = Grant(fl, type)
                   /\ Contract!flock_release(fl, type) = flock_release(fl, type)
  /\ \A fl, p, type : /\ Contract!StartWait(fl, p, type) = StartWait(fl, p, type)
                      /\ Contract!EndWait(fl, p, type) = EndWait(fl, p, type)
<1> USE DEF NONE, LOCK_SH, LOCK_EX, BAD, LockType, FLOCK_INACTIVE, FLOCK_SHARED,
            FLOCK_EXCLUSIVE, NUM_IDS,
            Contract!NONE, Contract!LOCK_SH, Contract!LOCK_EX, Contract!BAD,
            Contract!LockType, Contract!FLOCK_INACTIVE, Contract!FLOCK_SHARED,
            Contract!FLOCK_EXCLUSIVE, Contract!NUM_IDS
<1>0. \A S : Contract!Cardinality(S) = Cardinality(S)
  BY Zenon DEF Cardinality, Contract!Cardinality
<1>1. /\ Contract!NONE = NONE /\ Contract!LOCK_SH = LOCK_SH /\ Contract!LOCK_EX = LOCK_EX
      /\ Contract!BAD = BAD /\ Contract!LockType = LockType /\ Contract!NoCall = NoCall
  BY Zenon DEF NoCall, Contract!NoCall
<1>2. Contract!flock_init = flock_init
  BY Zenon DEF flock_init, Contract!flock_init
<1>3. ASSUME NEW fl, NEW type
      PROVE  /\ Contract!MustWait(fl, type) <=> MustWait(fl, type)
             /\ Contract!NeedWakeup(fl, type) <=> NeedWakeup(fl, type)
             /\ Contract!Grant(fl, type) = Grant(fl, type)
             /\ Contract!flock_release(fl, type) = flock_release(fl, type)
  BY Zenon DEF MustWait, Contract!MustWait, NeedWakeup, Contract!NeedWakeup, Grant,
     Contract!Grant, flock_release, Contract!flock_release
<1>4. \A fl, p, req : Contract!waitq_add(fl, p, req) = waitq_add(fl, p, req)
  <2>1. Contract!Cardinality(Pid) = Cardinality(Pid)
    BY <1>0
  <2> QED
    BY <2>1, Zenon DEF waitq_add, Contract!waitq_add
<1>5. \A fl, p : Contract!waitq_remove(fl, p) = waitq_remove(fl, p)
  BY Zenon DEF waitq_remove, Contract!waitq_remove, ShiftDown, Contract!ShiftDown,
     FirstPos, Contract!FirstPos
<1>6. ASSUME NEW fl, NEW p, NEW type
      PROVE  /\ Contract!StartWait(fl, p, type) = StartWait(fl, p, type)
             /\ Contract!EndWait(fl, p, type) = EndWait(fl, p, type)
  BY <1>4, <1>5, Zenon DEF StartWait, Contract!StartWait, EndWait, Contract!EndWait
<1> QED
  BY <1>0, <1>1, <1>2, <1>3, <1>6

\* The steps of FileLocks are those of the instance: they do not mention asleep.
LEMMA SameSteps ==
  ASSUME NEW p
  PROVE  /\ \A n, i : GetCached(p, n, i) => Contract!GetCached(p, n, i)
         /\ \A n, i : GetRecycled(p, n, i) => Contract!GetRecycled(p, n, i)
         /\ \A f : OpenFile(p, f) => Contract!OpenFile(p, f)
         /\ \A f : Unlock(p, f) => Contract!Unlock(p, f)
         /\ \A f : CloseFile(p, f) => Contract!CloseFile(p, f)
         /\ \A f, type, nb : Lock(p, f, type, nb) => Contract!Lock(p, f, type, nb)
         /\ \A f, type, nb : Convert(p, f, type, nb) => Contract!Convert(p, f, type, nb)
         /\ OpenFails(p) => Contract!OpenFails(p)
         /\ AcquireGranted(p) => Contract!AcquireGranted(p)
         /\ AcquireRefused(p) => Contract!AcquireRefused(p)
         /\ AcquireBlocked(p) => Contract!AcquireBlocked(p)
         /\ ResumeGranted(p) => Contract!ResumeGranted(p)
         /\ ResumeBlocked(p) => Contract!ResumeBlocked(p)
         /\ CloseRelease(p) => Contract!CloseRelease(p)
         /\ Put(p) => Contract!Put(p)
<1> USE SameOperators DEF Goto, Contract!Goto, Return, Contract!Return, Calls, Contract!Calls
<1>1. \A n, i : GetCached(p, n, i) => Contract!GetCached(p, n, i)
  BY Zenon DEF GetCached, Contract!GetCached
<1>2. \A n, i : GetRecycled(p, n, i) => Contract!GetRecycled(p, n, i)
  BY Zenon DEF GetRecycled, Contract!GetRecycled
<1>3. \A f : OpenFile(p, f) => Contract!OpenFile(p, f)
  BY Zenon DEF OpenFile, Contract!OpenFile
<1>4. \A f : Unlock(p, f) => Contract!Unlock(p, f)
  BY Zenon DEF Unlock, Contract!Unlock
<1>5. \A f : CloseFile(p, f) => Contract!CloseFile(p, f)
  BY Zenon DEF CloseFile, Contract!CloseFile
<1>6. \A f, type, nb : Lock(p, f, type, nb) => Contract!Lock(p, f, type, nb)
  BY Zenon DEF Lock, Contract!Lock
<1>7. \A f, type, nb : Convert(p, f, type, nb) => Contract!Convert(p, f, type, nb)
  BY Zenon DEF Convert, Contract!Convert
<1>8. OpenFails(p) => Contract!OpenFails(p)
  BY Zenon DEF OpenFails, Contract!OpenFails
<1>9. AcquireGranted(p) => Contract!AcquireGranted(p)
  BY Zenon DEF AcquireGranted, Contract!AcquireGranted
<1>10. AcquireRefused(p) => Contract!AcquireRefused(p)
  BY Zenon DEF AcquireRefused, Contract!AcquireRefused
<1>11. AcquireBlocked(p) => Contract!AcquireBlocked(p)
  BY Zenon DEF AcquireBlocked, Contract!AcquireBlocked
<1>12. ResumeGranted(p) => Contract!ResumeGranted(p)
  BY Zenon DEF ResumeGranted, Contract!ResumeGranted
<1>13. ResumeBlocked(p) => Contract!ResumeBlocked(p)
  BY Zenon DEF ResumeBlocked, Contract!ResumeBlocked, dataVars, Contract!dataVars
<1>14. CloseRelease(p) => Contract!CloseRelease(p)
  BY Zenon DEF CloseRelease, Contract!CloseRelease
<1>15. Put(p) => Contract!Put(p)
  BY Zenon DEF Put, Contract!Put
<1> QED
  BY ZenonT(40), <1>1, <1>2, <1>3, <1>4, <1>5, <1>6, <1>7, <1>8, <1>9, <1>10, <1>11, <1>12, <1>13,
     <1>14, <1>15, Zenon

\* Every step of a sound system that does not panic is one of the contract, or
\* changes nothing the contract speaks of.
LEMMA ContractStep ==
  SystemSound /\ [Next]_vars => [~ panic' => Contract!Next]_(Contract!vars)
<1> SUFFICES ASSUME SystemSound, [Next]_vars, ~ panic'
             PROVE  Contract!Next \/ UNCHANGED Contract!vars
  OBVIOUS
<1>1. /\ DataSound /\ SchedSound(sched)
      /\ Pid = Thread /\ Inode \subseteq Chan /\ Thread \subseteq Chan /\ Inode \cap Thread = {}
  BY FlockSchedAssumption DEF SystemSound
<1>2. (dataVars' = dataVars /\ Sleepers' = Sleepers) => UNCHANGED Contract!vars
  BY Zenon DEF dataVars, Sleepers, Contract!vars
<1>3. NoSwitch => Sleepers' = Sleepers
  BY DEF NoSwitch, Sleepers
<1>4. CASE UNCHANGED vars
  <2>1. dataVars' = dataVars /\ Sleepers' = Sleepers
    BY <1>4 DEF vars, dataVars, Sleepers
  <2> QED
    BY <1>2, <2>1
<1>5. CASE Timer \/ \E p \in Pid : ide_intr(p) \/ \E q \in Pid : sys_spawn(p, q)
  <2>1. /\ dataVars' = dataVars /\ ~ panic /\ panic' = panic
        /\ \/ sched' = thread_yield(sched)
           \/ \E q \in Thread : sched.state[q] = TSTATE_DEAD /\ sched' = thread_spawn(sched, q)
           \/ \E q \in Thread : sched' = thread_wakeup(sched, IoChan(q))
    BY <1>1, <1>5 DEF Timer, ide_intr, sys_spawn, InUserMode
  <2>2. Sleepers' = Sleepers
    BY <2>1, QuietEffect
  <2> QED
    BY <1>2, <2>1, <2>2
<1>6. ASSUME NEW p \in Pid, DiskWait(p)
      PROVE  UNCHANGED Contract!vars
  <2>1. /\ dataVars' = dataVars /\ ~ panic /\ Sleep(p) /\ p \in Chan /\ p \notin Inode
    BY <1>1, <1>6 DEF DiskWait, Runs, IoChan
  <2>2. Sleepers' = Sleepers
    BY <2>1, SleepEffect
  <2> QED
    BY <1>2, <2>1, <2>2
<1>7. ASSUME NEW p \in Pid, sys_open(p)
      PROVE  Contract!Next
  <2>1. /\ \/ \E n \in Inum, i \in Inode : GetCached(p, n, i) \/ GetRecycled(p, n, i)
           \/ \E f \in File : OpenFile(p, f)
           \/ OpenFails(p)
        /\ Sleepers' = Sleepers
    BY <1>3, <1>7 DEF sys_open
  <2>2. Contract!sys_open(p)
    BY <2>1, SameSteps, Zenon DEF Contract!sys_open, Sleepers
  <2> QED
    BY <2>2 DEF Contract!Next
<1>8. ASSUME NEW f \in File, file[f].ip \in Inode, ~ panic,
             Wakeup(file[f].ip, file[f].holding)
      PROVE  Contract!Wakeup(file[f].ip, file[f].holding)
  <2>1. Sleepers' = IF NeedWakeup(flock[file[f].ip], file[f].holding)
                      THEN Sleepers \ {p \in Pid : pc[p] = "wait" /\ call[p].ip = file[f].ip}
                      ELSE Sleepers
    BY <1>8, WakeupEffect
  <2> QED
    BY <2>1, SameOperators, Zenon DEF Sleepers, Contract!Wakeup, Contract!WaitingOn
<1>9. ASSUME NEW p \in Pid, NEW f \in File, flock_un(p, f)
      PROVE  Contract!Next
  <2>1. /\ file[f].ip \in Inode /\ ~ panic /\ Unlock(p, f)
        /\ Wakeup(file[f].ip, file[f].holding)
    BY <1>1, <1>9 DEF flock_un, Unlock, Calls, DataSound, Runs
  <2>2. Contract!flock_un(p, f)
    <3>1. Contract!Wakeup(file[f].ip, file[f].holding)
      BY <1>8, <2>1
    <3>2. Contract!Unlock(p, f)
      BY <2>1, SameSteps, Zenon
    <3> QED
      BY <3>1, <3>2, Zenon DEF Contract!flock_un
  <2> QED
    BY <2>2 DEF Contract!Next
<1>10. ASSUME NEW p \in Pid, NEW f \in File, flock_lock(p, f)
       PROVE  Contract!Next
  <2>1. PICK type \in {LOCK_SH, LOCK_EX, BAD}, nb \in BOOLEAN :
          \/ Lock(p, f, type, nb) /\ NoSwitch
          \/ Convert(p, f, type, nb) /\ Wakeup(file[f].ip, file[f].holding)
    BY <1>10 DEF flock_lock
  <2>2. file[f].ip \in Inode /\ ~ panic
    BY <1>1, <1>10, <2>1 DEF flock_lock, Runs, Lock, Convert, Calls, DataSound
  <2>3. type \in {Contract!LOCK_SH, Contract!LOCK_EX, Contract!BAD}
    BY <2>1, SameOperators
  <2>4. \/ Contract!Lock(p, f, type, nb) /\ Sleepers' = Sleepers
        \/ Contract!Convert(p, f, type, nb) /\ Contract!Wakeup(file[f].ip, file[f].holding)
    <3>1. Wakeup(file[f].ip, file[f].holding) => Contract!Wakeup(file[f].ip, file[f].holding)
      BY <1>8, <2>2
    <3>2. /\ Lock(p, f, type, nb) => Contract!Lock(p, f, type, nb)
          /\ Convert(p, f, type, nb) => Contract!Convert(p, f, type, nb)
      BY SameSteps, Zenon
    <3> QED
      BY <1>3, <2>1, <3>1, <3>2, Zenon
  <2>5. Contract!flock_lock(p, f)
    BY <2>3, <2>4, Zenon DEF Contract!flock_lock, Sleepers
  <2> QED
    BY <2>5 DEF Contract!Next
<1>11. ASSUME NEW p \in Pid, Runs(p), AcquireBlocked(p) \/ ResumeBlocked(p), Sleep(call[p].ip)
       PROVE  Contract!thread_sleep(p)
  <2>1. ~ panic /\ sched.curid = p /\ call[p].ip \in Inode
    BY <1>1, <1>11 DEF Runs, AcquireBlocked, ResumeBlocked, DataSound
  <2>2. Sleepers' = Sleepers \cup {p}
    BY <1>1, <1>11, <2>1, SleepEffect
  <2> QED
    BY <2>2, ZenonT(40) DEF Sleepers, Contract!thread_sleep
<1>12. ASSUME NEW p \in Pid, flock_acquire(p)
       PROVE  Contract!Next
  <2>1. \/ Contract!AcquireGranted(p) /\ Sleepers' = Sleepers
        \/ Contract!AcquireRefused(p) /\ Sleepers' = Sleepers
        \/ Contract!AcquireBlocked(p) /\ Contract!thread_sleep(p)
    BY <1>3, <1>11, <1>12, SameSteps, Zenon DEF flock_acquire
  <2>2. Contract!flock_acquire(p)
    BY <2>1, Zenon DEF Contract!flock_acquire, Sleepers
  <2> QED
    BY <2>2 DEF Contract!Next, Contract!KernelStep
<1>13. ASSUME NEW p \in Pid, flock_resume(p)
       PROVE  Contract!Next
  <2>1. p \notin Sleepers
    BY <1>1, <1>13 DEF flock_resume, Runs, Sleepers, SchedSound
  <2>2. \/ Contract!ResumeGranted(p) /\ Sleepers' = Sleepers
        \/ Contract!ResumeBlocked(p) /\ Contract!thread_sleep(p)
    BY <1>3, <1>11, <1>13, SameSteps, Zenon DEF flock_resume
  <2>3. Contract!flock_resume(p)
    BY <2>1, <2>2, Zenon DEF Contract!flock_resume, Sleepers
  <2> QED
    BY <2>3 DEF Contract!Next, Contract!KernelStep
<1>14. ASSUME NEW p \in Pid, sys_close(p)
       PROVE  Contract!Next
  <2>1. CASE \E f \in File : CloseFile(p, f) /\ NoSwitch
    <3>1. PICK f \in File : Contract!CloseFile(p, f) /\ Sleepers' = Sleepers
      BY <1>3, <2>1, SameSteps, Zenon
    <3>2. Contract!sys_close(p, f)
      BY <3>1, Zenon DEF Contract!sys_close, Sleepers
    <3> QED
      BY <3>2 DEF Contract!Next
  <2>2. CASE CloseRelease(p) /\ Wakeup(call[p].ip, call[p].type)
    <3>1. call[p].ip \in Inode /\ ~ panic
      BY <1>1, <1>14, <2>2 DEF sys_close, Runs, CloseRelease, DataSound
    <3>2. Contract!close_release(p)
      <4>1. Sleepers' = IF NeedWakeup(flock[call[p].ip], call[p].type)
                          THEN Sleepers \ {q \in Pid : pc[q] = "wait" /\ call[q].ip = call[p].ip}
                          ELSE Sleepers
        BY <2>2, <3>1, WakeupEffect
      <4>2. Contract!Wakeup(call[p].ip, call[p].type)
        BY <4>1, SameOperators, Zenon DEF Sleepers, Contract!Wakeup, Contract!WaitingOn
      <4>3. Contract!CloseRelease(p)
        BY <2>2, SameSteps, Zenon
      <4> QED
        BY <4>2, <4>3, ZenonT(40) DEF Contract!close_release
    <3> QED
      BY <3>2 DEF Contract!Next, Contract!KernelStep
  <2>3. CASE Put(p) /\ NoSwitch
    <3>1. Contract!Put(p) /\ Sleepers' = Sleepers
      BY <1>3, <2>3, SameSteps, Zenon
    <3>2. Contract!close_put(p)
      BY <3>1, Zenon DEF Contract!close_put, Sleepers
    <3> QED
      BY <3>2 DEF Contract!Next, Contract!KernelStep
  <2> QED
    BY <1>14, <2>1, <2>2, <2>3 DEF sys_close
<1> QED
  BY <1>4, <1>5, <1>6, <1>7, <1>9, <1>10, <1>12, <1>13, <1>14 DEF Next

(***************************************************************************)
(* Every step of the lock path on the real scheduler, but the one in which  *)
(* the KERN_ASSERT of thread_sleep fails, is a step FileFlock allows: the   *)
(* contract of sleep and wakeup that FileFlock assumes is what thread_sleep *)
(* and thread_wakeup give, although a woken thread keeps its channel.       *)
(***************************************************************************)
THEOREM ContractKept ==
  Spec => StepsKeepContract
<1>1. SystemSound /\ [Next]_vars => [~ panic' => Contract!Next]_(Contract!vars)
  BY ContractStep
<1> QED
  BY <1>1, SystemStaysSound, PTL DEF Spec, StepsKeepContract

-----------------------------------------------------------------------------
(* Which threads can get lost.                                               *)

\* The steps of the scheduler.
LEMMA SchedMoves ==
  ASSUME SystemSound, Next
  PROVE  \/ sched' = sched
         \/ sched' = thread_yield(sched)
         \/ \E q \in Thread : sched.state[q] = TSTATE_DEAD /\ sched' = thread_spawn(sched, q)
         \/ \E c \in Chan : CanSleep(sched) /\ sched' = thread_sleep(sched, c)
         \/ \E c \in Chan : sched' = thread_wakeup(sched, c)
<1> DEFINE Moves == \/ sched' = sched
                    \/ sched' = thread_yield(sched)
                    \/ \E q \in Thread :
                         sched.state[q] = TSTATE_DEAD /\ sched' = thread_spawn(sched, q)
                    \/ \E c \in Chan : CanSleep(sched) /\ sched' = thread_sleep(sched, c)
                    \/ \E c \in Chan : sched' = thread_wakeup(sched, c)
<1>1. DataSound /\ Pid = Thread /\ Inode \subseteq Chan /\ Thread \subseteq Chan
  BY FlockSchedAssumption DEF SystemSound
<1>2. ASSUME NoSwitch PROVE Moves
  BY <1>2 DEF NoSwitch
<1>3. ASSUME NEW c \in Chan, Sleep(c) PROVE Moves
  BY <1>3 DEF Sleep
<1>4. ASSUME NEW i \in Inode, NEW type, Wakeup(i, type) PROVE Moves
  BY <1>1, <1>4 DEF Wakeup
<1>5. ASSUME Timer PROVE Moves
  BY <1>5 DEF Timer
<1>6. ASSUME NEW p \in Pid, NEW q \in Pid, sys_spawn(p, q) PROVE Moves
  BY <1>1, <1>6 DEF sys_spawn
<1>7. ASSUME NEW p \in Pid, ide_intr(p) PROVE Moves
  <2>1. p \in Chan /\ sched' = thread_wakeup(sched, p)
    BY <1>1, <1>7 DEF ide_intr, IoChan
  <2> QED
    BY <2>1
<1> HIDE DEF Moves
<1>8. ASSUME NEW p \in Pid, sys_open(p) PROVE Moves
  BY <1>2, <1>8 DEF sys_open
<1>9. ASSUME NEW p \in Pid, DiskWait(p) PROVE Moves
  <2>1. p \in Chan /\ Sleep(p)
    BY <1>1, <1>9 DEF DiskWait, IoChan
  <2> QED
    BY <1>3, <2>1
<1>10. ASSUME NEW p \in Pid, NEW f \in File, flock_un(p, f) PROVE Moves
  <2>1. file[f].ip \in Inode /\ Wakeup(file[f].ip, file[f].holding)
    BY <1>1, <1>10 DEF flock_un, Unlock, Calls, DataSound
  <2> QED
    BY <1>4, <2>1
<1>11. ASSUME NEW p \in Pid, NEW f \in File, flock_lock(p, f) PROVE Moves
  <2>1. PICK type \in {LOCK_SH, LOCK_EX, BAD}, nb \in BOOLEAN :
          \/ Lock(p, f, type, nb) /\ NoSwitch
          \/ Convert(p, f, type, nb) /\ Wakeup(file[f].ip, file[f].holding)
    BY <1>11 DEF flock_lock
  <2>2. file[f].ip \in Inode
    BY <1>1, <2>1 DEF Lock, Convert, Calls, DataSound
  <2> QED
    BY <1>2, <1>4, <2>1, <2>2
<1>12. ASSUME NEW p \in Pid, flock_acquire(p) \/ flock_resume(p) PROVE Moves
  <2>1. CASE NoSwitch
    BY <1>2, <2>1
  <2>2. CASE (AcquireBlocked(p) \/ ResumeBlocked(p)) /\ Sleep(call[p].ip)
    <3>1. call[p].ip \in Chan
      BY <1>1, <2>2 DEF DataSound, AcquireBlocked, ResumeBlocked
    <3> QED
      BY <1>3, <2>2, <3>1
  <2> QED
    BY <1>12, <2>1, <2>2 DEF flock_acquire, flock_resume
<1>13. ASSUME NEW p \in Pid, sys_close(p) PROVE Moves
  <2>1. CASE NoSwitch
    BY <1>2, <2>1
  <2>2. CASE CloseRelease(p) /\ Wakeup(call[p].ip, call[p].type)
    <3>1. call[p].ip \in Inode
      BY <1>1, <2>2 DEF CloseRelease, DataSound
    <3> QED
      BY <1>4, <2>2, <3>1
  <2> QED
    BY <1>13, <2>1, <2>2 DEF sys_close
<1>14. Moves
  BY <1>5, <1>6, <1>7, <1>8, <1>9, <1>10, <1>11, <1>12, <1>13 DEF Next
<1> QED
  BY <1>14 DEF Moves

\* A step that loses nobody loses nobody wrongly.
LEMMA NobodyGone ==
  ASSUME NEW s, NEW u, LosesNobody(s, u)
  PROVE  LosesBehindStale(s, u)
<1>1. PICK q, r : /\ Chain(s, q) /\ Chain(u, r)
                  /\ \A j \in 1 .. Len(q) :
                       q[j] = u.curid \/ \E k \in 1 .. Len(r) : r[k] = q[j]
  BY DEF LosesNobody
<1>2. ReadyQueue(s) = q /\ ReadyQueue(u) = r
  BY <1>1, QueueWalked
<1>3. DOMAIN q = 1 .. Len(q) /\ DOMAIN r = 1 .. Len(r)
  BY <1>1, LenProperties DEF Chain
<1>4. Range(q) \ (Range(r) \cup {u.curid}) = {}
  BY <1>1, <1>3 DEF Range
<1> QED
  BY <1>2, <1>4 DEF LosesBehindStale

\* thread_wakeup(c) cuts the queue behind a thread with channel c.
LEMMA CutBehind ==
  ASSUME NEW s, NEW u, NEW c \in Chan, NEW q, Chain(s, q), ReadyUntil(u, q, On(s, c))
  PROVE  LosesBehindStale(s, u)
<1>1. PICK r : Chain(u, r) /\ KeptUntil(q, r, On(s, c))
  BY DEF ReadyUntil
<1>2. ReadyQueue(s) = q /\ ReadyQueue(u) = r
  BY <1>1, QueueWalked
<1>3. PICK n \in Nat, l \in Nat : /\ n = Len(q) /\ DOMAIN q = 1 .. n
                                  /\ l = Len(r) /\ DOMAIN r = 1 .. l
  BY <1>1, LenProperties DEF Chain
<1>4. PICK m \in 0 .. n : /\ m <= l /\ \A j \in 1 .. m : r[j] = q[j]
                          /\ m = n \/ (m > 0 /\ q[m] \in On(s, c))
  BY <1>1, <1>3 DEF KeptUntil
<1>5. \A j \in 1 .. n : j \in m + 1 .. n \/ (j \in 1 .. m /\ j \in 1 .. l)
  BY <1>4
<1> DEFINE gone == Range(q) \ (Range(r) \cup {u.curid})
<1>6. gone \subseteq {q[j] : j \in m + 1 .. n}
  <2> SUFFICES ASSUME NEW t \in gone PROVE t \in {q[j] : j \in m + 1 .. n}
    OBVIOUS
  <2>1. PICK j \in 1 .. n : t = q[j]
    BY <1>3 DEF Range
  <2>2. ~ (j \in 1 .. m /\ j \in 1 .. l)
    BY <1>3, <1>4, <2>1 DEF Range
  <2> QED
    BY <1>5, <2>1, <2>2
<1>7. CASE m = n
  <2>1. m + 1 .. n = {}
    BY <1>7
  <2>2. gone = {}
    BY <1>6, <2>1
  <2> QED
    BY <1>2, <2>2 DEF LosesBehindStale
<1>8. CASE m # n
  <2>1. m \in 1 .. n /\ m \in 1 .. l /\ q[m] \in On(s, c)
    BY <1>4, <1>8
  <2>2. s.chan[q[m]] # NoChan
    BY <2>1, SchedAssumption DEF On
  <2>3. SubSeq(q, 1, m) = SubSeq(r, 1, m)
    <3>1. /\ \A j \in 1 .. m : q[j] \in Thread /\ r[j] \in Thread
          /\ m \in Int /\ 1 \in Int /\ m - 1 + 1 = m
      BY <1>1, <1>3, <1>4, <2>1 DEF Chain
    <3>2. /\ SubSeq(q, 1, m) \in Seq(Thread) /\ Len(SubSeq(q, 1, m)) = m
          /\ \A j \in 1 .. m : SubSeq(q, 1, m)[j] = q[j]
      BY <2>1, <3>1, SubSeqProperties
    <3>3. /\ SubSeq(r, 1, m) \in Seq(Thread) /\ Len(SubSeq(r, 1, m)) = m
          /\ \A j \in 1 .. m : SubSeq(r, 1, m)[j] = r[j]
      BY <2>1, <3>1, SubSeqProperties
    <3> QED
      BY <1>4, <3>2, <3>3, SeqEqual
  <2> HIDE DEF gone
  <2>4. \E k \in 1 .. Len(q) : /\ s.chan[q[k]] # NoChan
                               /\ k <= Len(r) /\ SubSeq(q, 1, k) = SubSeq(r, 1, k)
                               /\ gone \subseteq {q[j] : j \in k + 1 .. Len(q)}
    BY <1>3, <1>4, <1>6, <2>1, <2>2, <2>3
  <2> QED
    BY <1>2, <2>4 DEF LosesBehindStale, gone
<1> QED
  BY <1>7, <1>8

(***************************************************************************)
(* Threads get lost from the ready queue in one way only: a thread_wakeup   *)
(* enqueues a thread that was woken before and has not run since, and cuts  *)
(* the queue behind it.                                                     *)
(***************************************************************************)
THEOREM OnlyStaleLose ==
  Spec => OnlyStaleWakeupsLose
<1>1. SystemSound /\ [Next]_vars => [LosesBehindStale(sched, sched')]_sched
  <2> SUFFICES ASSUME SystemSound, [Next]_vars, sched' # sched
               PROVE  LosesBehindStale(sched, sched')
    OBVIOUS
  <2>1. Next /\ SchedSound(sched)
    BY DEF vars, SystemSound
  <2>2. PICK s, u : s = sched /\ u = sched'
    OBVIOUS
  <2>3. \/ u = thread_yield(s)
        \/ \E q \in Thread : s.state[q] = TSTATE_DEAD /\ u = thread_spawn(s, q)
        \/ \E c \in Chan : CanSleep(s) /\ u = thread_sleep(s, c)
        \/ \E c \in Chan : u = thread_wakeup(s, c)
    BY <2>1, <2>2, SchedMoves
  <2>4. SchedSound(s)
    BY <2>1, <2>2
  <2>5. ASSUME u = thread_yield(s)
        PROVE  LosesBehindStale(s, u)
    BY <2>4, <2>5, YieldSound, NobodyGone
  <2>6. ASSUME NEW q \in Thread, s.state[q] = TSTATE_DEAD, u = thread_spawn(s, q)
        PROVE  LosesBehindStale(s, u)
    BY <2>4, <2>6, SpawnSound, NobodyGone
  <2>7. ASSUME NEW c \in Chan, CanSleep(s), u = thread_sleep(s, c)
        PROVE  LosesBehindStale(s, u)
    BY <2>4, <2>7, SleepSound, NobodyGone
  <2>8. ASSUME NEW c \in Chan, u = thread_wakeup(s, c)
        PROVE  LosesBehindStale(s, u)
    <3>1. \E q : Chain(s, q) /\ ReadyUntil(u, q, On(s, c))
      BY <2>4, <2>8, WakeupSound
    <3> QED
      BY <3>1, CutBehind
  <2> QED
    BY <2>2, <2>3, <2>5, <2>6, <2>7, <2>8
<1> QED
  BY <1>1, SystemStaysSound, PTL DEF Spec, OnlyStaleWakeupsLose
=============================================================================
