-------------------------------- MODULE Sched --------------------------------
(***************************************************************************)
(* The thread layer: the doubly linked ready queue of PTQueueInit.c, whose  *)
(* links live in the TCBs, and the scheduler of PThread.c.  One CPU runs    *)
(* (kern_main never starts the others) and every gate of the IDT clears the *)
(* interrupt flag, so a call below is atomic: it ends, or it switches to    *)
(* the kernel context of another thread.                                    *)
(*                                                                          *)
(* The operators map the value of the thread layer before a call to its     *)
(* value after it, so that a kernel path making several calls composes      *)
(* them.                                                                    *)
(***************************************************************************)
EXTENDS Integers, Sequences, Functions

CONSTANTS
  NUM_TCB,  \* NUM_IDS, the number of thread control blocks and the null index
  Chan,     \* the addresses threads sleep on
  NoChan    \* the null channel

ASSUME SchedAssumption == NUM_TCB \in Nat \ {0, 1} /\ NoChan \notin Chan

\* Thread 0 is the context that boots; it is not scheduled again.
Thread == 1 .. NUM_TCB - 1
Link   == 1 .. NUM_TCB
Null   == NUM_TCB

TSTATE_READY == "READY"
TSTATE_RUN   == "RUN"
TSTATE_SLEEP == "SLEEP"
TSTATE_DEAD  == "DEAD"

SchedT == [head  : Link, tail : Link,
           next  : [Thread -> Link], prev : [Thread -> Link],
           state : [Thread -> {TSTATE_READY, TSTATE_RUN, TSTATE_SLEEP, TSTATE_DEAD}],
           chan  : [Thread -> Chan \cup {NoChan}],
           curid : Thread]

-----------------------------------------------------------------------------
(* PTQueueInit.c, on the ready queue                                         *)


tqueue_enqueue(s, pid) ==
  IF s.tail = Null
    THEN [s EXCEPT !.prev[pid] = Null, !.next[pid] = Null,
                   !.head = pid, !.tail = pid]
    ELSE [s EXCEPT !.next = [@ EXCEPT ![s.tail] = pid, ![pid] = Null],
                   !.prev[pid] = s.tail,
                   !.tail = pid]

\* Mutant: the tail is not reset when the last thread leaves.
tqueue_dequeue_KeepsTail(s) ==
  IF s.head = Null
    THEN s
    ELSE [s EXCEPT !.head = s.next[s.head],
                   !.prev = [t \in Thread |-> IF t \in {s.next[s.head], s.head}
                                              THEN Null ELSE @[t]],
                   !.next[s.head] = Null]

\* Mutant: the link of the head is reset before it is read.
tqueue_dequeue_ResetFirst(s) ==
  IF s.head = Null
    THEN s
    ELSE [s EXCEPT !.head = Null, !.tail = Null, !.prev[s.head] = Null, !.next[s.head] = Null]

\* tqueue_dequeue removes s.head; its callers read the popped id from s.head.
tqueue_dequeue(s) ==
  IF s.head = Null
    THEN s
    ELSE LET nxt == s.next[s.head] IN
         [s EXCEPT !.head = nxt,
                   !.tail = IF nxt = Null THEN Null ELSE @,
                   !.prev = [t \in Thread |-> IF t \in {nxt, s.head} THEN Null ELSE @[t]],
                   !.next[s.head] = Null]

\* tqueue_remove takes pid out of the middle of the queue.
tqueue_remove(s, pid) ==
  LET prv == s.prev[pid]
      nxt == s.next[pid]
  IN  [s EXCEPT !.head = IF prv = Null THEN nxt ELSE @,
                !.tail = IF nxt = Null THEN prv ELSE @,
                !.prev = [t \in Thread |-> CASE t = pid -> Null
                                            [] t # pid /\ t = nxt -> prv
                                            [] OTHER -> @[t]],
                !.next = [t \in Thread |-> CASE t = pid -> Null
                                            [] t # pid /\ t = prv /\ prv # nxt -> nxt
                                            [] OTHER -> @[t]]]

-----------------------------------------------------------------------------
(* PThread.c                                                                 *)

\* thread_init, tqueue_init and tcb_init; no thread of Thread runs yet.
thread_init(first) ==
  [head  |-> Null, tail |-> Null,
   next  |-> [t \in Thread |-> Null], prev |-> [t \in Thread |-> Null],
   state |-> [t \in Thread |-> TSTATE_DEAD],
   chan  |-> [t \in Thread |-> NoChan],
   curid |-> first]

\* A new thread becomes ready.
thread_spawn(s, pid) ==
  tqueue_enqueue([s EXCEPT !.state[pid] = TSTATE_READY, !.chan[pid] = NoChan], pid)

\* The switch to thread pid.  If pid resumes inside thread_sleep it first
\* clears its channel; any other thread has none.
SwitchTo(s, pid) ==
  [s EXCEPT !.state[pid] = TSTATE_RUN, !.chan[pid] = NoChan, !.curid = pid]

thread_yield(s) ==
  LET q == tqueue_enqueue([s EXCEPT !.state[s.curid] = TSTATE_READY], s.curid)
  IN  SwitchTo(tqueue_dequeue(q), q.head)

\* The KERN_ASSERT of thread_sleep; when it fails the kernel panics.
CanSleep(s) == s.head # Null

thread_sleep(s, c) ==
  SwitchTo([tqueue_dequeue(s) EXCEPT !.chan[s.curid]  = c,
                                     !.state[s.curid] = TSTATE_SLEEP], s.head)

\* Mutant: the loop does not compare the channel.
WakeOne_AnyChan(s, c, pid) ==
  IF s.chan[pid] # NoChan
    THEN tqueue_enqueue([s EXCEPT !.state[pid] = TSTATE_READY], pid)
    ELSE s

\* The body of the loop of thread_wakeup.
WakeOne(s, c, pid) ==
  IF s.chan[pid] = c
    THEN tqueue_enqueue([s EXCEPT !.state[pid] = TSTATE_READY], pid)
    ELSE s

\* Mutant: the loop ends at the first sleeper.
thread_wakeup_First(s, c) ==
  LET on == {t \in Thread : s.chan[t] = c}
  IN  IF on = {} THEN s ELSE WakeOne(s, c, CHOOSE x \in on : \A y \in on : x <= y)

\* The loop over all thread ids: woken[k] is the value after thread k.
thread_wakeup(s, c) ==
  LET woken[k \in 0 .. NUM_TCB - 1] ==
        IF k = 0 THEN s ELSE WakeOne(woken[k - 1], c, k)
  IN  woken[NUM_TCB - 1]

-----------------------------------------------------------------------------
(* The ready queue as its readers see it.                                    *)

\* The threads met by following the links from the head.
ReadyQueue(s) ==
  LET walk[k \in 0 .. NUM_TCB] ==
        IF k = 0 THEN << >>
        ELSE LET w    == walk[k - 1]
                 last == IF w = << >> THEN s.head ELSE s.next[w[Len(w)]]
             IN  IF last = Null THEN w ELSE Append(w, last)
  IN  walk[NUM_TCB]

Queued(s) == Range(ReadyQueue(s))
=============================================================================
