----------------------------- MODULE SchedProofs -----------------------------
(***************************************************************************)
(* The operations of Sched keep the ready queue sound for every number of   *)
(* threads: a chain of distinct READY threads from the head to the tail,    *)
(* even where thread_wakeup enqueues a thread that is on it already.        *)
(***************************************************************************)
EXTENDS Sched, SequenceTheorems, FiniteSetTheorems, TLAPS

\* Every nonempty set of naturals has a least element.
LEMMA LeastNat ==
  ASSUME NEW T, T \subseteq Nat, T # {}
  PROVE  \E m \in T : \A k \in T : m <= k
<1> DEFINE R == OpToRel(<, Nat)
<1>1. \A x, y \in Nat : x < y => <<x, y>> \in R
  BY DEF OpToRel
<1>2. \E m \in T : \A k \in T : ~ (<<k, m>> \in R)
  <2> HIDE DEF R
  <2>1. IsWellFoundedOn(R, Nat)
    BY Zenon, NatLessThanWellFounded DEF R
  <2> QED
    BY Zenon, <2>1, WFMin
<1> HIDE DEF R
<1>3. PICK m \in T : \A k \in T : ~ (<<k, m>> \in R)
  BY <1>2
<1>4. \A k \in T : ~ (k < m)
  BY Zenon, <1>1, <1>3
<1> QED
  BY <1>4

USE DEF TSTATE_READY, TSTATE_RUN, TSTATE_SLEEP, TSTATE_DEAD

-----------------------------------------------------------------------------
(* The ready queue.                                                          *)

\* Followed from the head, the links of s visit the threads of q, each once,
\* and end at the tail.
Chain(s, q) ==
  /\ q \in Seq(Thread)
  /\ \A j, k \in 1 .. Len(q) : q[j] = q[k] => j = k
  /\ s.head = IF Len(q) = 0 THEN Null ELSE q[1]
  /\ s.tail = IF Len(q) = 0 THEN Null ELSE q[Len(q)]
  /\ \A k \in 1 .. Len(q) : s.next[q[k]] = IF k = Len(q) THEN Null ELSE q[k + 1]

\* The threads of q are ready.
AllReady(s, q) == \A k \in 1 .. Len(q) : s.state[q[k]] = TSTATE_READY

\* r has the threads of q at their places up to the last one, or to one in S.
KeptUntil(q, r, S) ==
  \E m \in 0 .. Len(q) : /\ m <= Len(r) /\ \A j \in 1 .. m : r[j] = q[j]
                         /\ m = Len(q) \/ (m > 0 /\ q[m] \in S)

\* The queue q after pid was enqueued.
Enqueued(u, q, pid) ==
  \E r : /\ Chain(u, r)
         /\ \A k \in 1 .. Len(r) : r[k] = pid \/ \E j \in 1 .. Len(q) : r[k] = q[j]
         /\ KeptUntil(q, r, {pid})

\* The queue of u is one of ready threads and keeps q until one in S.
ReadyUntil(u, q, S) == \E r : Chain(u, r) /\ AllReady(u, r) /\ KeptUntil(q, r, S)

\* Everybody on q but the first is on r.
Follows(q, r) ==
  \A j \in 1 .. Len(q) : j = 1 \/ \E k \in 1 .. Len(r) : r[k] = q[j]

\* Null is not a thread.
LEMMA Threads ==
  /\ Thread \subseteq Nat /\ Thread \subseteq Link /\ Null \in Link /\ Null \notin Thread
  /\ \A l \in Link : l # Null => l \in Thread
BY SchedAssumption DEF Thread, Link, Null

\* tqueue_enqueue appends a thread that is not on the queue, and cuts the queue
\* behind one that is.
LEMMA EnqueueChain ==
  ASSUME NEW s \in SchedT, NEW q, Chain(s, q), NEW pid \in Thread,
         NEW u, u = tqueue_enqueue(s, pid)
  PROVE  /\ u \in SchedT /\ u.state = s.state /\ u.chan = s.chan /\ u.curid = s.curid
         /\ u.head # Null
         /\ Enqueued(u, q, pid)
<1> DEFINE n == Len(q)
<1>0. /\ s.head \in Link /\ s.tail \in Link /\ s.next \in [Thread -> Link]
      /\ s.prev \in [Thread -> Link] /\ q \in Seq(Thread) /\ n \in Nat
      /\ \A k \in 1 .. n : q[k] \in Thread
  BY DEF SchedT, Chain
<1>1. CASE s.tail = Null
  <2>1. n = 0
    BY <1>0, <1>1, Threads DEF Chain
  <2>2. u = [s EXCEPT !.prev = [@ EXCEPT ![pid] = Null], !.next = [@ EXCEPT ![pid] = Null],
                      !.head = pid, !.tail = pid]
    BY <1>1 DEF tqueue_enqueue
  <2>3. /\ u.head = pid /\ u.tail = pid /\ u.next = [s.next EXCEPT ![pid] = Null]
        /\ u.prev = [s.prev EXCEPT ![pid] = Null]
        /\ u.state = s.state /\ u.chan = s.chan /\ u.curid = s.curid
    BY <2>2 DEF SchedT
  <2>4. u \in SchedT
    <3>1. /\ [s.next EXCEPT ![pid] = Null] \in [Thread -> Link]
          /\ [s.prev EXCEPT ![pid] = Null] \in [Thread -> Link]
          /\ pid \in Link
      BY <1>0, Threads
    <3> QED
      BY <2>2, <3>1, ZenonT(40) DEF SchedT
  <2>5. Chain(u, <<pid>>)
    BY <1>0, <2>3 DEF Chain
  <2>6. \A k \in 1 .. Len(<<pid>>) : <<pid>>[k] = pid
    OBVIOUS
  <2>7. KeptUntil(q, <<pid>>, {pid})
    BY <2>1 DEF KeptUntil
  <2> QED
    BY <2>3, <2>4, <2>5, <2>6, <2>7, Threads DEF Enqueued
<1>2. CASE s.tail # Null
  <2>1. n > 0 /\ s.tail = q[n] /\ s.head = q[1] /\ s.tail \in Thread
    BY <1>0, <1>2 DEF Chain
  <2>2. u = [s EXCEPT !.next = [@ EXCEPT ![s.tail] = pid, ![pid] = Null],
                      !.prev = [@ EXCEPT ![pid] = s.tail], !.tail = pid]
    BY <1>2 DEF tqueue_enqueue
  <2>3. /\ u.head = s.head /\ u.tail = pid
        /\ u.next = [s.next EXCEPT ![s.tail] = pid, ![pid] = Null]
        /\ u.state = s.state /\ u.chan = s.chan /\ u.curid = s.curid
    BY <2>2 DEF SchedT
  <2>4. u \in SchedT
    <3>1. /\ [s.next EXCEPT ![s.tail] = pid, ![pid] = Null] \in [Thread -> Link]
          /\ [s.prev EXCEPT ![pid] = s.tail] \in [Thread -> Link]
          /\ pid \in Link
      BY <1>0, <2>1, Threads
    <3> QED
      BY <2>2, <3>1, ZenonT(40) DEF SchedT
  <2>5. \A t \in Thread :
          u.next[t] = IF t = pid THEN Null ELSE IF t = s.tail THEN pid ELSE s.next[t]
    BY <1>0, <2>3
  <2>6. CASE \A k \in 1 .. n : q[k] # pid
    <3> DEFINE r == Append(q, pid)
    <3>1. /\ r \in Seq(Thread) /\ Len(r) = n + 1 /\ r[n + 1] = pid
          /\ \A k \in 1 .. n : r[k] = q[k]
      BY <1>0
    <3> HIDE DEF r
    <3>2. \A k \in 1 .. n + 1 : k \in 1 .. n \/ k = n + 1
      BY <1>0
    <3>3. \A j, k \in 1 .. n + 1 : r[j] = r[k] => j = k
      <4>1. \A j, k \in 1 .. n : r[j] = r[k] => j = k
        BY <3>1 DEF Chain
      <4>2. \A k \in 1 .. n : r[k] # r[n + 1]
        BY <2>6, <3>1
      <4> QED
        BY <3>2, <4>1, <4>2, Zenon
    <3>4. \A k \in 1 .. n + 1 : u.next[r[k]] = IF k = n + 1 THEN Null ELSE r[k + 1]
      <4>1. u.next[r[n + 1]] = Null
        BY <2>5, <3>1
      <4>2. ASSUME NEW k \in 1 .. n PROVE u.next[r[k]] = r[k + 1]
        <5>1. r[k] = q[k] /\ q[k] # pid /\ q[k] \in Thread
          BY <1>0, <2>6, <3>1
        <5>2. CASE k = n
          BY <2>1, <2>5, <3>1, <5>1, <5>2
        <5>3. CASE k # n
          <6>1. q[k] # s.tail
            BY <1>0, <2>1, <5>3 DEF Chain
          <6>2. s.next[q[k]] = q[k + 1] /\ k + 1 \in 1 .. n
            BY <1>0, <5>3 DEF Chain
          <6> QED
            BY <2>5, <3>1, <5>1, <6>1, <6>2
        <5> QED
          BY <5>2, <5>3
      <4> QED
        BY <1>0, <3>2, <4>1, <4>2
    <3>5. Chain(u, r)
      <4>1. /\ u.head = IF Len(r) = 0 THEN Null ELSE r[1]
            /\ u.tail = IF Len(r) = 0 THEN Null ELSE r[Len(r)]
        BY <1>0, <2>1, <2>3, <3>1
      <4> QED
        BY <3>1, <3>3, <3>4, <4>1 DEF Chain
    <3>6. \A k \in 1 .. Len(r) : r[k] = pid \/ \E j \in 1 .. Len(q) : r[k] = q[j]
      BY <3>1, <3>2
    <3>7. KeptUntil(q, r, {pid})
      BY <1>0, <3>1 DEF KeptUntil
    <3>8. Enqueued(u, q, pid)
      BY <3>5, <3>6, <3>7, Zenon DEF Enqueued
    <3>9. u.head # Null
      BY <1>0, <2>1, <2>3, Threads
    <3> QED
      BY <2>3, <2>4, <3>8, <3>9
  <2>7. CASE \E k \in 1 .. n : q[k] = pid
    <3> PICK m \in 1 .. n : q[m] = pid
      BY <2>7
    <3> DEFINE r == [k \in 1 .. m |-> q[k]]
    <3>1. r \in Seq(Thread) /\ Len(r) = m /\ \A k \in 1 .. m : r[k] = q[k]
      BY <1>0
    <3> HIDE DEF r
    <3>2. 1 .. m \subseteq 1 .. n /\ m \in Nat /\ m > 0
      BY <1>0
    <3>3. \A j, k \in 1 .. m : r[j] = r[k] => j = k
      BY <3>1, <3>2 DEF Chain
    <3>4. ASSUME NEW k \in 1 .. m PROVE u.next[r[k]] = IF k = m THEN Null ELSE r[k + 1]
      <4>1. k \in 1 .. n /\ r[k] = q[k] /\ q[k] \in Thread
        BY <1>0, <3>1, <3>2
      <4>2. CASE k = m
        BY <2>5, <4>1, <4>2
      <4>3. CASE k # m
        <5>1. k # n /\ k + 1 \in 1 .. m /\ k + 1 \in 1 .. n
          BY <1>0, <4>3
        <5>2. q[k] # pid /\ q[k] # s.tail
          <6>1. n \in 1 .. n /\ \A i, j \in 1 .. n : q[i] = q[j] => i = j
            BY <1>0, <2>1 DEF Chain
          <6> QED
            BY <2>1, <4>1, <4>3, <5>1, <6>1
        <5>3. s.next[q[k]] = q[k + 1]
          BY <4>1, <5>1 DEF Chain
        <5> QED
          BY <2>5, <3>1, <4>1, <4>3, <5>1, <5>2, <5>3
      <4> QED
        BY <4>2, <4>3
    <3>5. Chain(u, r)
      <4>1. /\ u.head = IF Len(r) = 0 THEN Null ELSE r[1]
            /\ u.tail = IF Len(r) = 0 THEN Null ELSE r[Len(r)]
        BY <1>0, <2>1, <2>3, <3>1, <3>2
      <4> QED
        BY <3>1, <3>3, <3>4, <4>1 DEF Chain
    <3>6. \A k \in 1 .. Len(r) : r[k] = pid \/ \E j \in 1 .. Len(q) : r[k] = q[j]
      BY <3>1, <3>2
    <3>7. KeptUntil(q, r, {pid})
      BY <1>0, <3>1, <3>2 DEF KeptUntil
    <3>8. Enqueued(u, q, pid)
      BY <3>5, <3>6, <3>7, Zenon DEF Enqueued
    <3>9. u.head # Null
      BY <1>0, <2>1, <2>3, Threads
    <3> QED
      BY <2>3, <2>4, <3>8, <3>9
  <2> QED
    BY <2>6, <2>7
<1> QED
  BY <1>1, <1>2

\* tqueue_dequeue takes the first thread off the queue.
LEMMA DequeueChain ==
  ASSUME NEW s \in SchedT, NEW q, Chain(s, q), s.head # Null,
         NEW u, u = tqueue_dequeue(s)
  PROVE  /\ u \in SchedT /\ u.state = s.state /\ u.chan = s.chan /\ u.curid = s.curid
         /\ Len(q) > 0 /\ s.head = q[1] /\ s.head \in Thread
         /\ \E r : /\ Chain(u, r)
                   /\ \A k \in 1 .. Len(r) :
                        r[k] # s.head /\ \E j \in 1 .. Len(q) : r[k] = q[j]
                   /\ Follows(q, r)
<1> DEFINE n == Len(q)
           nxt == s.next[s.head]
<1>0. /\ s.head \in Link /\ s.tail \in Link /\ s.next \in [Thread -> Link]
      /\ s.prev \in [Thread -> Link] /\ q \in Seq(Thread) /\ n \in Nat
      /\ \A k \in 1 .. n : q[k] \in Thread
  BY DEF SchedT, Chain
<1>1. n > 0 /\ s.head = q[1] /\ s.head \in Thread /\ s.tail = q[n] /\ 1 \in 1 .. n
  BY <1>0 DEF Chain
<1>2. nxt \in Link /\ nxt = IF n = 1 THEN Null ELSE q[2]
  <2>1. s.next[q[1]] = IF 1 = Len(q) THEN Null ELSE q[1 + 1]
    BY Zenon, <1>1 DEF Chain
  <2> QED
    BY <1>0, <1>1, <2>1
<1>3. n > 1 => nxt \in Thread /\ nxt # Null
  BY <1>0, <1>2, Threads
<1> HIDE DEF nxt
<1>4. u = [s EXCEPT !.head = nxt, !.tail = IF nxt = Null THEN Null ELSE @,
                    !.prev = [t \in Thread |-> IF t \in {nxt, s.head} THEN Null ELSE @[t]],
                    !.next = [@ EXCEPT ![s.head] = Null]]
  BY DEF tqueue_dequeue, nxt
<1>5. /\ u.head = nxt /\ u.tail = IF nxt = Null THEN Null ELSE s.tail
      /\ u.next = [s.next EXCEPT ![s.head] = Null]
      /\ u.state = s.state /\ u.chan = s.chan /\ u.curid = s.curid
  BY <1>4 DEF SchedT
<1>6. u \in SchedT
  <2>1. /\ [s.next EXCEPT ![s.head] = Null] \in [Thread -> Link]
        /\ [t \in Thread |-> IF t \in {nxt, s.head} THEN Null ELSE s.prev[t]]
             \in [Thread -> Link]
        /\ (IF nxt = Null THEN Null ELSE s.tail) \in Link
    BY Zenon, <1>0, Threads
  <2> QED
    BY <1>2, <1>4, <2>1, ZenonT(40) DEF SchedT
<1>7. \A t \in Thread : u.next[t] = IF t = s.head THEN Null ELSE s.next[t]
  BY <1>0, <1>5
<1> DEFINE r == [k \in 1 .. n - 1 |-> q[k + 1]]
<1>8. /\ r \in Seq(Thread) /\ Len(r) = n - 1
      /\ \A k \in 1 .. n - 1 : r[k] = q[k + 1] /\ k + 1 \in 1 .. n
  <2>1. n - 1 \in Nat /\ \A k \in 1 .. n - 1 : k + 1 \in 1 .. n
    BY <1>0, <1>1
  <2>2. \A k \in 1 .. n - 1 : q[k + 1] \in Thread
    BY <1>0, <2>1
  <2> QED
    BY <2>1, <2>2
<1> HIDE DEF r
<1>9. \A j, k \in 1 .. n : q[j] = q[k] => j = k
  BY DEF Chain
<1>10. ASSUME NEW j \in 1 .. n - 1, NEW k \in 1 .. n - 1, r[j] = r[k] PROVE j = k
  <2>1. j + 1 = k + 1
    BY <1>8, <1>9, <1>10
  <2> QED
    BY <2>1
<1>11. ASSUME NEW k \in 1 .. n - 1
       PROVE  r[k] # s.head /\ \E j \in 1 .. n : r[k] = q[j]
  <2>1. r[k] = q[k + 1] /\ k + 1 \in 1 .. n /\ k + 1 # 1
    BY <1>8
  <2> QED
    BY <1>1, <1>9, <2>1
<1>12. ASSUME NEW k \in 1 .. n - 1
       PROVE  u.next[r[k]] = IF k = n - 1 THEN Null ELSE r[k + 1]
  <2>1. r[k] = q[k + 1] /\ k + 1 \in 1 .. n /\ q[k + 1] \in Thread
    BY <1>0, <1>8
  <2>2. u.next[r[k]] = s.next[q[k + 1]]
    BY <1>7, <1>11, <2>1
  <2>3. s.next[q[k + 1]] = IF k + 1 = n THEN Null ELSE q[(k + 1) + 1]
    BY <2>1 DEF Chain
  <2>4. CASE k = n - 1
    BY <1>0, <2>2, <2>3, <2>4
  <2>5. CASE k # n - 1
    <3>1. k + 1 # n /\ k + 1 \in 1 .. n - 1
      BY <1>0, <2>5
    <3>2. r[k + 1] = q[(k + 1) + 1]
      BY <1>8, <3>1
    <3> QED
      BY <2>2, <2>3, <2>5, <3>1, <3>2
  <2> QED
    BY <2>4, <2>5
<1>13. /\ u.head = IF Len(r) = 0 THEN Null ELSE r[1]
       /\ u.tail = IF Len(r) = 0 THEN Null ELSE r[Len(r)]
  <2>1. CASE n = 1
    <3>1. nxt = Null /\ Len(r) = 0
      BY <1>2, <1>8, <2>1
    <3> QED
      BY <1>5, <3>1
  <2>2. CASE n # 1
    <3>1. n > 1 /\ 1 \in 1 .. n - 1 /\ n - 1 \in 1 .. n - 1 /\ (n - 1) + 1 = n
      <4>1. n \in Nat /\ n > 0
        BY <1>0, <1>1, Zenon
      <4> HIDE DEF n
      <4> QED
        BY <2>2, <4>1
    <3>2. r[1] = q[1 + 1] /\ r[n - 1] = q[n]
      BY <1>8, <3>1
    <3> QED
      BY <1>1, <1>2, <1>3, <1>5, <1>8, <3>1, <3>2
  <2> QED
    BY <2>1, <2>2
<1>14. Chain(u, r)
  BY <1>8, <1>10, <1>12, <1>13 DEF Chain
<1>15. Follows(q, r)
  <2> SUFFICES ASSUME NEW j \in 1 .. n, j # 1
               PROVE  \E k \in 1 .. Len(r) : r[k] = q[j]
    BY DEF Follows
  <2>1. j - 1 \in 1 .. n - 1 /\ (j - 1) + 1 = j
    BY <1>0
  <2> QED
    BY Zenon, <1>8, <2>1
<1>16. \E x : /\ Chain(u, x)
              /\ \A k \in 1 .. Len(x) :
                   x[k] # s.head /\ \E j \in 1 .. Len(q) : x[k] = q[j]
              /\ Follows(q, x)
  BY <1>8, <1>11, <1>14, <1>15
<1> QED
  BY <1>1, <1>5, <1>6, <1>16

-----------------------------------------------------------------------------
(* The scheduler.                                                            *)

\* What the thread layer keeps between two calls: a sound queue of ready
\* threads, one running thread, and channels only where somebody slept.
SchedSound(s) ==
  /\ s \in SchedT
  /\ \E q : Chain(s, q) /\ AllReady(s, q)
  /\ \A t \in Thread : s.state[t] = TSTATE_RUN <=> t = s.curid
  /\ s.chan[s.curid] = NoChan
  /\ \A t \in Thread : s.state[t] = TSTATE_DEAD => s.chan[t] = NoChan

\* The links of a queue are all that Chain looks at.
LEMMA ChainSame ==
  ASSUME NEW s, NEW u, u.head = s.head, u.tail = s.tail, u.next = s.next, NEW q, Chain(s, q)
  PROVE  Chain(u, q)
BY DEF Chain

\* The fields after a switch.
LEMMA SwitchFields ==
  ASSUME NEW s \in SchedT, NEW pid \in Thread, NEW u, u = SwitchTo(s, pid)
  PROVE  /\ u \in SchedT
         /\ u.head = s.head /\ u.tail = s.tail /\ u.next = s.next
         /\ u.state = [s.state EXCEPT ![pid] = TSTATE_RUN]
         /\ u.chan = [s.chan EXCEPT ![pid] = NoChan] /\ u.curid = pid
<1>1. u = [s EXCEPT !.state = [@ EXCEPT ![pid] = TSTATE_RUN],
                    !.chan = [@ EXCEPT ![pid] = NoChan], !.curid = pid]
  BY DEF SwitchTo
<1>2. /\ u.head = s.head /\ u.tail = s.tail /\ u.next = s.next
      /\ u.state = [s.state EXCEPT ![pid] = TSTATE_RUN]
      /\ u.chan = [s.chan EXCEPT ![pid] = NoChan] /\ u.curid = pid
  BY <1>1 DEF SchedT
<1>3. /\ [s.state EXCEPT ![pid] = TSTATE_RUN] \in
           [Thread -> {TSTATE_READY, TSTATE_RUN, TSTATE_SLEEP, TSTATE_DEAD}]
      /\ [s.chan EXCEPT ![pid] = NoChan] \in [Thread -> Chan \cup {NoChan}]
  BY DEF SchedT
<1>4. u \in SchedT
  BY <1>1, <1>3, ZenonT(40) DEF SchedT
<1> QED
  BY <1>2, <1>4

\* A thread made ready and enqueued, on the queue or not: the running thread and
\* all channels stay.
LEMMA ReadyAndEnqueue ==
  ASSUME NEW s \in SchedT, NEW q, Chain(s, q), AllReady(s, q), NEW pid \in Thread,
         NEW u, u = tqueue_enqueue([s EXCEPT !.state = [@ EXCEPT ![pid] = TSTATE_READY]], pid)
  PROVE  /\ u \in SchedT /\ u.chan = s.chan /\ u.curid = s.curid /\ u.head # Null
         /\ u.state = [s.state EXCEPT ![pid] = TSTATE_READY]
         /\ ReadyUntil(u, q, {pid})
<1> DEFINE m == [s EXCEPT !.state = [@ EXCEPT ![pid] = TSTATE_READY]]
<1>1. m = [s EXCEPT !.state = [@ EXCEPT ![pid] = TSTATE_READY]]
  OBVIOUS
<1> HIDE DEF m
<1>2. /\ m \in SchedT /\ m.head = s.head /\ m.tail = s.tail /\ m.next = s.next
      /\ m.chan = s.chan /\ m.curid = s.curid
      /\ m.state = [s.state EXCEPT ![pid] = TSTATE_READY]
  <2>1. /\ m.head = s.head /\ m.tail = s.tail /\ m.next = s.next
        /\ m.chan = s.chan /\ m.curid = s.curid
        /\ m.state = [s.state EXCEPT ![pid] = TSTATE_READY]
    BY <1>1 DEF SchedT
  <2>2. [s.state EXCEPT ![pid] = TSTATE_READY] \in
          [Thread -> {TSTATE_READY, TSTATE_RUN, TSTATE_SLEEP, TSTATE_DEAD}]
    BY DEF SchedT
  <2>3. m \in SchedT
    BY <1>1, <2>2, ZenonT(40) DEF SchedT
  <2> QED
    BY <2>1, <2>3
<1>3. Chain(m, q)
  BY <1>2, ChainSame
<1>4. u = tqueue_enqueue(m, pid)
  BY <1>1
<1>5. /\ u \in SchedT /\ u.state = m.state /\ u.chan = m.chan /\ u.curid = m.curid
      /\ u.head # Null
      /\ Enqueued(u, q, pid)
  BY <1>2, <1>3, <1>4, EnqueueChain
<1>6. PICK r : /\ Chain(u, r)
               /\ \A k \in 1 .. Len(r) : r[k] = pid \/ \E j \in 1 .. Len(q) : r[k] = q[j]
               /\ KeptUntil(q, r, {pid})
  BY <1>5 DEF Enqueued
<1>7. s.state \in [Thread -> {TSTATE_READY, TSTATE_RUN, TSTATE_SLEEP, TSTATE_DEAD}]
  BY DEF SchedT
<1>8. \A k \in 1 .. Len(q) : q[k] \in Thread
  BY DEF Chain
<1>9. AllReady(u, r)
  BY <1>2, <1>5, <1>6, <1>7, <1>8 DEF AllReady
<1> QED
  BY <1>2, <1>5, <1>6, <1>9 DEF ReadyUntil

\* Nobody runs, and thread pid has left the queue.
Dispatches(s, pid) ==
  /\ s \in SchedT /\ pid \in Thread
  /\ \E q : Chain(s, q) /\ AllReady(s, q) /\ \A k \in 1 .. Len(q) : q[k] # pid
  /\ \A t \in Thread : s.state[t] # TSTATE_RUN
  /\ \A t \in Thread : s.state[t] = TSTATE_DEAD => s.chan[t] = NoChan

\* The queue of s is that of u.
SameQueue(s, u) == \A q : Chain(s, q) => Chain(u, q)

\* A switch to a thread that has just left the queue.
LEMMA SwitchSound ==
  ASSUME NEW s, NEW pid, Dispatches(s, pid), NEW u, u = SwitchTo(s, pid)
  PROVE  /\ SchedSound(u)
         /\ u.state = [s.state EXCEPT ![pid] = TSTATE_RUN]
         /\ u.chan = [s.chan EXCEPT ![pid] = NoChan] /\ u.curid = pid
         /\ SameQueue(s, u)
<1>0. /\ s \in SchedT /\ pid \in Thread
      /\ \A t \in Thread : s.state[t] # TSTATE_RUN
      /\ \A t \in Thread : s.state[t] = TSTATE_DEAD => s.chan[t] = NoChan
  BY DEF Dispatches
<1> PICK q : Chain(s, q) /\ AllReady(s, q) /\ \A k \in 1 .. Len(q) : q[k] # pid
  BY DEF Dispatches
<1>1. /\ u \in SchedT
      /\ u.head = s.head /\ u.tail = s.tail /\ u.next = s.next
      /\ u.state = [s.state EXCEPT ![pid] = TSTATE_RUN]
      /\ u.chan = [s.chan EXCEPT ![pid] = NoChan] /\ u.curid = pid
  BY <1>0, SwitchFields
<1>2. SameQueue(s, u) /\ Chain(u, q)
  BY <1>1, ChainSame DEF SameQueue
<1>3. /\ s.state \in [Thread -> {TSTATE_READY, TSTATE_RUN, TSTATE_SLEEP, TSTATE_DEAD}]
      /\ s.chan \in [Thread -> Chan \cup {NoChan}]
  BY <1>0 DEF SchedT
<1>4. \A k \in 1 .. Len(q) : q[k] \in Thread
  BY DEF Chain
<1>5. AllReady(u, q)
  BY <1>0, <1>1, <1>3, <1>4 DEF AllReady
<1>6. /\ \A t \in Thread : u.state[t] = TSTATE_RUN <=> t = u.curid
      /\ u.chan[u.curid] = NoChan
      /\ \A t \in Thread : u.state[t] = TSTATE_DEAD => u.chan[t] = NoChan
  BY <1>0, <1>1, <1>3
<1> QED
  BY <1>1, <1>2, <1>5, <1>6 DEF SchedSound

\* The threads that sleep, and their channels, are those of s.
SameSleepers(s, u) ==
  \A t \in Thread : /\ u.state[t] = TSTATE_SLEEP <=> s.state[t] = TSTATE_SLEEP
                    /\ u.state[t] = TSTATE_SLEEP => u.chan[t] = s.chan[t]

\* Who was on the ready queue of s is on that of u or runs.
LosesNobody(s, u) ==
  \E q, r : /\ Chain(s, q) /\ Chain(u, r)
            /\ \A j \in 1 .. Len(q) :
                 q[j] = u.curid \/ \E k \in 1 .. Len(r) : r[k] = q[j]

\* A queue that is kept until one who is not on it is kept whole.
LEMMA KeptWhole ==
  ASSUME NEW q, NEW r, NEW pid, KeptUntil(q, r, {pid}), \A j \in 1 .. Len(q) : q[j] # pid,
         Len(q) \in Nat, Len(r) \in Nat
  PROVE  Len(q) <= Len(r) /\ \A j \in 1 .. Len(q) : r[j] = q[j]
<1> PICK m \in 0 .. Len(q) : /\ m <= Len(r) /\ \A j \in 1 .. m : r[j] = q[j]
                             /\ m = Len(q) \/ (m > 0 /\ q[m] \in {pid})
  BY DEF KeptUntil
<1>1. m = Len(q)
  OBVIOUS
<1> QED
  BY <1>1

\* thread_yield keeps the scheduler sound, puts nobody to sleep and loses nobody.
LEMMA YieldSound ==
  ASSUME NEW s, SchedSound(s), NEW u, u = thread_yield(s)
  PROVE  SchedSound(u) /\ SameSleepers(s, u) /\ LosesNobody(s, u)
<1> DEFINE e == tqueue_enqueue([s EXCEPT !.state = [@ EXCEPT ![s.curid] = TSTATE_READY]], s.curid)
           d == tqueue_dequeue(e)
<1>1. u = SwitchTo(d, e.head)
  BY DEF thread_yield
<1>2. /\ s \in SchedT /\ s.curid \in Thread
      /\ s.state \in [Thread -> {TSTATE_READY, TSTATE_RUN, TSTATE_SLEEP, TSTATE_DEAD}]
      /\ s.chan \in [Thread -> Chan \cup {NoChan}]
      /\ \A t \in Thread : s.state[t] = TSTATE_RUN <=> t = s.curid
      /\ \A t \in Thread : s.state[t] = TSTATE_DEAD => s.chan[t] = NoChan
  BY DEF SchedSound, SchedT
<1>3. PICK q : Chain(s, q) /\ AllReady(s, q)
  BY DEF SchedSound
<1>4. e = tqueue_enqueue([s EXCEPT !.state = [@ EXCEPT ![s.curid] = TSTATE_READY]], s.curid)
  OBVIOUS
<1>5. d = tqueue_dequeue(e)
  OBVIOUS
<1> HIDE DEF d, e
<1>6. /\ e \in SchedT /\ e.chan = s.chan /\ e.curid = s.curid /\ e.head # Null
      /\ e.state = [s.state EXCEPT ![s.curid] = TSTATE_READY]
      /\ ReadyUntil(e, q, {s.curid})
  <2>1. PICK pid \in Thread : pid = s.curid
    BY <1>2
  <2>2. e = tqueue_enqueue([s EXCEPT !.state = [@ EXCEPT ![pid] = TSTATE_READY]], pid)
    BY <1>4, <2>1
  <2>3. /\ e \in SchedT /\ e.chan = s.chan /\ e.curid = s.curid /\ e.head # Null
        /\ e.state = [s.state EXCEPT ![pid] = TSTATE_READY]
        /\ ReadyUntil(e, q, {pid})
    BY <1>2, <1>3, <2>2, ReadyAndEnqueue
  <2> QED
    BY <2>1, <2>3
<1>7. PICK r : Chain(e, r) /\ AllReady(e, r) /\ KeptUntil(q, r, {s.curid})
  BY <1>6 DEF ReadyUntil
<1>8. /\ d \in SchedT /\ d.state = e.state /\ d.chan = e.chan /\ d.curid = e.curid
      /\ Len(r) > 0 /\ e.head = r[1] /\ e.head \in Thread
      /\ \E x : /\ Chain(d, x)
                /\ \A k \in 1 .. Len(x) :
                     x[k] # e.head /\ \E j \in 1 .. Len(r) : x[k] = r[j]
                /\ Follows(r, x)
  BY <1>5, <1>6, <1>7, DequeueChain
<1>9. PICK x : /\ Chain(d, x)
               /\ \A k \in 1 .. Len(x) :
                    x[k] # e.head /\ \E j \in 1 .. Len(r) : x[k] = r[j]
               /\ Follows(r, x)
  BY <1>8
<1>10. AllReady(d, x) /\ \A k \in 1 .. Len(x) : x[k] # e.head
  BY <1>7, <1>8, <1>9 DEF AllReady
<1>11. /\ \A t \in Thread : d.state[t] # TSTATE_RUN
       /\ \A t \in Thread : d.state[t] = TSTATE_DEAD => d.chan[t] = NoChan
  BY <1>2, <1>6, <1>8
<1>12. /\ SchedSound(u)
       /\ u.state = [d.state EXCEPT ![e.head] = TSTATE_RUN]
       /\ u.chan = [d.chan EXCEPT ![e.head] = NoChan]
       /\ u.curid = e.head /\ SameQueue(d, u)
  <2>1. Dispatches(d, e.head)
    BY <1>8, <1>9, <1>10, <1>11 DEF Dispatches
  <2>2. PICK v, pid : v = d /\ pid = e.head
    OBVIOUS
  <2>3. Dispatches(v, pid) /\ u = SwitchTo(v, pid)
    BY <1>1, <2>1, <2>2
  <2>4. /\ SchedSound(u)
        /\ u.state = [v.state EXCEPT ![pid] = TSTATE_RUN]
        /\ u.chan = [v.chan EXCEPT ![pid] = NoChan] /\ u.curid = pid
        /\ SameQueue(v, u)
    BY Zenon, <2>3, SwitchSound
  <2> QED
    BY <2>2, <2>4
<1>13. e.state[e.head] = TSTATE_READY
  <2>1. Len(r) \in Nat
    BY <1>7 DEF Chain
  <2> QED
    BY <1>7, <1>8, <2>1 DEF AllReady
<1>14. SameSleepers(s, u)
  BY <1>2, <1>6, <1>8, <1>12, <1>13 DEF SameSleepers
<1>15. LosesNobody(s, u)
  <2>1. /\ Len(q) \in Nat /\ Len(r) \in Nat
        /\ \A j \in 1 .. Len(q) : q[j] \in Thread /\ s.state[q[j]] = TSTATE_READY
    BY <1>3, <1>7 DEF Chain, AllReady
  <2>2. \A j \in 1 .. Len(q) : q[j] # s.curid
    BY <1>2, <2>1
  <2>3. Len(q) <= Len(r) /\ \A j \in 1 .. Len(q) : r[j] = q[j]
    BY Zenon, <1>7, <2>1, <2>2, KeptWhole
  <2>4. u.curid = e.head /\ Chain(u, x)
    BY <1>9, <1>12 DEF SameQueue
  <2>5. ASSUME NEW j \in 1 .. Len(q)
        PROVE  q[j] = u.curid \/ \E k \in 1 .. Len(x) : x[k] = q[j]
    <3>1. j \in 1 .. Len(r) /\ r[j] = q[j]
      BY <2>1, <2>3
    <3> QED
      BY <1>8, <1>9, <2>4, <3>1 DEF Follows
  <2> QED
    BY <1>3, <2>4, <2>5 DEF LosesNobody
<1> QED
  BY <1>12, <1>14, <1>15

\* thread_sleep keeps the scheduler sound and puts the running thread to sleep on
\* c, if there is a thread to switch to.
LEMMA SleepSound ==
  ASSUME NEW s, SchedSound(s), CanSleep(s), NEW c \in Chan, NEW u, u = thread_sleep(s, c)
  PROVE  /\ SchedSound(u)
         /\ \A t \in Thread :
              /\ u.state[t] = TSTATE_SLEEP <=> s.state[t] = TSTATE_SLEEP \/ t = s.curid
              /\ u.state[t] = TSTATE_SLEEP => u.chan[t] = IF t = s.curid THEN c ELSE s.chan[t]
         /\ LosesNobody(s, u)
<1> DEFINE d == tqueue_dequeue(s)
           x == [d EXCEPT !.chan = [@ EXCEPT ![s.curid] = c],
                          !.state = [@ EXCEPT ![s.curid] = TSTATE_SLEEP]]
<1>1. u = SwitchTo(x, s.head)
  BY DEF thread_sleep
<1>2. /\ s \in SchedT /\ s.curid \in Thread /\ s.head # Null
      /\ s.state \in [Thread -> {TSTATE_READY, TSTATE_RUN, TSTATE_SLEEP, TSTATE_DEAD}]
      /\ s.chan \in [Thread -> Chan \cup {NoChan}]
      /\ \A t \in Thread : s.state[t] = TSTATE_RUN <=> t = s.curid
      /\ \A t \in Thread : s.state[t] = TSTATE_DEAD => s.chan[t] = NoChan
  BY DEF SchedSound, SchedT, CanSleep
<1>3. PICK q : Chain(s, q) /\ AllReady(s, q)
  BY DEF SchedSound
<1>4. d = tqueue_dequeue(s)
  OBVIOUS
<1> HIDE DEF d
<1>5. /\ d \in SchedT /\ d.state = s.state /\ d.chan = s.chan /\ d.curid = s.curid
      /\ Len(q) > 0 /\ s.head = q[1] /\ s.head \in Thread
      /\ \E r : /\ Chain(d, r)
                /\ \A k \in 1 .. Len(r) :
                     r[k] # s.head /\ \E j \in 1 .. Len(q) : r[k] = q[j]
                /\ Follows(q, r)
  BY <1>2, <1>3, <1>4, DequeueChain
<1>6. PICK r : /\ Chain(d, r)
               /\ \A k \in 1 .. Len(r) :
                    r[k] # s.head /\ \E j \in 1 .. Len(q) : r[k] = q[j]
               /\ Follows(q, r)
  BY Zenon, <1>5
<1>7. x = [d EXCEPT !.chan = [@ EXCEPT ![s.curid] = c],
                    !.state = [@ EXCEPT ![s.curid] = TSTATE_SLEEP]]
  OBVIOUS
<1> HIDE DEF x
<1>8. /\ x.head = d.head /\ x.tail = d.tail /\ x.next = d.next
      /\ x.chan = [s.chan EXCEPT ![s.curid] = c]
      /\ x.state = [s.state EXCEPT ![s.curid] = TSTATE_SLEEP]
  BY <1>5, <1>7 DEF SchedT
<1>9. x \in SchedT
  <2>1. /\ [s.state EXCEPT ![s.curid] = TSTATE_SLEEP] \in
             [Thread -> {TSTATE_READY, TSTATE_RUN, TSTATE_SLEEP, TSTATE_DEAD}]
        /\ [s.chan EXCEPT ![s.curid] = c] \in [Thread -> Chan \cup {NoChan}]
    BY <1>2
  <2> QED
    BY <1>5, <1>7, <2>1, ZenonT(40) DEF SchedT
<1>10. Chain(x, r)
  BY <1>6, <1>8, ChainSame
<1>11. \A k \in 1 .. Len(q) : q[k] \in Thread /\ s.state[q[k]] = TSTATE_READY
  BY <1>3 DEF Chain, AllReady
<1>12. \A k \in 1 .. Len(q) : q[k] # s.curid
  BY <1>2, <1>11
<1>13. AllReady(x, r)
  BY <1>2, <1>6, <1>8, <1>11, <1>12 DEF AllReady
<1>14. /\ \A t \in Thread : x.state[t] # TSTATE_RUN
       /\ \A t \in Thread : x.state[t] = TSTATE_DEAD => x.chan[t] = NoChan
  BY <1>2, <1>8
<1>15. /\ SchedSound(u)
       /\ u.state = [x.state EXCEPT ![s.head] = TSTATE_RUN]
       /\ u.chan = [x.chan EXCEPT ![s.head] = NoChan]
       /\ u.curid = s.head /\ SameQueue(x, u)
  <2>1. Dispatches(x, s.head)
    BY <1>5, <1>6, <1>9, <1>10, <1>13, <1>14 DEF Dispatches
  <2>2. PICK v, pid : v = x /\ pid = s.head
    OBVIOUS
  <2>3. Dispatches(v, pid) /\ u = SwitchTo(v, pid)
    BY <1>1, <2>1, <2>2
  <2>4. /\ SchedSound(u)
        /\ u.state = [v.state EXCEPT ![pid] = TSTATE_RUN]
        /\ u.chan = [v.chan EXCEPT ![pid] = NoChan] /\ u.curid = pid
        /\ SameQueue(v, u)
    BY Zenon, <2>3, SwitchSound
  <2> QED
    BY <2>2, <2>4
<1>16. s.state[s.head] = TSTATE_READY
  <2>1. Len(q) \in Nat
    BY <1>3 DEF Chain
  <2>2. 1 \in 1 .. Len(q)
    BY <1>5, <2>1
  <2> QED
    BY <1>5, <1>11, <2>2
<1>17. LosesNobody(s, u)
  <2>1. u.curid = s.head /\ Chain(u, r)
    BY <1>10, <1>15 DEF SameQueue
  <2>2. \A j \in 1 .. Len(q) : q[j] = u.curid \/ \E k \in 1 .. Len(r) : r[k] = q[j]
    BY <1>5, <1>6, <2>1 DEF Follows
  <2> QED
    BY <1>3, <2>1, <2>2 DEF LosesNobody
<1> QED
  BY <1>2, <1>5, <1>8, <1>15, <1>16, <1>17

\* thread_spawn makes a dead thread ready.
LEMMA SpawnSound ==
  ASSUME NEW s, SchedSound(s), NEW pid \in Thread, s.state[pid] = TSTATE_DEAD,
         NEW u, u = thread_spawn(s, pid)
  PROVE  SchedSound(u) /\ SameSleepers(s, u) /\ u.curid = s.curid /\ LosesNobody(s, u)
<1> DEFINE m == [s EXCEPT !.state = [@ EXCEPT ![pid] = TSTATE_READY],
                          !.chan = [@ EXCEPT ![pid] = NoChan]]
<1>1. u = tqueue_enqueue(m, pid)
  BY DEF thread_spawn
<1>2. /\ s \in SchedT /\ s.curid \in Thread
      /\ s.state \in [Thread -> {TSTATE_READY, TSTATE_RUN, TSTATE_SLEEP, TSTATE_DEAD}]
      /\ s.chan \in [Thread -> Chan \cup {NoChan}]
      /\ \A t \in Thread : s.state[t] = TSTATE_RUN <=> t = s.curid
      /\ s.chan[s.curid] = NoChan
      /\ \A t \in Thread : s.state[t] = TSTATE_DEAD => s.chan[t] = NoChan
  BY DEF SchedSound, SchedT
<1>3. PICK q : Chain(s, q) /\ AllReady(s, q)
  BY DEF SchedSound
<1>4. m = [s EXCEPT !.state = [@ EXCEPT ![pid] = TSTATE_READY],
                    !.chan = [@ EXCEPT ![pid] = NoChan]]
  OBVIOUS
<1> HIDE DEF m
<1>5. /\ m.head = s.head /\ m.tail = s.tail /\ m.next = s.next /\ m.curid = s.curid
      /\ m.chan = [s.chan EXCEPT ![pid] = NoChan]
      /\ m.state = [s.state EXCEPT ![pid] = TSTATE_READY]
  BY <1>2, <1>4 DEF SchedT
<1>6. m \in SchedT
  <2>1. /\ [s.state EXCEPT ![pid] = TSTATE_READY] \in
             [Thread -> {TSTATE_READY, TSTATE_RUN, TSTATE_SLEEP, TSTATE_DEAD}]
        /\ [s.chan EXCEPT ![pid] = NoChan] \in [Thread -> Chan \cup {NoChan}]
    BY <1>2
  <2> QED
    BY <1>2, <1>4, <2>1, ZenonT(40) DEF SchedT
<1>7. Chain(m, q)
  BY <1>3, <1>5, ChainSame
<1>8. /\ u \in SchedT /\ u.state = m.state /\ u.chan = m.chan /\ u.curid = m.curid
      /\ Enqueued(u, q, pid)
  BY <1>1, <1>6, <1>7, EnqueueChain
<1>9. PICK r : /\ Chain(u, r)
               /\ \A k \in 1 .. Len(r) : r[k] = pid \/ \E j \in 1 .. Len(q) : r[k] = q[j]
               /\ KeptUntil(q, r, {pid})
  BY <1>8 DEF Enqueued
<1>10. \A k \in 1 .. Len(q) : q[k] \in Thread /\ s.state[q[k]] = TSTATE_READY
  BY <1>3 DEF Chain, AllReady
<1>11. AllReady(u, r)
  BY <1>2, <1>5, <1>8, <1>9, <1>10 DEF AllReady
<1>12. /\ \A t \in Thread : u.state[t] = TSTATE_RUN <=> t = u.curid
       /\ u.chan[u.curid] = NoChan
       /\ \A t \in Thread : u.state[t] = TSTATE_DEAD => u.chan[t] = NoChan
  BY <1>2, <1>5, <1>8
<1>13. SameSleepers(s, u)
  BY <1>2, <1>5, <1>8 DEF SameSleepers
<1>14. LosesNobody(s, u)
  <2>1. Len(q) \in Nat /\ Len(r) \in Nat /\ \A j \in 1 .. Len(q) : q[j] # pid
    BY <1>3, <1>9, <1>10 DEF Chain
  <2>2. Len(q) <= Len(r) /\ \A j \in 1 .. Len(q) : r[j] = q[j]
    BY Zenon, <1>9, <2>1, KeptWhole
  <2>3. \A j \in 1 .. Len(q) : q[j] = u.curid \/ \E k \in 1 .. Len(r) : r[k] = q[j]
    BY <2>1, <2>2
  <2>4. Chain(s, q) /\ Chain(u, r)
    BY <1>3, <1>9
  <2> QED
    BY <2>3, <2>4 DEF LosesNobody
<1> QED
  BY <1>5, <1>8, <1>9, <1>11, <1>12, <1>13, <1>14 DEF SchedSound

\* The loop of thread_wakeup: woken is a function that goes from the value
\* before thread k to the value after it.
LEMMA WakeupLoop ==
  ASSUME NEW s, NEW c
  PROVE  \E w : /\ thread_wakeup(s, c) = w[NUM_TCB - 1]
                /\ w[0] = s
                /\ \A k \in 1 .. NUM_TCB - 1 : w[k] = WakeOne(w[k - 1], c, k)
<1> DEFINE Loop(n, f) == f = [k \in 0 .. n |-> IF k = 0 THEN s ELSE WakeOne(f[k - 1], c, k)]
           T == {n \in Nat : ~ \E f : Loop(n, f)}
           N == NUM_TCB - 1
<1>1. N \in Nat
  BY SchedAssumption
<1>2. T = {}
  <2> SUFFICES ASSUME T # {} PROVE FALSE
    OBVIOUS
  <2>1. PICK m \in T : \A k \in T : m <= k
    <3>1. T \subseteq Nat
      OBVIOUS
    <3> HIDE DEF T
    <3> QED
      BY Zenon, <3>1, LeastNat
  <2>2. m \in Nat /\ ~ \E f : Loop(m, f)
    OBVIOUS
  <2>3. m # 0
    <3> DEFINE f == [k \in 0 .. 0 |-> s]
    <3>1. f = [k \in 0 .. 0 |-> IF k = 0 THEN s ELSE WakeOne(f[k - 1], c, k)]
      OBVIOUS
    <3> HIDE DEF f
    <3> QED
      BY Zenon, <2>2, <3>1
  <2>4. m - 1 \in Nat /\ m - 1 \notin T
    <3> HIDE DEF T
    <3> QED
      BY <2>1, <2>2, <2>3
  <2>5. PICK f : Loop(m - 1, f)
    BY <2>4
  <2> DEFINE g == [k \in 0 .. m |-> IF k < m THEN f[k] ELSE WakeOne(f[m - 1], c, m)]
  <2>6. \A k \in 0 .. m - 1 : f[k] = IF k = 0 THEN s ELSE WakeOne(f[k - 1], c, k)
    BY <2>5
  <2>7. ASSUME NEW k \in 0 .. m
        PROVE  g[k] = IF k = 0 THEN s ELSE WakeOne(g[k - 1], c, k)
    <3>1. CASE k = 0
      BY <2>2, <2>3, <2>6, <3>1
    <3>2. CASE k # 0 /\ k < m
      <4>1. k - 1 \in 0 .. m /\ k - 1 < m /\ k \in 0 .. m - 1
        BY <2>2, <3>2
      <4>2. g[k] = f[k] /\ g[k - 1] = f[k - 1]
        BY <3>2, <4>1
      <4>3. f[k] = WakeOne(f[k - 1], c, k)
        BY <2>6, <3>2, <4>1
      <4> HIDE DEF g
      <4> QED
        BY <3>2, <4>2, <4>3
    <3>3. CASE k = m
      <4>1. m - 1 \in 0 .. m /\ m - 1 < m /\ ~ (m < m) /\ m \in 0 .. m
        BY <2>2, <2>3
      <4>2. g[m] = WakeOne(f[m - 1], c, m) /\ g[m - 1] = f[m - 1]
        BY <4>1
      <4> HIDE DEF g
      <4> QED
        BY <2>3, <3>3, <4>2
    <3> QED
      BY <2>2, <3>1, <3>2, <3>3
  <2>8. g = [k \in 0 .. m |-> g[k]]
    OBVIOUS
  <2> HIDE DEF g
  <2>9. g = [k \in 0 .. m |-> IF k = 0 THEN s ELSE WakeOne(g[k - 1], c, k)]
    BY Zenon, <2>7, <2>8
  <2> QED
    BY <2>2, <2>9
<1>3. \E f : Loop(N, f)
  BY <1>1, <1>2
<1> DEFINE w == CHOOSE f : f = [k \in 0 .. N |-> IF k = 0 THEN s ELSE WakeOne(f[k - 1], c, k)]
<1>4. w = [k \in 0 .. N |-> IF k = 0 THEN s ELSE WakeOne(w[k - 1], c, k)]
  BY Zenon, <1>3
<1>5. thread_wakeup(s, c) = w[N]
  BY DEF thread_wakeup
<1> HIDE DEF w
<1>6. w[0] = s /\ \A k \in 1 .. N : w[k] = WakeOne(w[k - 1], c, k)
  BY <1>1, <1>4
<1> QED
  BY <1>5, <1>6

\* The threads with channel c: those that sleep on it, and those that were woken
\* and have not run since.
On(s, c) == {t \in Thread : s.chan[t] = c}

\* What is kept of the queue by two rounds of the loop.
LEMMA KeptTwice ==
  ASSUME NEW q, NEW r, NEW x, NEW S, KeptUntil(q, r, S), KeptUntil(r, x, S),
         Len(q) \in Nat, Len(r) \in Nat, Len(x) \in Nat
  PROVE  KeptUntil(q, x, S)
<1>1. PICK m \in 0 .. Len(q) : /\ m <= Len(r) /\ \A j \in 1 .. m : r[j] = q[j]
                               /\ m = Len(q) \/ (m > 0 /\ q[m] \in S)
  BY DEF KeptUntil
<1>2. PICK n \in 0 .. Len(r) : /\ n <= Len(x) /\ \A j \in 1 .. n : x[j] = r[j]
                               /\ n = Len(r) \/ (n > 0 /\ r[n] \in S)
  BY DEF KeptUntil
<1>3. CASE m <= n
  <2>1. m <= Len(x) /\ \A j \in 1 .. m : x[j] = q[j]
    BY <1>1, <1>2, <1>3
  <2> QED
    BY <1>1, <2>1 DEF KeptUntil
<1>4. CASE n < m
  <2>1. n \in 0 .. Len(q) /\ n # Len(r)
    BY <1>1, <1>2, <1>4
  <2>2. n \in 1 .. m /\ \A j \in 1 .. n : j \in 1 .. m
    BY <1>1, <1>2, <1>4, <2>1
  <2>3. n > 0 /\ q[n] \in S /\ \A j \in 1 .. n : x[j] = q[j]
    BY <1>1, <1>2, <2>1, <2>2
  <2> QED
    BY <1>2, <2>1, <2>3 DEF KeptUntil
<1> QED
  BY <1>3, <1>4

\* A round of the loop of thread_wakeup.
LEMMA WakeOneFields ==
  ASSUME NEW s \in SchedT, NEW q, Chain(s, q), AllReady(s, q), NEW c, NEW pid \in Thread,
         NEW u, u = WakeOne(s, c, pid)
  PROVE  /\ u \in SchedT /\ u.chan = s.chan /\ u.curid = s.curid
         /\ ReadyUntil(u, q, On(s, c))
         /\ u.state = IF s.chan[pid] = c THEN [s.state EXCEPT ![pid] = TSTATE_READY] ELSE s.state
<1>1. CASE s.chan[pid] = c
  <2>1. u = tqueue_enqueue([s EXCEPT !.state = [@ EXCEPT ![pid] = TSTATE_READY]], pid)
    BY <1>1 DEF WakeOne
  <2>2. /\ u \in SchedT /\ u.chan = s.chan /\ u.curid = s.curid
        /\ u.state = [s.state EXCEPT ![pid] = TSTATE_READY]
        /\ ReadyUntil(u, q, {pid})
    BY <2>1, ReadyAndEnqueue
  <2>3. pid \in On(s, c)
    BY <1>1 DEF On
  <2>4. ReadyUntil(u, q, On(s, c))
    BY <2>2, <2>3 DEF ReadyUntil, KeptUntil
  <2> QED
    BY <1>1, <2>2, <2>4
<1>2. CASE s.chan[pid] # c
  <2>1. u = s
    BY <1>2 DEF WakeOne
  <2>2. KeptUntil(q, q, On(s, c))
    <3>1. Len(q) \in Nat
      BY DEF Chain
    <3> QED
      BY <3>1 DEF KeptUntil
  <2>3. ReadyUntil(s, q, On(s, c))
    BY <2>2 DEF ReadyUntil
  <2> QED
    BY <1>2, <2>1, <2>3
<1> QED
  BY <1>1, <1>2

\* thread_wakeup(c) makes ready every thread whose channel is c, and no other.  It
\* cuts the queue, if at all, behind a thread that has channel c already.
LEMMA WakeupSound ==
  ASSUME NEW s, SchedSound(s), NEW c \in Chan, NEW u, u = thread_wakeup(s, c)
  PROVE  /\ SchedSound(u) /\ u.chan = s.chan /\ u.curid = s.curid
         /\ \A t \in Thread : u.state[t] = IF s.chan[t] = c THEN TSTATE_READY ELSE s.state[t]
         /\ \E q : Chain(s, q) /\ ReadyUntil(u, q, On(s, c))
<1>1. PICK w : /\ u = w[NUM_TCB - 1]
               /\ w[0] = s
               /\ \A k \in 1 .. NUM_TCB - 1 : w[k] = WakeOne(w[k - 1], c, k)
  BY WakeupLoop
<1>2. /\ s \in SchedT /\ s.curid \in Thread
      /\ s.state \in [Thread -> {TSTATE_READY, TSTATE_RUN, TSTATE_SLEEP, TSTATE_DEAD}]
      /\ s.chan \in [Thread -> Chan \cup {NoChan}]
      /\ \A t \in Thread : s.state[t] = TSTATE_RUN <=> t = s.curid
      /\ s.chan[s.curid] = NoChan
      /\ \A t \in Thread : s.state[t] = TSTATE_DEAD => s.chan[t] = NoChan
  BY DEF SchedSound, SchedT
<1> PICK q : Chain(s, q) /\ AllReady(s, q)
  BY DEF SchedSound
<1> DEFINE After(k, v) ==
             /\ v \in SchedT /\ v.chan = s.chan /\ v.curid = s.curid
             /\ ReadyUntil(v, q, On(s, c))
             /\ \A t \in Thread :
                  v.state[t] = IF t <= k /\ s.chan[t] = c THEN TSTATE_READY ELSE s.state[t]
           T == {k \in 0 .. NUM_TCB - 1 : ~ After(k, w[k])}
<1>3. After(0, s)
  <2>1. \A t \in Thread : ~ (t <= 0)
    BY DEF Thread
  <2>2. Len(q) \in Nat
    BY DEF Chain
  <2>3. KeptUntil(q, q, On(s, c))
    BY <2>2 DEF KeptUntil
  <2>4. ReadyUntil(s, q, On(s, c))
    BY <2>3 DEF ReadyUntil
  <2> QED
    BY <1>2, <2>1, <2>4
<1>4. ASSUME NEW k \in 1 .. NUM_TCB - 1, NEW v, After(k - 1, v), NEW x, x = WakeOne(v, c, k)
      PROVE  After(k, x)
  <2>1. k \in Thread
    BY DEF Thread
  <2>2. /\ v \in SchedT /\ v.chan = s.chan /\ v.curid = s.curid
        /\ ReadyUntil(v, q, On(s, c))
    BY <1>4
  <2> PICK r : Chain(v, r) /\ AllReady(v, r) /\ KeptUntil(q, r, On(s, c))
    BY <2>2 DEF ReadyUntil
  <2>3. /\ x \in SchedT /\ x.chan = v.chan /\ x.curid = v.curid
        /\ ReadyUntil(x, r, On(v, c))
        /\ x.state = IF v.chan[k] = c THEN [v.state EXCEPT ![k] = TSTATE_READY] ELSE v.state
    BY <1>4, <2>1, <2>2, WakeOneFields
  <2>4. v.state \in [Thread -> {TSTATE_READY, TSTATE_RUN, TSTATE_SLEEP, TSTATE_DEAD}]
    BY <2>2 DEF SchedT
  <2>5. ASSUME NEW t \in Thread
        PROVE  x.state[t] = IF t <= k /\ s.chan[t] = c THEN TSTATE_READY ELSE s.state[t]
    <3>1. t <= k - 1 <=> t <= k /\ t # k
      BY Threads
    <3>2. v.state[t] = IF t <= k - 1 /\ s.chan[t] = c THEN TSTATE_READY ELSE s.state[t]
      BY <1>4
    <3>3. x.state[t] = IF v.chan[k] = c /\ t = k THEN TSTATE_READY ELSE v.state[t]
      BY <2>3, <2>4
    <3>4. k <= k
      OBVIOUS
    <3> QED
      BY <2>2, <3>1, <3>2, <3>3, <3>4
  <2>6. ReadyUntil(x, q, On(s, c))
    <3>1. On(v, c) = On(s, c)
      BY <2>2 DEF On
    <3>2. PICK y : Chain(x, y) /\ AllReady(x, y) /\ KeptUntil(r, y, On(s, c))
      BY <2>3, <3>1 DEF ReadyUntil
    <3>3. Len(q) \in Nat /\ Len(r) \in Nat /\ Len(y) \in Nat
      BY <3>2 DEF Chain
    <3>4. KeptUntil(q, y, On(s, c))
      BY <3>2, <3>3, KeptTwice
    <3> QED
      BY <3>2, <3>4 DEF ReadyUntil
  <2> QED
    BY <2>2, <2>3, <2>5, <2>6
<1> HIDE DEF After
<1>5. T = {}
  <2> SUFFICES ASSUME T # {} PROVE FALSE
    OBVIOUS
  <2>0. NUM_TCB \in Nat /\ NUM_TCB > 1
    BY SchedAssumption
  <2>1. T \subseteq Nat
    BY <2>0
  <2>2. PICK m \in T : \A k \in T : m <= k
    <3> HIDE DEF T
    <3> QED
      BY Zenon, <2>1, LeastNat
  <2>3. m \in 0 .. NUM_TCB - 1 /\ ~ After(m, w[m])
    OBVIOUS
  <2>4. m # 0
    BY <1>1, <1>3, <2>3
  <2>5. m - 1 \in 0 .. NUM_TCB - 1 /\ m \in 1 .. NUM_TCB - 1 /\ ~ (m <= m - 1)
    BY <2>0, <2>3, <2>4
  <2>6. After(m - 1, w[m - 1])
    BY <2>2, <2>5
  <2>7. w[m] = WakeOne(w[m - 1], c, m)
    BY <1>1, <2>5
  <2> QED
    BY <1>4, <2>3, <2>5, <2>6, <2>7
<1>6. NUM_TCB - 1 \in 0 .. NUM_TCB - 1 /\ \A t \in Thread : t <= NUM_TCB - 1
  BY SchedAssumption DEF Thread
<1>7. After(NUM_TCB - 1, u)
  BY <1>1, <1>5, <1>6
<1>8. /\ u \in SchedT /\ u.chan = s.chan /\ u.curid = s.curid
      /\ ReadyUntil(u, q, On(s, c))
      /\ \A t \in Thread : u.state[t] = IF s.chan[t] = c THEN TSTATE_READY ELSE s.state[t]
  BY <1>6, <1>7 DEF After
<1>9. c # NoChan
  BY SchedAssumption
<1>10. /\ \A t \in Thread : u.state[t] = TSTATE_RUN <=> t = u.curid
       /\ u.chan[u.curid] = NoChan
       /\ \A t \in Thread : u.state[t] = TSTATE_DEAD => u.chan[t] = NoChan
  BY <1>2, <1>8, <1>9
<1>11. \E r : Chain(u, r) /\ AllReady(u, r)
  BY <1>8 DEF ReadyUntil
<1>12. \E r : Chain(s, r) /\ ReadyUntil(u, r, On(s, c))
  BY <1>8
<1> QED
  BY <1>8, <1>10, <1>11, <1>12 DEF SchedSound

-----------------------------------------------------------------------------
(* The queue as its readers see it.                                          *)

\* A queue without repetitions is shorter than the table of threads.
LEMMA ChainShort ==
  ASSUME NEW s, NEW q, Chain(s, q)
  PROVE  Len(q) \in Nat /\ Len(q) < NUM_TCB
<1>1. NUM_TCB \in Nat /\ NUM_TCB > 1
  BY SchedAssumption
<1>2. /\ Len(q) \in Nat /\ q \in [1 .. Len(q) -> Thread]
      /\ \A j, k \in 1 .. Len(q) : q[j] = q[k] => j = k
  BY LenProperties DEF Chain
<1>3. q \in Injection(1 .. Len(q), Thread)
  BY <1>2 DEF Injection, IsInjective
<1>4. IsFiniteSet(Thread) /\ Cardinality(Thread) = NUM_TCB - 1
  BY <1>1, FS_Interval DEF Thread
<1>5. Cardinality(1 .. Len(q)) <= Cardinality(Thread)
  BY <1>3, <1>4, FS_Injection
<1>6. Cardinality(1 .. Len(q)) = Len(q)
  BY <1>2, FS_Interval
<1> QED
  BY <1>1, <1>2, <1>4, <1>5, <1>6

\* The walk from the head meets the threads of the queue in their order.
LEMMA QueueWalked ==
  ASSUME NEW s, NEW q, Chain(s, q)
  PROVE  ReadyQueue(s) = q
<1> DEFINE n == Len(q)
           N == NUM_TCB
           Round(w) == LET last == IF w = << >> THEN s.head ELSE s.next[w[Len(w)]]
                       IN  IF last = Null THEN w ELSE Append(w, last)
           pre(k) == [j \in 1 .. k |-> q[j]]
           W(k) == IF k <= n THEN pre(k) ELSE q
<1>1. N \in Nat /\ n \in Nat /\ n < N /\ q \in Seq(Thread) /\ Null \notin Thread
  BY Zenon, ChainShort, SchedAssumption, Threads DEF Chain
<1>2. \A k \in 1 .. n : q[k] \in Thread
  BY <1>1
<1>3. /\ s.head = IF n = 0 THEN Null ELSE q[1]
      /\ \A k \in 1 .. n : s.next[q[k]] = IF k = n THEN Null ELSE q[k + 1]
  BY DEF Chain
<1> HIDE DEF n, N
<1>4. ASSUME NEW k \in 0 .. n
      PROVE  /\ pre(k) \in Seq(Thread) /\ Len(pre(k)) = k
             /\ \A j \in 1 .. k : pre(k)[j] = q[j]
  <2>1. \A j \in 1 .. k : q[j] \in Thread
    BY <1>1, <1>2
  <2> QED
    BY <1>1, <2>1
<1>5. q = pre(n)
  <2>1. n \in 0 .. n /\ Len(q) = n
    BY <1>1 DEF n
  <2>2. pre(n) \in Seq(Thread) /\ Len(pre(n)) = n /\ \A j \in 1 .. n : pre(n)[j] = q[j]
    BY <1>4, <2>1
  <2> HIDE DEF pre
  <2> QED
    BY <1>1, <2>1, <2>2, SeqEqual
<1>6. pre(0) = << >>
  <2>1. 0 \in 0 .. n
    BY <1>1
  <2>2. pre(0) \in Seq(Thread) /\ Len(pre(0)) = 0
    BY <1>4, <2>1
  <2> HIDE DEF pre
  <2> QED
    BY <2>2, EmptySeq
<1>7. ASSUME NEW k \in 0 .. n, k < n
      PROVE  Append(pre(k), q[k + 1]) = pre(k + 1)
  <2>1. k + 1 \in 0 .. n /\ k + 1 \in 1 .. n
    BY <1>1, <1>7
  <2>2. /\ pre(k) \in Seq(Thread) /\ Len(pre(k)) = k
        /\ \A j \in 1 .. k : pre(k)[j] = q[j]
    BY <1>4
  <2>3. /\ pre(k + 1) \in Seq(Thread) /\ Len(pre(k + 1)) = k + 1
        /\ \A j \in 1 .. k + 1 : pre(k + 1)[j] = q[j]
    BY <1>4, <2>1
  <2> HIDE DEF pre
  <2>4. q[k + 1] \in Thread
    BY <1>2, <2>1
  <2>5. /\ Append(pre(k), q[k + 1]) \in Seq(Thread)
        /\ Len(Append(pre(k), q[k + 1])) = k + 1
        /\ \A j \in 1 .. k + 1 : Append(pre(k), q[k + 1])[j] = q[j]
    BY <2>2, <2>4
  <2> QED
    BY <2>3, <2>5, SeqEqual
<1> HIDE DEF pre
<1>8. ASSUME NEW k \in 1 .. N
      PROVE  W(k) = Round(W(k - 1))
  <2>1. CASE k - 1 < n
    <3>1. k - 1 \in 0 .. n /\ k \in 1 .. n /\ k <= n /\ k - 1 <= n /\ (k - 1) + 1 = k
      BY <1>1, <2>1
    <3>2. W(k) = pre(k) /\ W(k - 1) = pre(k - 1) /\ pre(k) = Append(pre(k - 1), q[k])
      BY <1>7, <2>1, <3>1
    <3>3. q[k] # Null
      BY <1>1, <1>2, <3>1
    <3>4. CASE k = 1
      <4>1. pre(k - 1) = << >> /\ s.head = q[k]
        BY <1>1, <1>3, <1>6, <3>1, <3>4
      <4> HIDE DEF W
      <4> QED
        BY <3>2, <3>3, <4>1
    <3>5. CASE k # 1
      <4>1. k - 1 \in 1 .. n /\ k - 1 # n
        BY <1>1, <3>1, <3>5
      <4>2. /\ pre(k - 1) \in Seq(Thread) /\ Len(pre(k - 1)) = k - 1
            /\ pre(k - 1)[k - 1] = q[k - 1]
        <5>1. k - 1 \in 1 .. k - 1
          BY <4>1
        <5> QED
          BY <1>4, <3>1, <5>1
      <4>3. pre(k - 1) # << >> /\ pre(k - 1)[Len(pre(k - 1))] = q[k - 1]
        BY <4>1, <4>2, EmptySeq
      <4>4. s.next[q[k - 1]] = q[k]
        BY <1>3, <3>1, <4>1
      <4> HIDE DEF W
      <4> QED
        BY <3>2, <3>3, <4>3, <4>4
    <3> QED
      BY <3>4, <3>5
  <2>2. CASE ~ (k - 1 < n)
    <3>1. W(k - 1) = q /\ W(k) = q
      <4>1. k - 1 = n \/ ~ (k - 1 <= n)
        BY <1>1, <2>2
      <4>2. ~ (k <= n)
        BY <1>1, <2>2
      <4> QED
        BY <1>5, <4>1, <4>2
    <3>2. CASE n = 0
      <4>1. q = << >> /\ s.head = Null
        BY <1>3, <1>5, <1>6, <3>2
      <4> HIDE DEF W
      <4> QED
        BY <3>1, <4>1
    <3>3. CASE n # 0
      <4>1. n \in 1 .. n /\ Len(q) = n
        BY <1>1, <3>3 DEF n
      <4>2. q # << >> /\ q[Len(q)] = q[n] /\ s.next[q[n]] = Null
        BY <1>1, <1>3, <3>3, <4>1, EmptySeq
      <4> HIDE DEF W
      <4> QED
        BY <3>1, <4>2
    <3> QED
      BY <3>2, <3>3
  <2> QED
    BY <2>1, <2>2
<1>9. W(0) = << >> /\ W(N) = q
  BY <1>1, <1>6
<1> HIDE DEF W, Round
<1> DEFINE f == CHOOSE g : g = [k \in 0 .. N |-> IF k = 0 THEN << >> ELSE Round(g[k - 1])]
<1>10. \E g : g = [k \in 0 .. N |-> IF k = 0 THEN << >> ELSE Round(g[k - 1])]
  <2> DEFINE g == [k \in 0 .. N |-> W(k)]
  <2>1. \A k \in 0 .. N : W(k) = IF k = 0 THEN << >> ELSE Round(g[k - 1])
    <3>1. \A k \in 1 .. N : k - 1 \in 0 .. N
      BY <1>1
    <3>2. \A k \in 1 .. N : g[k - 1] = W(k - 1)
      BY <3>1
    <3>3. \A k \in 0 .. N : k # 0 => k \in 1 .. N
      BY <1>1
    <3> HIDE DEF g
    <3> QED
      BY <1>8, <1>9, <3>2, <3>3
  <2>2. g = [k \in 0 .. N |-> IF k = 0 THEN << >> ELSE Round(g[k - 1])]
    <3>1. g = [k \in 0 .. N |-> W(k)]
      OBVIOUS
    <3> HIDE DEF g
    <3> QED
      BY <2>1, <3>1
  <2> HIDE DEF g
  <2> QED
    BY Zenon, <2>2
<1>11. f = [k \in 0 .. N |-> IF k = 0 THEN << >> ELSE Round(f[k - 1])]
  BY Zenon, <1>10
<1>12. ReadyQueue(s) = f[N]
  BY DEF ReadyQueue, Round, N
<1> HIDE DEF f
<1>13. f[0] = << >> /\ \A k \in 1 .. N : f[k] = Round(f[k - 1])
  BY <1>1, <1>11
<1> DEFINE T == {k \in 0 .. N : f[k] # W(k)}
<1>14. T = {}
  <2> SUFFICES ASSUME T # {} PROVE FALSE
    OBVIOUS
  <2>1. T \subseteq Nat
    BY <1>1
  <2>2. PICK m \in T : \A k \in T : m <= k
    <3> HIDE DEF T
    <3> QED
      BY Zenon, <2>1, LeastNat
  <2>3. m \in 0 .. N /\ f[m] # W(m)
    OBVIOUS
  <2>4. m # 0
    BY <1>9, <1>13, <2>3
  <2>5. m - 1 \in 0 .. N /\ m \in 1 .. N /\ ~ (m <= m - 1)
    BY <1>1, <2>3, <2>4
  <2>6. f[m - 1] = W(m - 1)
    BY <2>2, <2>5
  <2>7. f[m] = Round(f[m - 1]) /\ W(m) = Round(W(m - 1))
    BY <1>8, <1>13, <2>5
  <2> QED
    BY <2>3, <2>6, <2>7
<1>15. N \in 0 .. N
  BY <1>1
<1> QED
  BY <1>9, <1>12, <1>14, <1>15
=============================================================================
