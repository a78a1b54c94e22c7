----------------------------- MODULE FlockProofs -----------------------------
(***************************************************************************)
(* Facts about the operators of Flock: which fields each of them changes,   *)
(* and what it does to the agreement between a flock_t and the number of    *)
(* locks that are held.                                                     *)
(***************************************************************************)
EXTENDS Flock, TLAPS, WellFoundedInduction, FiniteSetTheorems

USE DEF FlockState, Held, LockType, FLOCK_INACTIVE, FLOCK_SHARED, FLOCK_EXCLUSIVE,
        NONE, LOCK_SH, LOCK_EX, BAD

\* Two flock_t that differ at most in their wait queues.
SameLock(fl, gl) ==
  /\ fl.state = gl.state /\ fl.shared_holders = gl.shared_holders
  /\ fl.waiting_shared = gl.waiting_shared
  /\ fl.waiting_exclusive = gl.waiting_exclusive

\* The state and holder count of fl agree with sh shared and ex exclusive locks.
Agrees(fl, sh, ex) ==
  /\ fl.shared_holders = sh
  /\ fl.state = FLOCK_SHARED <=> sh > 0
  /\ ex = IF fl.state = FLOCK_EXCLUSIVE THEN 1 ELSE 0

-----------------------------------------------------------------------------
\* Every nonempty set of naturals has a least element.
LEMMA LeastNat ==
  ASSUME NEW T, T \subseteq Nat, T # {}
  PROVE  \E m \in T : \A k \in T : m <= k
<1> DEFINE R == OpToRel(<, Nat)
<1>1. \A x, y \in Nat : x < y => <<x, y>> \in R
  BY DEF OpToRel
<1>2. \E m \in T : \A k \in T : ~ (<<k, m>> \in R)
  <2> HIDE DEF R
  <2>1. IsWellFoundedOn(R, Nat)
    BY NatLessThanWellFounded DEF R
  <2> QED
    BY <2>1, WFMin
<1> HIDE DEF R
<1>3. PICK m \in T : \A k \in T : ~ (<<k, m>> \in R)
  BY <1>2
<1>4. \A k \in T : ~ (k < m)
  BY <1>1, <1>3
<1> QED
  BY <1>4

\* flock_init builds a flock_t that nobody holds and nobody waits for.
LEMMA FlockInit ==
  /\ flock_init \in FlockT
  /\ Agrees(flock_init, 0, 0)
  /\ flock_init.waiting_shared = 0 /\ flock_init.waiting_exclusive = 0
BY DEF flock_init, FlockT, Agrees

\* waitq_add touches the wait queue only.
LEMMA WaitqAdd ==
  ASSUME NEW fl \in FlockT, NEW pid \in Pid, NEW req \in Held
  PROVE  waitq_add(fl, pid, req) \in FlockT /\ SameLock(waitq_add(fl, pid, req), fl)
<1>1. /\ Append(fl.pids, pid) \in Seq(Pid)
      /\ [fl.inq EXCEPT ![pid] = TRUE] \in [Pid -> BOOLEAN]
      /\ [fl.req EXCEPT ![pid] = req] \in [Pid -> Held]
  BY DEF FlockT
<1>2. CASE fl.inq[pid]
  BY <1>1, <1>2 DEF waitq_add, FlockT, SameLock
<1>3. CASE ~ fl.inq[pid] /\ Len(fl.pids) < NUM_IDS
  BY <1>1, <1>3 DEF waitq_add, FlockT, SameLock
<1>4. CASE ~ fl.inq[pid] /\ ~ (Len(fl.pids) < NUM_IDS)
  BY <1>4 DEF waitq_add, SameLock
<1> QED
  BY <1>2, <1>3, <1>4

\* Removing an entry of the array leaves an array of thread ids.
LEMMA ShiftDownType ==
  ASSUME NEW q \in Seq(Pid), NEW k \in 1 .. Len(q)
  PROVE  ShiftDown(q, k) \in Seq(Pid)
<1>1. Len(q) - 1 \in Nat
  OBVIOUS
<1>2. \A j \in 1 .. Len(q) - 1 : (IF j < k THEN q[j] ELSE q[j + 1]) \in Pid
  OBVIOUS
<1> QED
  BY <1>1, <1>2 DEF ShiftDown

\* waitq_remove touches the wait queue only.
LEMMA WaitqRemove ==
  ASSUME NEW fl \in FlockT, NEW pid \in Pid
  PROVE  waitq_remove(fl, pid) \in FlockT /\ SameLock(waitq_remove(fl, pid), fl)
<1> DEFINE q == fl.pids
           r == IF \E k \in 1 .. Len(q) : q[k] = pid
                  THEN ShiftDown(q, FirstPos(q, pid)) ELSE q
<1>1. q \in Seq(Pid)
  BY DEF FlockT
<1>2. r \in Seq(Pid)
  <2>1. CASE \E k \in 1 .. Len(q) : q[k] = pid
    <3> DEFINE At == {k \in 1 .. Len(q) : q[k] = pid}
    <3>1. PICK m \in At : \A k \in At : m <= k
      <4>1. At \subseteq Nat /\ At # {}
        BY <1>1, <2>1
      <4> HIDE DEF At
      <4> QED
        BY <4>1, LeastNat
    <3>2. \A j \in 1 .. m - 1 : q[j] # pid
      BY <1>1, <3>1
    <3>3. FirstPos(q, pid) \in 1 .. Len(q)
      BY <3>1, <3>2 DEF FirstPos
    <3> QED
      BY <1>1, <2>1, <3>3, ShiftDownType
  <2>2. CASE ~ \E k \in 1 .. Len(q) : q[k] = pid
    BY <1>1, <2>2
  <2> QED
    BY <2>1, <2>2
<1> HIDE DEF r
<1>3. CASE fl.inq[pid]
  <2>1. waitq_remove(fl, pid) = [fl EXCEPT !.pids = r,
                    !.inq  = [@ EXCEPT ![pid] = FALSE],
                    !.req  = [@ EXCEPT ![pid] = NONE]]
    BY <1>3 DEF waitq_remove, r
  <2>2. /\ [fl.inq EXCEPT ![pid] = FALSE] \in [Pid -> BOOLEAN]
        /\ [fl.req EXCEPT ![pid] = NONE] \in [Pid -> Held]
    BY DEF FlockT
  <2> QED
    BY <1>2, <2>1, <2>2, ZenonT(40) DEF FlockT, SameLock
<1>4. CASE ~ fl.inq[pid]
  BY <1>4 DEF waitq_remove, SameLock
<1> QED
  BY <1>3, <1>4

-----------------------------------------------------------------------------
\* A request that starts to wait is counted and changes nothing else but the
\* wait queue.
LEMMA StartWaitFields ==
  ASSUME NEW fl \in FlockT, NEW pid \in Pid, NEW type \in LockType
  PROVE  LET gl == StartWait(fl, pid, type) IN
         /\ gl \in FlockT
         /\ gl.state = fl.state /\ gl.shared_holders = fl.shared_holders
         /\ gl.waiting_shared = fl.waiting_shared + (IF type = LOCK_SH THEN 1 ELSE 0)
         /\ gl.waiting_exclusive = fl.waiting_exclusive + (IF type = LOCK_EX THEN 1 ELSE 0)
<1> DEFINE al == waitq_add(fl, pid, type)
<1>1. al \in FlockT /\ SameLock(al, fl)
  BY WaitqAdd
<1> HIDE DEF al
<1>2. StartWait(fl, pid, type) =
        IF type = LOCK_SH THEN [al EXCEPT !.waiting_shared = @ + 1]
                          ELSE [al EXCEPT !.waiting_exclusive = @ + 1]
  BY DEF StartWait, al
<1> QED
  BY <1>1, <1>2, SMTT(30) DEF FlockT, SameLock

\* A request that stops waiting is counted off and changes nothing else but
\* the wait queue.
LEMMA EndWaitFields ==
  ASSUME NEW fl \in FlockT, NEW pid \in Pid, NEW type \in LockType
  PROVE  LET gl == EndWait(fl, pid, type) IN
         /\ gl \in FlockT
         /\ gl.state = fl.state /\ gl.shared_holders = fl.shared_holders
         /\ gl.waiting_shared = fl.waiting_shared - (IF type = LOCK_SH THEN 1 ELSE 0)
         /\ gl.waiting_exclusive = fl.waiting_exclusive - (IF type = LOCK_EX THEN 1 ELSE 0)
<1> DEFINE dl == IF type = LOCK_SH THEN [fl EXCEPT !.waiting_shared = @ - 1]
                                   ELSE [fl EXCEPT !.waiting_exclusive = @ - 1]
<1>1. /\ dl \in FlockT
      /\ dl.state = fl.state /\ dl.shared_holders = fl.shared_holders
      /\ dl.waiting_shared = fl.waiting_shared - (IF type = LOCK_SH THEN 1 ELSE 0)
      /\ dl.waiting_exclusive = fl.waiting_exclusive - (IF type = LOCK_EX THEN 1 ELSE 0)
  BY SMTT(30) DEF FlockT
<1>2. EndWait(fl, pid, type) = waitq_remove(dl, pid)
  BY DEF EndWait
<1> HIDE DEF dl
<1>3. waitq_remove(dl, pid) \in FlockT /\ SameLock(waitq_remove(dl, pid), dl)
  BY <1>1, WaitqRemove
<1> QED
  BY <1>1, <1>2, <1>3 DEF SameLock

\* Granting a lock that need not be waited for keeps state and holder count in
\* agreement with the locks held, now one more.
LEMMA GrantAgrees ==
  ASSUME NEW fl \in FlockT, NEW type \in LockType, NEW sh \in Nat, NEW ex \in Nat,
         Agrees(fl, sh, ex), ~ MustWait(fl, type)
  PROVE  Agrees(Grant(fl, type), sh + (IF type = LOCK_SH THEN 1 ELSE 0),
                                 ex + (IF type = LOCK_EX THEN 1 ELSE 0))
BY DEF Grant, Agrees, MustWait, FlockT

\* Granting touches neither of the two counters of waiting requests.
LEMMA GrantWaiting ==
  ASSUME NEW fl \in FlockT, NEW type \in LockType
  PROVE  LET gl == Grant(fl, type) IN
         /\ gl \in FlockT
         /\ gl.state = IF type = LOCK_SH THEN FLOCK_SHARED ELSE FLOCK_EXCLUSIVE
         /\ gl.waiting_shared = fl.waiting_shared
         /\ gl.waiting_exclusive = fl.waiting_exclusive
<1>1. CASE type = LOCK_SH
  <2>1. Grant(fl, type) =
          [fl EXCEPT !.state = FLOCK_SHARED, !.shared_holders = fl.shared_holders + 1]
    BY <1>1 DEF Grant
  <2>2. fl.shared_holders + 1 \in Int
    BY DEF FlockT
  <2> QED
    BY <1>1, <2>1, <2>2 DEF FlockT
<1>2. CASE type = LOCK_EX
  BY <1>2 DEF Grant, FlockT
<1> QED
  BY <1>1, <1>2

\* Releasing a lock that is held keeps them in agreement, now one less.
LEMMA ReleaseAgrees ==
  ASSUME NEW fl \in FlockT, NEW type \in LockType, NEW sh \in Nat, NEW ex \in Nat,
         Agrees(fl, sh, ex), IF type = LOCK_SH THEN sh > 0 ELSE ex > 0
  PROVE  Agrees(flock_release(fl, type), sh - (IF type = LOCK_SH THEN 1 ELSE 0),
                                         ex - (IF type = LOCK_EX THEN 1 ELSE 0))
BY DEF flock_release, Agrees, FlockT

\* flock_release leaves the waiting requests alone, and when it wakes nobody it
\* leaves the state alone too.
LEMMA ReleaseWaiting ==
  ASSUME NEW fl \in FlockT, NEW type \in Held
  PROVE  LET gl == flock_release(fl, type) IN
         /\ gl \in FlockT
         /\ gl.waiting_shared = fl.waiting_shared
         /\ gl.waiting_exclusive = fl.waiting_exclusive
         /\ ~ NeedWakeup(fl, type) => gl.state = fl.state
<1>1. CASE type = LOCK_SH /\ fl.state = FLOCK_SHARED /\ fl.shared_holders > 0
  <2>1. PICK st \in FlockState :
          /\ st = IF fl.shared_holders = 1 THEN FLOCK_INACTIVE ELSE fl.state
          /\ flock_release(fl, type) =
               [fl EXCEPT !.shared_holders = fl.shared_holders - 1, !.state = st]
    BY <1>1 DEF flock_release, FlockT
  <2>2. fl.shared_holders - 1 \in Int
    BY DEF FlockT
  <2>3. ~ NeedWakeup(fl, type) => st = fl.state
    BY <1>1, <2>1 DEF NeedWakeup
  <2> QED
    BY <2>1, <2>2, <2>3 DEF FlockT
<1>2. CASE type = LOCK_EX /\ fl.state = FLOCK_EXCLUSIVE
  BY <1>2 DEF flock_release, NeedWakeup, FlockT
<1>3. CASE /\ ~ (type = LOCK_SH /\ fl.state = FLOCK_SHARED /\ fl.shared_holders > 0)
           /\ ~ (type = LOCK_EX /\ fl.state = FLOCK_EXCLUSIVE)
  BY <1>3 DEF flock_release
<1> QED
  BY <1>1, <1>2, <1>3

-----------------------------------------------------------------------------
(* The wait queue.                                                           *)

\* The wait queue of fl holds the threads of W, each of them once and with the
\* request that wanted gives it.
QueueHolds(fl, W, wanted) ==
  /\ Len(fl.pids) = Cardinality(W)
  /\ \A j, k \in 1 .. Len(fl.pids) : fl.pids[j] = fl.pids[k] => j = k
  /\ \A p \in Pid :
       /\ p \in W <=> \E k \in 1 .. Len(fl.pids) : fl.pids[k] = p
       /\ fl.inq[p] <=> p \in W
       /\ fl.req[p] = IF p \in W THEN wanted[p] ELSE NONE

\* Two flock_t with the same wait queue.
SameQueue(fl, gl) == fl.pids = gl.pids /\ fl.inq = gl.inq /\ fl.req = gl.req

\* A set that does not hold a thread has room for it: a queue without it is not
\* full.
LEMMA RoomLeft ==
  ASSUME NEW W, W \subseteq Pid, NEW p \in Pid, p \notin W
  PROVE  /\ IsFiniteSet(W) /\ Cardinality(W) \in Nat /\ Cardinality(W) < NUM_IDS
         /\ Cardinality(W \cup {p}) = Cardinality(W) + 1
<1>1. IsFiniteSet(W) /\ IsFiniteSet(W \cup {p}) /\ W \cup {p} \subseteq Pid
  BY PidAssumption, FS_Subset
<1>2. /\ Cardinality(W) \in Nat /\ Cardinality(W \cup {p}) = Cardinality(W) + 1
  BY <1>1, FS_CardinalityType, FS_AddElement
<1>3. Cardinality(W \cup {p}) <= Cardinality(Pid) /\ Cardinality(Pid) \in Nat
  BY <1>1, PidAssumption, FS_Subset, FS_CardinalityType
<1> QED
  BY <1>1, <1>2, <1>3 DEF NUM_IDS

\* waitq_add never drops a thread: one that is not in the queue is in it
\* afterwards, behind the others.
LEMMA QueueAdd ==
  ASSUME NEW fl \in FlockT, NEW W, W \subseteq Pid, NEW wanted, NEW after,
         QueueHolds(fl, W, wanted), NEW p \in Pid, p \notin W,
         NEW h \in Held, after[p] = h, \A q \in W : after[q] = wanted[q]
  PROVE  QueueHolds(waitq_add(fl, p, h), W \cup {p}, after)
<1> DEFINE gl == waitq_add(fl, p, h)
           n  == Len(fl.pids)
<1>1. Cardinality(W) < NUM_IDS /\ Cardinality(W \cup {p}) = Cardinality(W) + 1
  BY RoomLeft
<1>2. /\ fl.pids \in Seq(Pid) /\ n \in Nat /\ n = Cardinality(W)
      /\ fl.inq \in [Pid -> BOOLEAN] /\ fl.req \in [Pid -> Held]
  BY DEF FlockT, QueueHolds
<1>3. gl = [fl EXCEPT !.pids = Append(@, p), !.inq = [@ EXCEPT ![p] = TRUE],
                      !.req = [@ EXCEPT ![p] = h]]
  BY <1>1, <1>2 DEF waitq_add, QueueHolds
<1>4. /\ gl.pids = Append(fl.pids, p) /\ gl.inq = [fl.inq EXCEPT ![p] = TRUE]
      /\ gl.req = [fl.req EXCEPT ![p] = h]
  BY <1>3 DEF FlockT
<1> HIDE DEF gl
<1>5. /\ Len(gl.pids) = n + 1 /\ gl.pids[n + 1] = p
      /\ \A k \in 1 .. n : gl.pids[k] = fl.pids[k] /\ gl.pids[k] \in W
  <2>1. Len(gl.pids) = n + 1 /\ gl.pids[n + 1] = p
    BY <1>2, <1>4
  <2>2. \A k \in 1 .. n : gl.pids[k] = fl.pids[k]
    BY <1>2, <1>4
  <2>3. \A k \in 1 .. n : fl.pids[k] \in W
    BY <1>2 DEF QueueHolds
  <2> QED
    BY <2>1, <2>2, <2>3
<1>6. \A j, k \in 1 .. n + 1 : gl.pids[j] = gl.pids[k] => j = k
  <2>1. \A j, k \in 1 .. n : gl.pids[j] = gl.pids[k] => j = k
    BY <1>5 DEF QueueHolds
  <2>2. \A j \in 1 .. n : gl.pids[j] # gl.pids[n + 1]
    BY <1>5
  <2>3. \A j \in 1 .. n + 1 : j \in 1 .. n \/ j = n + 1
    BY <1>2
  <2> QED
    BY <2>1, <2>2, <2>3, Zenon
<1>7. ASSUME NEW q \in Pid
      PROVE  /\ q \in W \cup {p} <=> \E k \in 1 .. n + 1 : gl.pids[k] = q
             /\ gl.inq[q] <=> q \in W \cup {p}
             /\ gl.req[q] = IF q \in W \cup {p} THEN after[q] ELSE NONE
  <2>1. q \in W <=> \E k \in 1 .. n : fl.pids[k] = q
    BY DEF QueueHolds
  <2>2. q \in W \cup {p} <=> \E k \in 1 .. n + 1 : gl.pids[k] = q
    <3>1. CASE q = p
      BY <1>2, <1>5, <3>1
    <3>2. CASE q # p
      BY <1>2, <1>5, <2>1, <3>2
    <3> QED
      BY <3>1, <3>2
  <2>3. (fl.inq[q] <=> q \in W) /\ fl.req[q] = IF q \in W THEN wanted[q] ELSE NONE
    BY DEF QueueHolds
  <2> QED
    BY <1>2, <1>4, <2>2, <2>3
<1> QED
  BY <1>1, <1>2, <1>5, <1>6, <1>7 DEF QueueHolds, gl

\* waitq_remove finds the thread that leaves and keeps all others.
LEMMA QueueRemove ==
  ASSUME NEW fl \in FlockT, NEW W, W \subseteq Pid, NEW wanted, NEW after,
         QueueHolds(fl, W, wanted), NEW p \in W,
         \A q \in W \ {p} : after[q] = wanted[q]
  PROVE  QueueHolds(waitq_remove(fl, p), W \ {p}, after)
<1> DEFINE gl == waitq_remove(fl, p)
           q  == fl.pids
           n  == Len(fl.pids)
<1>1. /\ q \in Seq(Pid) /\ n \in Nat /\ n = Cardinality(W) /\ p \in Pid
      /\ fl.inq \in [Pid -> BOOLEAN] /\ fl.req \in [Pid -> Held]
  BY DEF FlockT, QueueHolds
<1>2. Cardinality(W \ {p}) = n - 1
  BY <1>1, PidAssumption, FS_Subset, FS_RemoveElement
<1>3. PICK m \in 1 .. n : q[m] = p
  BY <1>1 DEF QueueHolds
<1>4. \A k \in 1 .. n : q[k] = p <=> k = m
  BY <1>3 DEF QueueHolds
<1>5. FirstPos(q, p) = m
  <2>1. \A j \in 1 .. m - 1 : q[j] # p
    BY <1>1, <1>4
  <2>2. \A k \in 1 .. n : q[k] = p /\ (\A j \in 1 .. k - 1 : q[j] # p) <=> k = m
    BY <1>4, <2>1
  <2> QED
    BY <1>3, <2>2 DEF FirstPos
<1>6. gl = [fl EXCEPT !.pids = ShiftDown(q, m), !.inq = [@ EXCEPT ![p] = FALSE],
                      !.req = [@ EXCEPT ![p] = NONE]]
  BY <1>1, <1>3, <1>5 DEF waitq_remove, QueueHolds
<1>7. /\ gl.pids = ShiftDown(q, m) /\ gl.inq = [fl.inq EXCEPT ![p] = FALSE]
      /\ gl.req = [fl.req EXCEPT ![p] = NONE]
  BY <1>6 DEF FlockT
<1> HIDE DEF gl
<1>8. /\ Len(gl.pids) = n - 1
      /\ \A k \in 1 .. n - 1 : gl.pids[k] = IF k < m THEN q[k] ELSE q[k + 1]
  <2>1. n - 1 \in Nat
    BY <1>1, <1>3
  <2>2. DOMAIN gl.pids = 1 .. n - 1
    BY <1>7 DEF ShiftDown
  <2>3. gl.pids \in Seq(Pid)
    BY <1>1, <1>7, ShiftDownType
  <2> QED
    BY <1>7, <2>1, <2>2, <2>3 DEF ShiftDown
<1>9. \A j, k \in 1 .. n - 1 : gl.pids[j] = gl.pids[k] => j = k
  <2> SUFFICES ASSUME NEW j \in 1 .. n - 1, NEW k \in 1 .. n - 1, gl.pids[j] = gl.pids[k]
               PROVE  j = k
    OBVIOUS
  <2>1. PICK a \in 1 .. n : gl.pids[j] = q[a] /\ a = IF j < m THEN j ELSE j + 1
    BY <1>1, <1>8
  <2>2. PICK b \in 1 .. n : gl.pids[k] = q[b] /\ b = IF k < m THEN k ELSE k + 1
    BY <1>1, <1>8
  <2>3. \A x, y \in 1 .. n : q[x] = q[y] => x = y
    BY DEF QueueHolds
  <2>4. a = b
    BY <2>1, <2>2, <2>3, Zenon
  <2> QED
    BY <1>1, <2>1, <2>2, <2>4
<1>10. ASSUME NEW r \in Pid
       PROVE  /\ r \in W \ {p} <=> \E k \in 1 .. n - 1 : gl.pids[k] = r
              /\ gl.inq[r] <=> r \in W \ {p}
              /\ gl.req[r] = IF r \in W \ {p} THEN after[r] ELSE NONE
  <2>1. r \in W <=> \E k \in 1 .. n : q[k] = r
    BY DEF QueueHolds
  <2>2. ASSUME r \in W \ {p} PROVE \E k \in 1 .. n - 1 : gl.pids[k] = r
    <3>1. PICK k \in 1 .. n : q[k] = r
      BY <2>1, <2>2
    <3>2. k # m
      BY <1>3, <2>2, <3>1
    <3>3. CASE k < m
      <4>1. k \in 1 .. n - 1
        BY <1>1, <3>3
      <4> QED
        BY <1>8, <3>1, <3>3, <4>1
    <3>4. CASE k > m
      <4>1. k - 1 \in 1 .. n - 1 /\ ~ (k - 1 < m) /\ (k - 1) + 1 = k
        BY <1>1, <3>4
      <4> QED
        BY <1>8, <3>1, <4>1
    <3> QED
      BY <1>1, <3>2, <3>3, <3>4
  <2>3. ASSUME NEW k \in 1 .. n - 1, gl.pids[k] = r PROVE r \in W \ {p}
    <3>1. PICK a \in 1 .. n : gl.pids[k] = q[a] /\ a # m
      <4>1. CASE k < m
        <5>1. k \in 1 .. n /\ k # m
          BY <1>1, <4>1
        <5> QED
          BY <1>8, <4>1, <5>1
      <4>2. CASE ~ (k < m)
        <5>1. k + 1 \in 1 .. n /\ k + 1 # m
          BY <1>1, <4>2
        <5> QED
          BY <1>8, <4>2, <5>1
      <4> QED
        BY <4>1, <4>2
    <3> QED
      BY <1>4, <2>1, <2>3, <3>1
  <2>4. (fl.inq[r] <=> r \in W) /\ fl.req[r] = IF r \in W THEN wanted[r] ELSE NONE
    BY DEF QueueHolds
  <2> QED
    BY <1>1, <1>7, <2>2, <2>3, <2>4
<1> QED
  BY <1>2, <1>8, <1>9, <1>10 DEF QueueHolds, gl

\* Who waits can be read off the queue of a flock_t alone.
LEMMA QueueSame ==
  ASSUME NEW fl, NEW gl, SameQueue(fl, gl), NEW W, NEW wanted, NEW after,
         QueueHolds(fl, W, wanted), \A q \in W : after[q] = wanted[q]
  PROVE  QueueHolds(gl, W, after)
BY DEF SameQueue, QueueHolds

\* Granting and releasing leave the wait queue alone.
LEMMA GrantQueue ==
  ASSUME NEW fl \in FlockT, NEW h
  PROVE  SameQueue(fl, Grant(fl, h)) /\ SameQueue(fl, flock_release(fl, h))
<1>1. SameQueue(fl, Grant(fl, h))
  BY DEF Grant, SameQueue, FlockT
<1>2. CASE h = LOCK_SH /\ fl.state = FLOCK_SHARED /\ fl.shared_holders > 0
  BY <1>1, <1>2 DEF flock_release, SameQueue, FlockT
<1>3. CASE h = LOCK_EX /\ fl.state = FLOCK_EXCLUSIVE
  BY <1>1, <1>3 DEF flock_release, SameQueue, FlockT
<1>4. CASE /\ ~ (h = LOCK_SH /\ fl.state = FLOCK_SHARED /\ fl.shared_holders > 0)
           /\ ~ (h = LOCK_EX /\ fl.state = FLOCK_EXCLUSIVE)
  BY <1>1, <1>4 DEF flock_release, SameQueue
<1> QED
  BY <1>2, <1>3, <1>4

\* Nobody is in the queue that flock_init builds.
LEMMA InitQueue ==
  ASSUME NEW wanted
  PROVE  QueueHolds(flock_init, {}, wanted)
<1>1. Len(flock_init.pids) = 0 /\ Cardinality({}) = 0
  BY FS_EmptySet DEF flock_init
<1>2. \A p \in Pid : flock_init.inq[p] = FALSE /\ flock_init.req[p] = NONE
  BY DEF flock_init
<1> QED
  BY <1>1, <1>2 DEF QueueHolds

\* A request that starts to wait joins the queue.
LEMMA StartWaitQueue ==
  ASSUME NEW fl \in FlockT, NEW W, W \subseteq Pid, NEW wanted, NEW after,
         QueueHolds(fl, W, wanted), NEW p \in Pid, p \notin W,
         NEW h \in LockType, after[p] = h, \A q \in W : after[q] = wanted[q]
  PROVE  QueueHolds(StartWait(fl, p, h), W \cup {p}, after)
<1> DEFINE al == waitq_add(fl, p, h)
<1>1. al \in FlockT /\ QueueHolds(al, W \cup {p}, after)
  BY WaitqAdd, QueueAdd
<1> HIDE DEF al
<1>2. StartWait(fl, p, h) = IF h = LOCK_SH THEN [al EXCEPT !.waiting_shared = @ + 1]
                                           ELSE [al EXCEPT !.waiting_exclusive = @ + 1]
  BY DEF StartWait, al
<1>3. SameQueue(al, StartWait(fl, p, h))
  BY <1>1, <1>2 DEF SameQueue, FlockT
<1> QED
  BY <1>1, <1>3, QueueSame

\* A request that stops waiting leaves the queue.
LEMMA EndWaitQueue ==
  ASSUME NEW fl \in FlockT, NEW W, W \subseteq Pid, NEW wanted, NEW after,
         QueueHolds(fl, W, wanted), NEW p \in W, NEW h \in LockType,
         \A q \in W \ {p} : after[q] = wanted[q]
  PROVE  QueueHolds(EndWait(fl, p, h), W \ {p}, after)
<1> DEFINE dl == IF h = LOCK_SH THEN [fl EXCEPT !.waiting_shared = @ - 1]
                                ELSE [fl EXCEPT !.waiting_exclusive = @ - 1]
<1>1. dl \in FlockT /\ SameQueue(fl, dl)
  BY SMTT(30) DEF FlockT, SameQueue
<1>2. EndWait(fl, p, h) = waitq_remove(dl, p)
  BY DEF EndWait
<1> HIDE DEF dl
<1>3. QueueHolds(dl, W, wanted)
  BY <1>1, QueueSame
<1> QED
  BY <1>1, <1>2, <1>3, QueueRemove
=============================================================================
