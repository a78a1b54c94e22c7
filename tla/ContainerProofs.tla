--------------------------- MODULE ContainerProofs ---------------------------
(* The invariants of ContainerTree, for every number of processes and every  *)
(* quota that does not wrap.                                                  *)
EXTENDS ContainerTree, TLAPS

\* A sum that is below Word is not changed by the unsigned addition of
\* container_can_consume.
LEMMA NoWrap == ASSUME NEW n \in Nat, NEW w \in Nat, n < w PROVE n % w = n
  BY SMT

\* The places for children of two different containers do not overlap: what
\* makes id * MAX_CHILDREN + 1 + nchildren a new index in container_split.
LEMMA PlacesDisjoint ==
  ASSUME NEW m \in Nat, NEW a \in Nat, NEW b \in Nat, NEW k \in Nat,
         a * m < k, k <= a * m + m, b * m < k, k <= b * m + m
  PROVE  a = b
<1>1. ASSUME NEW c \in Nat, NEW d \in Nat, c < d PROVE c * m + m <= d * m
  <2>1. PICK e \in Nat : d = c + 1 + e
    BY <1>1, d = c + 1 + (d - c - 1), SMT
  <2>2. d * m = c * m + m + e * m /\ e * m \in Nat
    BY <2>1, SMT
  <2> QED BY <2>2, c * m \in Nat, SMT
<1>2. a * m \in Nat /\ b * m \in Nat
  BY SMT
<1>3. ~(a < b) /\ ~(b < a)
  BY <1>1, <1>2, SMT
<1> QED BY <1>3, SMT

-----------------------------------------------------------------------------
\* The invariant that the steps preserve.  That no quota exceeds the root's is
\* what keeps the sum of container_can_consume from wrapping.
QuotaBound == \A id \in Id : cont[id].quota <= MaxPages

IInv == TypeOK /\ NoOverdraft /\ QuotaBound /\ TreeLaidOut

\* container_init sets up the root alone.
LEMMA InitInv == Init => IInv
<1> SUFFICES ASSUME Init PROVE IInv
  OBVIOUS
<1> USE ContainerAssumption
<1>1. 0 \in Id
  BY SMT DEF Id
<1>2. PICK q \in 0 .. MaxPages :
        cont = [id \in Id |-> [quota |-> IF id = 0 THEN q ELSE 0, usage |-> 0, parent |-> 0,
                               nchildren |-> 0, used |-> (id = 0)]]
  BY DEF Init, container_init
<1>3. TypeOK
  BY <1>1, <1>2 DEF TypeOK, Container
<1>4. NoOverdraft /\ QuotaBound
  BY <1>2, SMT DEF NoOverdraft, QuotaBound
<1>5. \A id \in Id : cont[id].nchildren = 0 /\ (cont[id].used <=> id = 0)
  BY <1>2
<1>6. \A id \in Id : ChildrenOf(cont, id) = {}
  BY <1>5, SMT DEF ChildrenOf, Id
<1>7. TreeLaidOut
  <2>1. \A id \in Id : cont[id].parent \in Id
    BY <1>3 DEF TypeOK, Container
  <2> QED BY <1>1, <1>5, <1>6, <2>1 DEF TreeLaidOut
<1> QED BY <1>3, <1>4, <1>7 DEF IInv

\* What sys_spawn knows when none of its early returns was taken: the sum did
\* not wrap, and the place of the child exists.
LEMMA SpawnPlace ==
  ASSUME IInv, NEW id \in Id, NEW quota \in Quotas, ~SpawnRefused(cont, id, quota)
  PROVE  /\ cont[id].usage + quota <= cont[id].quota
         /\ cont[id].nchildren < MAX_CHILDREN
         /\ ChildId(cont, id) \in Id \ {0, id}
         /\ ChildId(cont, id) = id * MAX_CHILDREN + cont[id].nchildren + 1
<1> USE ContainerAssumption
<1>1. cont[id] \in Container /\ quota \in Nat /\ id \in Nat /\ id * MAX_CHILDREN \in Nat
  BY SMT DEF IInv, TypeOK, Id
<1>2. cont[id].usage \in Nat /\ cont[id].quota \in Nat /\ cont[id].nchildren \in Nat
  BY <1>1 DEF Container
<1>3. cont[id].usage <= cont[id].quota /\ cont[id].quota <= MaxPages
  BY DEF IInv, NoOverdraft, QuotaBound
<1>4. MaxPages + quota < Word
  OBVIOUS
<1>5. cont[id].usage + quota < Word /\ cont[id].usage + quota \in Nat
  BY <1>1, <1>2, <1>3, <1>4, SMT
<1>6. (cont[id].usage + quota) % Word = cont[id].usage + quota
  BY <1>5, NoWrap
<1>7. cont[id].usage + quota <= cont[id].quota
  BY <1>6 DEF SpawnRefused, container_can_consume
<1>8. cont[id].nchildren # MAX_CHILDREN /\ cont[id].nchildren <= MAX_CHILDREN
  BY DEF SpawnRefused, IInv, TreeLaidOut
<1>9. ~(NUM_IDS < id * MAX_CHILDREN + 1 + MAX_CHILDREN)
  BY DEF SpawnRefused
<1>10. id <= id * MAX_CHILDREN
  <2>1. PICK m \in Nat : MAX_CHILDREN = m + 1
    BY MAX_CHILDREN = (MAX_CHILDREN - 1) + 1, SMT
  <2>2. id * MAX_CHILDREN = id * m + id /\ id * m \in Nat
    BY <1>1, <2>1, SMT
  <2> QED BY <1>1, <2>2, SMT
<1>11. ChildId(cont, id) = id * MAX_CHILDREN + cont[id].nchildren + 1
  BY <1>1, <1>2, SMT DEF ChildId
<1>12. cont[id].nchildren < MAX_CHILDREN
  BY <1>2, <1>8, SMT
<1>13. id * MAX_CHILDREN + cont[id].nchildren + 1 \in 0 .. NUM_IDS - 1
  BY <1>1, <1>2, <1>9, <1>12, SMT
<1>14. id * MAX_CHILDREN + cont[id].nchildren + 1 # 0 /\ id * MAX_CHILDREN + cont[id].nchildren + 1 # id
  BY <1>1, <1>2, <1>10, SMT
<1> QED BY <1>7, <1>11, <1>12, <1>13, <1>14 DEF Id

\* The place of the next child is not in use: container_split writes it
\* without a test.
LEMMA PlaceFree ==
  ASSUME IInv, NEW id \in Id, NEW quota \in Quotas, ~SpawnRefused(cont, id, quota)
  PROVE  ~cont[ChildId(cont, id)].used
<1> DEFINE k == ChildId(cont, id)
           p == cont[k].parent
<1> USE ContainerAssumption
<1>1. k \in Id \ {0, id} /\ k = id * MAX_CHILDREN + cont[id].nchildren + 1 /\ cont[id].nchildren < MAX_CHILDREN
  BY SpawnPlace
<1>2. SUFFICES ASSUME cont[k].used PROVE FALSE
  OBVIOUS
<1>3. p \in Id /\ cont[id].nchildren \in Nat /\ cont[p].nchildren \in Nat /\ cont[p].nchildren <= MAX_CHILDREN
  BY <1>1 DEF IInv, TypeOK, Container, TreeLaidOut
<1>4. k \in ChildrenOf(cont, p)
  BY <1>1, <1>2 DEF IInv, TreeLaidOut
<1>5. k > p * MAX_CHILDREN /\ k <= p * MAX_CHILDREN + cont[p].nchildren
  BY <1>4 DEF ChildrenOf
<1>6. id \in Nat /\ p \in Nat /\ k \in Nat /\ id * MAX_CHILDREN \in Nat /\ p * MAX_CHILDREN \in Nat
  BY <1>1, <1>3, SMT DEF Id
<1>7. id * MAX_CHILDREN < k /\ k <= id * MAX_CHILDREN + MAX_CHILDREN
  BY <1>1, <1>3, <1>6, SMT
<1>8. p * MAX_CHILDREN < k /\ k <= p * MAX_CHILDREN + MAX_CHILDREN
  BY <1>3, <1>5, <1>6, SMT
<1> HIDE DEF k, p
<1>9. p = id
  BY <1>6, <1>7, <1>8, PlacesDisjoint
<1> QED BY <1>1, <1>3, <1>5, <1>6, <1>9, SMT

-----------------------------------------------------------------------------
\* What a spawn does to the fields of the containers.
LEMMA SpawnFields ==
  ASSUME IInv, NEW id \in Id, NEW quota \in Quotas, Spawn(id, quota)
  PROVE  LET k == ChildId(cont, id) IN
         /\ cont' \in [Id -> Container]
         /\ cont'[k] = [quota |-> quota, usage |-> 0, parent |-> id, nchildren |-> 0, used |-> TRUE]
         /\ cont'[id] = [cont[id] EXCEPT !.usage = @ + quota, !.nchildren = @ + 1]
         /\ \A j \in Id \ {k, id} : cont'[j] = cont[j]
<1> DEFINE k == ChildId(cont, id)
<1> USE ContainerAssumption
<1>1. k \in Id \ {0, id}
  BY SpawnPlace DEF Spawn
<1>2. cont \in [Id -> Container] /\ quota \in Nat
  BY DEF IInv, TypeOK
<1> DEFINE new == [quota |-> quota, usage |-> 0, parent |-> id, nchildren |-> 0, used |-> TRUE]
           mine == [cont[id] EXCEPT !.usage = @ + quota, !.nchildren = @ + 1]
<1>3. cont' = [cont EXCEPT ![k] = new, ![id].usage = @ + quota, ![id].nchildren = @ + 1]
  BY DEF Spawn, container_split
<1>4. cont' = [j \in Id |-> IF j = id THEN mine ELSE IF j = k THEN new ELSE cont[j]]
  BY <1>1, <1>2, <1>3
<1>5. new \in Container
  BY <1>2 DEF Container
<1>6. mine \in Container
  <2>1. cont[id] \in Container /\ cont[id].usage + quota \in Nat /\ cont[id].nchildren + 1 \in Nat
    BY <1>2, SMT DEF Container
  <2> QED BY <2>1 DEF Container
<1> QED BY <1>1, <1>2, <1>4, <1>5, <1>6

\* What an allocation does to them.
LEMMA AllocFields ==
  ASSUME IInv, NEW id \in Id, Alloc(id)
  PROVE  /\ cont' \in [Id -> Container]
         /\ cont'[id] = [cont[id] EXCEPT !.usage = @ + 1]
         /\ \A j \in Id \ {id} : cont'[j] = cont[j]
<1>1. cont \in [Id -> Container]
  BY DEF IInv, TypeOK
<1>2. cont' = [j \in Id |-> IF j = id THEN [cont[id] EXCEPT !.usage = @ + 1] ELSE cont[j]]
  BY <1>1 DEF Alloc, Charge
<1>3. [cont[id] EXCEPT !.usage = @ + 1] \in Container
  BY <1>1, SMT DEF Container
<1> QED BY <1>1, <1>2, <1>3

\* A spawn preserves the invariant.
LEMMA SpawnInv ==
  ASSUME IInv, NEW id \in Id, NEW quota \in Quotas, Spawn(id, quota)
  PROVE  IInv'
<1> DEFINE k == ChildId(cont, id)
<1> USE ContainerAssumption
<1>1. /\ cont' \in [Id -> Container]
      /\ cont'[k] = [quota |-> quota, usage |-> 0, parent |-> id, nchildren |-> 0, used |-> TRUE]
      /\ cont'[id] = [cont[id] EXCEPT !.usage = @ + quota, !.nchildren = @ + 1]
      /\ \A j \in Id \ {k, id} : cont'[j] = cont[j]
  BY SpawnFields
<1>2. /\ cont[id].usage + quota <= cont[id].quota /\ cont[id].nchildren < MAX_CHILDREN
      /\ k \in Id \ {0, id} /\ k = id * MAX_CHILDREN + cont[id].nchildren + 1
  BY SpawnPlace DEF Spawn
<1>3. ~cont[k].used /\ cont[id].used
  BY PlaceFree DEF Spawn
<1>4. \A j \in Id : /\ cont[j] \in Container /\ cont[j].usage \in Nat /\ cont[j].quota \in Nat
                     /\ cont[j].nchildren \in Nat /\ cont[j].parent \in Id /\ cont[j].used \in BOOLEAN
  BY DEF IInv, TypeOK, Container
<1>5. /\ cont'[id].usage = cont[id].usage + quota /\ cont'[id].nchildren = cont[id].nchildren + 1
      /\ cont'[id].quota = cont[id].quota /\ cont'[id].parent = cont[id].parent /\ cont'[id].used = cont[id].used
  BY <1>1, <1>4 DEF Container
<1>6. /\ cont'[k].quota = quota /\ cont'[k].usage = 0 /\ cont'[k].parent = id /\ cont'[k].nchildren = 0 /\ cont'[k].used
  BY <1>1
<1>7. TypeOK'
  BY <1>1 DEF TypeOK
<1>8. quota \in Nat /\ cont[id].quota <= MaxPages
  BY DEF IInv, QuotaBound
<1> HIDE DEF k
<1>9. NoOverdraft'
  <2> SUFFICES ASSUME NEW j \in Id PROVE cont'[j].usage <= cont'[j].quota
    BY DEF NoOverdraft
  <2>1. CASE j = id
    BY <2>1, <1>2, <1>5
  <2>2. CASE j = k
    BY <2>2, <1>6, <1>8, SMT
  <2>3. CASE j \in Id \ {k, id}
    BY <2>3, <1>1 DEF IInv, NoOverdraft
  <2> QED BY <2>1, <2>2, <2>3
<1>10. QuotaBound'
  <2> SUFFICES ASSUME NEW j \in Id PROVE cont'[j].quota <= MaxPages
    BY DEF QuotaBound
  <2>1. CASE j = id
    BY <2>1, <1>5, <1>8
  <2>2. CASE j = k
    BY <2>2, <1>2, <1>4, <1>6, <1>8, SMT
  <2>3. CASE j \in Id \ {k, id}
    BY <2>3, <1>1 DEF IInv, QuotaBound
  <2> QED BY <2>1, <2>2, <2>3
<1>11. cont[k].nchildren = 0
  BY <1>2, <1>3 DEF IInv, TreeLaidOut
<1>12. ChildrenOf(cont', id) = ChildrenOf(cont, id) \cup {k}
  <2> DEFINE base == id * MAX_CHILDREN
             n == cont[id].nchildren
  <2>1. ChildrenOf(cont', id) = {c \in Id : c > base /\ c <= base + (n + 1)} /\ ChildrenOf(cont, id) = {c \in Id : c > base /\ c <= base + n}
    BY <1>5 DEF ChildrenOf
  <2>2. base \in Nat /\ n \in Nat /\ k = base + n + 1 /\ k \in Id
    BY <1>2, <1>4, SMT DEF Id
  <2> HIDE DEF base, n
  <2> QED BY <2>1, <2>2, SMT DEF Id
<1>13. \A j \in Id \ {id} : cont'[j].nchildren = cont[j].nchildren
  BY <1>1, <1>6, <1>11
<1>14. \A j \in Id \ {id} : ChildrenOf(cont', j) = ChildrenOf(cont, j)
  BY <1>13 DEF ChildrenOf
<1>15. \A j \in Id : k \notin ChildrenOf(cont, j)
  BY <1>3 DEF IInv, TreeLaidOut
<1>16. TreeLaidOut'
  <2>1. cont'[0].used
    <3>1. 0 \in Id /\ 0 # k
      BY <1>2, SMT DEF Id
    <3>2. cont[0].used
      BY DEF IInv, TreeLaidOut
    <3> QED BY <3>1, <3>2, <1>1, <1>5
  <2>2. \A j \in Id : cont'[j].nchildren <= MAX_CHILDREN
    BY <1>2, <1>4, <1>5, <1>13, SMT DEF IInv, TreeLaidOut
  <2>3. ASSUME NEW j \in Id, ~cont'[j].used PROVE cont'[j].nchildren = 0
    <3>1. j \in Id \ {k, id} /\ ~cont[j].used
      BY <2>3, <1>1, <1>3, <1>5, <1>6
    <3> QED BY <3>1, <1>1 DEF IInv, TreeLaidOut
  <2>4. ASSUME NEW j \in Id, NEW c \in ChildrenOf(cont', j) PROVE cont'[c].used /\ cont'[c].parent = j
    <3>1. CASE c = k
      <4>1. j = id
        BY <3>1, <2>4, <1>14, <1>15
      <4> QED BY <3>1, <4>1, <1>6
    <3>2. CASE c # k
      <4>1. c \in ChildrenOf(cont, j)
        BY <3>2, <2>4, <1>12, <1>14
      <4>2. c \in Id /\ cont[c].used /\ cont[c].parent = j
        BY <4>1 DEF IInv, TreeLaidOut, ChildrenOf
      <4> QED BY <3>2, <4>2, <1>1, <1>5
    <3> QED BY <3>1, <3>2
  <2>5. ASSUME NEW j \in Id \ {0}
        PROVE  cont'[j].used <=> j \in ChildrenOf(cont', cont'[j].parent) /\ cont'[cont'[j].parent].used
    <3> DEFINE q == cont'[j].parent
    <3>1. CASE j = k
      BY <3>1, <1>3, <1>5, <1>6, <1>12
    <3>2. CASE j # k
      <4>1. cont'[j].used = cont[j].used /\ q = cont[j].parent /\ q \in Id
        BY <3>2, <1>1, <1>4, <1>5
      <4>2. j \in ChildrenOf(cont', q) <=> j \in ChildrenOf(cont, q)
        BY <3>2, <4>1, <1>12, <1>14
      <4>3. ASSUME cont[j].used PROVE j \in ChildrenOf(cont, q) /\ cont'[q].used
        <5>1. j \in ChildrenOf(cont, q) /\ cont[q].used
          BY <4>1, <4>3 DEF IInv, TreeLaidOut
        <5> QED BY <5>1, <4>1, <1>1, <1>3, <1>5
      <4>4. ASSUME j \in ChildrenOf(cont, q) PROVE cont[j].used
        BY <4>1, <4>4 DEF IInv, TreeLaidOut
      <4> QED BY <4>1, <4>2, <4>3, <4>4
    <3> QED BY <3>1, <3>2
  <2> QED BY <2>1, <2>2, <2>3, <2>4, <2>5 DEF TreeLaidOut
<1> QED BY <1>7, <1>9, <1>10, <1>16 DEF IInv

\* An allocation preserves the invariant: it stays within the quota and does
\* not touch the tree.
LEMMA AllocInv ==
  ASSUME IInv, NEW id \in Id, Alloc(id)
  PROVE  IInv'
<1> USE ContainerAssumption
<1>1. /\ cont' \in [Id -> Container]
      /\ cont'[id] = [cont[id] EXCEPT !.usage = @ + 1]
      /\ \A j \in Id \ {id} : cont'[j] = cont[j]
  BY AllocFields
<1>2. \A j \in Id : cont[j] \in Container
  BY DEF IInv, TypeOK
<1>3. cont'[id].usage = cont[id].usage + 1
  BY <1>1, <1>2 DEF Container
<1>4. \A j \in Id : /\ cont'[j].quota = cont[j].quota /\ cont'[j].parent = cont[j].parent
                     /\ cont'[j].nchildren = cont[j].nchildren /\ cont'[j].used = cont[j].used
  BY <1>1, <1>2 DEF Container
<1>5. TypeOK'
  BY <1>1 DEF TypeOK
<1>6. NoOverdraft'
  <2>1. cont[id].usage + 1 <= cont[id].quota
    BY DEF Alloc, HasRoom
  <2>2. \A j \in Id \ {id} : cont'[j].usage = cont[j].usage
    BY <1>1
  <2> QED BY <2>1, <2>2, <1>3, <1>4 DEF IInv, NoOverdraft
<1>7. QuotaBound'
  BY <1>4 DEF IInv, QuotaBound
<1>8. \A j \in Id : ChildrenOf(cont', j) = ChildrenOf(cont, j)
  BY <1>4 DEF ChildrenOf
<1>9. \A j \in Id : cont[j].parent \in Id
  BY <1>2 DEF Container
<1>10. \A j \in Id : cont'[cont'[j].parent].used = cont[cont[j].parent].used
                      /\ ChildrenOf(cont', cont'[j].parent) = ChildrenOf(cont, cont[j].parent)
  BY <1>4, <1>8, <1>9
<1>11. TreeLaidOut'
  <2>1. 0 \in Id
    BY SMT DEF Id
  <2>2. \A j \in Id : \A c \in ChildrenOf(cont, j) : c \in Id
    BY DEF ChildrenOf
  <2> QED BY <2>1, <2>2, <1>4, <1>8, <1>10 DEF IInv, TreeLaidOut
<1> QED BY <1>5, <1>6, <1>7, <1>11 DEF IInv

\* The invariant holds of every reachable state of the containers.
THEOREM Invariant == Spec => []IInv
<1>1. Init => IInv
  BY InitInv
<1>2. IInv /\ [Next]_cont => IInv'
  <2> SUFFICES ASSUME IInv, [Next]_cont PROVE IInv'
    OBVIOUS
  <2>1. CASE Next
    <3>1. PICK id \in Id : Alloc(id) \/ \E quota \in Quotas : Spawn(id, quota)
      BY <2>1 DEF Next
    <3> QED BY <3>1, AllocInv, SpawnInv
  <2>2. CASE UNCHANGED cont
    BY <2>2 DEF IInv, TypeOK, NoOverdraft, QuotaBound, TreeLaidOut, ChildrenOf
  <2> QED BY <2>1, <2>2
<1> QED BY <1>1, <1>2, PTL DEF Spec

\* No container ever uses more pages than its quota, for any number of
\* processes and any quotas that cannot wrap the addition.
THEOREM NoOverdraftAlways == Spec => []NoOverdraft
<1>1. IInv => NoOverdraft
  BY DEF IInv
<1> QED BY <1>1, Invariant, PTL

\* The containers in use always form the tree that the indices describe.
THEOREM TreeAlways == Spec => []TreeLaidOut
<1>1. IInv => TreeLaidOut
  BY DEF IInv
<1> QED BY <1>1, Invariant, PTL

\* No step of any process takes a container away from a process: the index
\* that container_split computes is never one in use.
THEOREM Kept == Spec => ContainersKept
<1> DEFINE Keeps == \A id \in Id : cont[id].used =>
                      /\ cont'[id].used /\ cont'[id].quota = cont[id].quota /\ cont'[id].parent = cont[id].parent
                      /\ cont'[id].usage >= cont[id].usage
<1>1. IInv /\ [Next]_cont => [Keeps]_cont
  <2> SUFFICES ASSUME IInv, Next, NEW j \in Id, cont[j].used
               PROVE  /\ cont'[j].used /\ cont'[j].quota = cont[j].quota /\ cont'[j].parent = cont[j].parent
                      /\ cont'[j].usage >= cont[j].usage
    OBVIOUS
  <2>1. \A i \in Id : cont[i] \in Container
    BY DEF IInv, TypeOK
  <2>2. PICK id \in Id : Alloc(id) \/ \E quota \in Quotas : Spawn(id, quota)
    BY DEF Next
  <2>3. CASE Alloc(id)
    <3>1. cont'[id] = [cont[id] EXCEPT !.usage = @ + 1] /\ \A i \in Id \ {id} : cont'[i] = cont[i]
      BY <2>3, AllocFields
    <3>2. cont'[j].used /\ cont'[j].quota = cont[j].quota /\ cont'[j].parent = cont[j].parent
      BY <3>1, <2>1 DEF Container
    <3>3. cont'[j].usage = cont[j].usage \/ cont'[j].usage = cont[j].usage + 1
      BY <3>1, <2>1 DEF Container
    <3>4. cont[j].usage \in Nat
      BY <2>1 DEF Container
    <3> QED BY <3>2, <3>3, <3>4, SMT
  <2>4. ASSUME NEW quota \in Quotas, Spawn(id, quota)
        PROVE  /\ cont'[j].used /\ cont'[j].quota = cont[j].quota /\ cont'[j].parent = cont[j].parent
               /\ cont'[j].usage >= cont[j].usage
    <3>1. cont'[id] = [cont[id] EXCEPT !.usage = @ + quota, !.nchildren = @ + 1]
          /\ \A i \in Id \ {ChildId(cont, id), id} : cont'[i] = cont[i]
      BY <2>4, SpawnFields
    <3>2. j # ChildId(cont, id)
      BY <2>4, PlaceFree DEF Spawn
    <3>3. quota \in Nat
      BY ContainerAssumption
    <3>4. cont'[j].used /\ cont'[j].quota = cont[j].quota /\ cont'[j].parent = cont[j].parent
      <4> DEFINE mine == [cont[id] EXCEPT !.usage = @ + quota, !.nchildren = @ + 1]
      <4>1. mine.used = cont[id].used /\ mine.quota = cont[id].quota /\ mine.parent = cont[id].parent
        BY <2>1 DEF Container
      <4>2. CASE j = id
        BY <4>1, <4>2, <3>1
      <4>3. CASE j # id
        BY <4>3, <3>1, <3>2
      <4> QED BY <4>2, <4>3
    <3>5. cont'[j].usage = cont[j].usage \/ cont'[j].usage = cont[j].usage + quota
      <4>1. CASE j = id
        <5>1. [cont[id] EXCEPT !.usage = @ + quota, !.nchildren = @ + 1].usage = cont[id].usage + quota
          BY <2>1 DEF Container
        <5> QED BY <4>1, <5>1, <3>1
      <4>2. CASE j # id
        BY <4>2, <3>1, <3>2
      <4> QED BY <4>1, <4>2
    <3>6. cont[j].usage \in Nat
      BY <2>1 DEF Container
    <3> QED BY <3>3, <3>4, <3>5, <3>6, SMT
  <2> QED BY <2>2, <2>3, <2>4
<1> QED BY <1>1, Invariant, PTL DEF Spec, ContainersKept
==============================================================================
