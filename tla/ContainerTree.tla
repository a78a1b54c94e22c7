---------------------------- MODULE ContainerTree ----------------------------
(***************************************************************************)
(* What can become of the containers: processes that are spawned and pages  *)
(* that are charged, in any order.                                          *)
(***************************************************************************)
EXTENDS Containers

VARIABLE cont    \* CONTAINER

-----------------------------------------------------------------------------
Init == \E real_quota \in 0 .. MaxPages : cont = container_init(real_quota)

\* sys_spawn by process id, or the proc_create of kern_main by process 0.
Spawn(id, quota) ==
  /\ cont[id].used /\ ~SpawnRefused(cont, id, quota)
  /\ cont' = container_split(cont, id, quota)

\* container_alloc by process id.
Alloc(id) ==
  /\ cont[id].used /\ HasRoom(cont, id)
  /\ cont' = Charge(cont, id)

Next == \E id \in Id : Alloc(id) \/ \E quota \in Quotas : Spawn(id, quota)

Spec == Init /\ [][Next]_cont

-----------------------------------------------------------------------------
TypeOK == cont \in [Id -> Container]

\* No container uses more than its quota: container_can_consume and
\* container_alloc test against it before they charge a container.
NoOverdraft == \A id \in Id : cont[id].usage <= cont[id].quota

\* The containers in use are the root and the first nchildren places of every
\* container in use: a process is the child of exactly one other.
ChildrenOf(c, id) == {k \in Id : k > id * MAX_CHILDREN /\ k <= id * MAX_CHILDREN + c[id].nchildren}
TreeLaidOut ==
  /\ cont[0].used
  /\ \A id \in Id : cont[id].nchildren <= MAX_CHILDREN
  /\ \A id \in Id : ~cont[id].used => cont[id].nchildren = 0
  /\ \A id \in Id \ {0} : cont[id].used <=> id \in ChildrenOf(cont, cont[id].parent) /\ cont[cont[id].parent].used
  /\ \A id \in Id : \A k \in ChildrenOf(cont, id) : cont[k].used /\ cont[k].parent = id

\* A step never takes a container that a process has: its quota and its parent
\* stay, and its usage only grows (container_split writes the container of the
\* child without looking at it).
ContainersKept ==
  [][\A id \in Id : cont[id].used =>
       /\ cont'[id].used /\ cont'[id].quota = cont[id].quota /\ cont'[id].parent = cont[id].parent
       /\ cont'[id].usage >= cont[id].usage]_cont
==============================================================================
