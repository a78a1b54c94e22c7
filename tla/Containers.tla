----------------------------- MODULE Containers ------------------------------
(***************************************************************************)
(* The containers of kern/pmm/MContainer: every process has a quota of      *)
(* pages, and a process that spawns another gives a part of its quota away. *)
(* The container of a child has the index id * MAX_CHILDREN + 1 + nchildren *)
(* of its parent's index, so the processes form a tree laid out in an       *)
(* array.  Containers are never given back, because no process ends.        *)
(***************************************************************************)
EXTENDS Naturals

CONSTANTS
  NUM_IDS, MAX_CHILDREN,
  MaxPages,    \* bound on real_quota of container_init
  Quotas,      \* the quotas that are asked for
  Word         \* 2^32: container_can_consume adds two unsigned ints

\* The sum in container_can_consume does not wrap for the quotas asked for.
ASSUME ContainerAssumption ==
  /\ NUM_IDS \in Nat \ {0} /\ MAX_CHILDREN \in Nat \ {0} /\ MaxPages \in Nat /\ Word \in Nat
  /\ Quotas \subseteq Nat
  /\ \A q \in Quotas : MaxPages + q < Word

Id == 0 .. NUM_IDS - 1

Container == [quota : Nat, usage : Nat, parent : Id, nchildren : Nat, used : BOOLEAN]

\* The state after container_init; the array is static, hence zero.
container_init(quota) ==
  [id \in Id |-> [quota |-> IF id = 0 THEN quota ELSE 0, usage |-> 0, parent |-> 0, nchildren |-> 0, used |-> (id = 0)]]

container_can_consume(c, id, n) == (c[id].usage + n) % Word <= c[id].quota

ChildId(c, id) == id * MAX_CHILDREN + 1 + c[id].nchildren

\* Mutant: the parent keeps what it gives away.
container_split_Keeps(c, id, quota) ==
  [c EXCEPT ![ChildId(c, id)] = [quota |-> quota, usage |-> 0, parent |-> id, nchildren |-> 0, used |-> TRUE],
            ![id].nchildren = @ + 1]

\* container_split where the child's index is below NUM_IDS.
container_split(c, id, quota) ==
  [c EXCEPT ![ChildId(c, id)] = [quota |-> quota, usage |-> 0, parent |-> id, nchildren |-> 0, used |-> TRUE],
            ![id].usage = @ + quota,
            ![id].nchildren = @ + 1]

\* The condition of container_alloc, and what it does to the container.
HasRoom(c, id) == c[id].usage + 1 <= c[id].quota
Charge(c, id) == [c EXCEPT ![id].usage = @ + 1]

\* The early returns of sys_spawn.
SpawnRefused(c, id, quota) ==
  \/ ~container_can_consume(c, id, quota)
  \/ NUM_IDS < id * MAX_CHILDREN + 1 + MAX_CHILDREN
  \/ c[id].nchildren = MAX_CHILDREN
==============================================================================
