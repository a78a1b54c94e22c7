------------------------------- MODULE MemMap -------------------------------
(***************************************************************************)
(* How the kernel learns which pages it may use: kern/dev/mboot.c copies    *)
(* the memory map of the boot loader into a list ordered by start address   *)
(* and merges it, pmem_init (kern/pmm/MATInit) gives every page its         *)
(* permission, and container_init counts the quota of the root.  Addresses  *)
(* are bytes below MaxAddr, which stands for 0xffffffff.                    *)
(***************************************************************************)
EXTENDS Integers, FiniteSets, SequencesExt

CONSTANTS
  MaxAddr, PAGESIZE, VM_USERLO_PI, VM_USERHI_PI,
  MaxEntries,   \* bound: the entries of the boot loader's map
  Bases,        \* their start addresses
  Lengths,      \* their lengths
  Types,        \* the types of regions, MEM_RAM among them
  MEM_RAM

VARIABLES
  e820,   \* the entries of the boot loader, [base, length, type]
  map     \* pmmap_list after pmmap_init
bootVars == <<e820, map>>

Entry == [base : Bases, length : Lengths, type : Types]

-----------------------------------------------------------------------------
\* The new slot goes behind the slots before the first with a larger start.
pmmap_insert(list, slot) ==
  LET after == {k \in 1 .. Len(list) : slot.start < list[k].start}
      n == IF after = {} THEN Len(list) ELSE (CHOOSE k \in after : \A j \in after : k <= j) - 1
  IN  SubSeq(list, 1, n) \o <<slot>> \o SubSeq(list, n + 1, Len(list))

\* An entry as a slot, cut off at the end of the address space.
SlotOf(e) ==
  [start |-> e.base, end |-> IF e.length >= MaxAddr - e.base THEN MaxAddr ELSE e.base + e.length, type |-> e.type]

Merged(a, b) == [a EXCEPT !.end = IF @ < b.end THEN b.end ELSE @]

\* Step 1 of pmmap_merge: one pass, in which a slot meets its successor once.
MergeOnce[list \in Seq([start : Nat, end : Nat, type : Types])] ==
  IF Len(list) < 2 THEN list
  ELSE LET a == list[1]  b == list[2]
           joins == a.start <= b.start /\ a.end >= b.start /\ a.type = b.type
       IN  IF joins THEN <<Merged(a, b)>> \o MergeOnce[SubSeq(list, 3, Len(list))]
           ELSE <<a>> \o MergeOnce[Tail(list)]

pmmap_merge(list) == MergeOnce[list]

\* The list for the entries, before and after it is merged.
Inserted(entries) == FoldLeft(LAMBDA list, e : pmmap_insert(list, SlotOf(e)), << >>, entries)
pmmap_init(entries) == pmmap_merge(Inserted(entries))

get_size       == Len(map)
get_mms(k)     == map[k].start
get_mml(k)     == map[k].end - map[k].start
is_usable(k)   == map[k].type = MEM_RAM

-----------------------------------------------------------------------------
(* pmem_init.                                                                *)

nps ==
  LET ends == {get_mms(k) + get_mml(k) : k \in 1 .. get_size} \cup {0}
  IN  (CHOOSE a \in ends : \A b \in ends : b <= a) \div PAGESIZE


HoldsPage(k, pg) == get_mms(k) <= pg * PAGESIZE /\ (pg + 1) * PAGESIZE <= get_mms(k) + get_mml(k)

\* The permission of a page: by the first range that contains it.
perm(pg) ==
  LET ranges == {k \in 1 .. get_size : HoldsPage(k, pg)}
  IN  IF pg < VM_USERLO_PI \/ VM_USERHI_PI <= pg THEN 1
      ELSE IF ranges # {} /\ is_usable(CHOOSE k \in ranges : \A j \in ranges : k <= j) THEN 2 ELSE 0

\* real_quota of container_init; pages from nps on have no entry in AT.
at_is_norm(pg) == pg < nps /\ perm(pg) > 1

real_quota == Cardinality({pg \in 1 .. nps - 1 : at_is_norm(pg)})

-----------------------------------------------------------------------------
MapInit == e820 = << >> /\ map = << >>

\* The boot loader's map has one more entry.
NextEntry ==
  /\ Len(e820) < MaxEntries
  /\ \E e \in Entry : e820' = Append(e820, e) /\ map' = pmmap_init(Append(e820, e))

-----------------------------------------------------------------------------
\* The addresses that the map says have type t.
Region(list, t) == UNION {list[k].start .. list[k].end - 1 : k \in {k \in 1 .. Len(list) : list[k].type = t}}

\* Merging loses no address of a type and adds none, and the list stays in the
\* order of start addresses (pmmap_insert and pmmap_merge).
MergeKeeps ==
  /\ \A t \in Types : Region(map, t) = Region([k \in 1 .. Len(e820) |-> SlotOf(e820[k])], t)
  /\ \A k \in 1 .. get_size - 1 : get_mms(k) <= get_mms(k + 1)

\* A page that may be handed out lies in user space and every byte of it in
\* usable memory (pmem_init).
NormIsUsable ==
  \A pg \in 0 .. MaxAddr \div PAGESIZE : at_is_norm(pg) =>
    /\ pg \in VM_USERLO_PI .. VM_USERHI_PI - 1
    /\ pg * PAGESIZE .. (pg + 1) * PAGESIZE - 1 \subseteq Region([k \in 1 .. Len(e820) |-> SlotOf(e820[k])], MEM_RAM)

\* The root's quota is the number of pages palloc can find: it searches the
\* pages of user space, and container_init counts over the whole table.
QuotaIsSearchable == real_quota = Cardinality({pg \in VM_USERLO_PI .. VM_USERHI_PI - 1 : at_is_norm(pg)})

==============================================================================
