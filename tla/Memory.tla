------------------------------- MODULE Memory -------------------------------
(***************************************************************************)
(* Physical pages and address spaces: the memory map at boot (MemMap), the  *)
(* allocation table and palloc (kern/pmm), containers (Containers), two-    *)
(* level page tables (kern/vmm), the copies between kernel and user memory  *)
(* (kern/lib/pmap.c), elf_load, page faults and sys_spawn.  Page tables and data live in the same        *)
(* physical pages, as words of ram; a page has PAGESIZE words, each one     *)
(* byte of data or one entry of a table.  An entry is the number of the     *)
(* page it maps and 0 when it maps nothing; page 0 is the kernel's, where a *)
(* copy ends up that uses the entry 0.  Virtual addresses count from        *)
(* VM_USERLO.  The kernel does not switch threads in any of this, so every  *)
(* operation is one step.                                                   *)
(***************************************************************************)
EXTENDS Containers, MemMap

CONSTANTS
  PDES,            \* user entries of a page directory; a table has PAGESIZE entries
  BootMaps,        \* the boot loader's maps with which the system is started
  Idle,            \* the image and the quota of the first process
  Images,          \* the programs that sys_spawn is asked for
  Value,           \* the bytes that processes write
  StoreAt, CopyAt  \* the addresses they write and hand to system calls

Page    == 0 .. VM_USERHI_PI - 1
UserVA  == 0 .. PDES * PAGESIZE * PAGESIZE - 1
Junk    == 2       \* what the memory holds before it is used; also a page number

ASSUME MemoryAssumption == MaxPages = VM_USERHI_PI - VM_USERLO_PI

VARIABLE mem
\* norm: the usable pages in AT; alloc, last: the allocated pages and
\* last_palloc_index; cont: CONTAINER; pdir: PDirPool; ram: the pages; ids: the
\* processes; panic; and for the properties owner, who allocated a page, and
\* starved, palloc failed.

vars == <<e820, map, mem>>

-----------------------------------------------------------------------------
(* Pages.  An operation gives <<memory after, result>>.                      *)

\* How many steps after last_palloc_index the circular scan of palloc comes to pg.
ScanOrder(m, pg) == (pg - m.last) % (VM_USERHI_PI - VM_USERLO_PI)

FreePages(m) == m.norm \ m.alloc

NextPage(m)  == CHOOSE p \in FreePages(m) : \A q \in FreePages(m) : ScanOrder(m, p) <= ScanOrder(m, q)

\* Mutant: the page is not marked as allocated.
TakePage_NotMarked(m, pg) == <<[m EXCEPT !.last = pg], pg>>

TakePage(m, pg) == <<[m EXCEPT !.alloc = @ \cup {pg}, !.last = pg], pg>>

palloc(m) == IF FreePages(m) = {} THEN <<[m EXCEPT !.last = VM_USERLO_PI], 0>> ELSE TakePage(m, NextPage(m))

\* r is what palloc returned to container_alloc.
Owned(r, id) ==
  IF r[2] = 0 THEN <<[r[1] EXCEPT !.starved = TRUE], 0>> ELSE <<[r[1] EXCEPT !.owner = [@ EXCEPT ![r[2]] = id]], r[2]>>

container_alloc(m, id) ==
  IF HasRoom(m.cont, id) THEN Owned(palloc([m EXCEPT !.cont = Charge(@, id)]), id) ELSE <<m, 0>>

-----------------------------------------------------------------------------
(* Page tables.                                                              *)

PDE_ADDR(va) == va \div (PAGESIZE * PAGESIZE)
PTE_ADDR(va) == (va \div PAGESIZE) % PAGESIZE

get_pdir_entry_by_va(m, id, va) == m.pdir[id][PDE_ADDR(va)]
get_ptbl_entry(m, id, pde, pte) == m.ram[m.pdir[id][pde]][pte]

get_ptbl_entry_by_va(m, id, va) ==
  IF get_pdir_entry_by_va(m, id, va) = 0 THEN 0 ELSE get_ptbl_entry(m, id, PDE_ADDR(va), PTE_ADDR(va))

set_pdir_entry_by_va(m, id, va, pg) == [m EXCEPT !.pdir = [@ EXCEPT ![id] = [@ EXCEPT ![PDE_ADDR(va)] = pg]]]
set_ptbl_entry_by_va(m, id, va, pg) ==
  [m EXCEPT !.ram = [@ EXCEPT ![get_pdir_entry_by_va(m, id, va)] = [@ EXCEPT ![PTE_ADDR(va)] = pg]]]

\* Mutant: the entries of the new page table are not cleared.
NewTable_NotCleared(r, id, va) ==
  IF r[2] = 0 THEN r ELSE <<set_pdir_entry_by_va(r[1], id, va, r[2]), r[2]>>

\* The page of r, which container_alloc returned, becomes a page table.
NewTable(r, id, va) ==
  IF r[2] = 0 THEN r
  ELSE <<[set_pdir_entry_by_va(r[1], id, va, r[2]) EXCEPT
            !.ram = [@ EXCEPT ![r[2]] = [k \in 0 .. PAGESIZE - 1 |-> 0]]], r[2]>>

alloc_ptbl(m, id, va) == NewTable(container_alloc(m, id), id, va)

\* pg is mapped in the page table of r; the result 0 stands for MagicNumber.
MapIn(r, id, va, pg) == IF r[2] = 0 THEN r ELSE <<set_ptbl_entry_by_va(r[1], id, va, pg), r[2]>>

map_page(m, id, va, pg) ==
  MapIn(IF get_pdir_entry_by_va(m, id, va) = 0 THEN alloc_ptbl(m, id, va)
        ELSE <<m, get_pdir_entry_by_va(m, id, va)>>, id, va, pg)

MapTaken(r, id, va) == IF r[2] = 0 THEN r ELSE map_page(r[1], id, va, r[2])

alloc_page(m, id, va) == MapTaken(container_alloc(m, id), id, va)

-----------------------------------------------------------------------------
(* Copies.  data is the function from offsets to the bytes that are written. *)

\* The parts of pages that the loops of pmap.c go through.
Chunks(va, len) ==
  [k \in 1 .. (IF len = 0 THEN 0 ELSE (va + len - 1) \div PAGESIZE - va \div PAGESIZE + 1) |-> va \div PAGESIZE + k - 1]

\* Where a chunk is copied from or to: its page, allocated on demand.
WithPage(m, id, page) ==
  IF get_ptbl_entry_by_va(m, id, page * PAGESIZE) # 0 THEN m ELSE alloc_page(m, id, page * PAGESIZE)[1]

\* The bytes of data that belong to the page of va end up where it is mapped.
CopyPage(m, id, va, page, data) ==
  [m EXCEPT !.ram = [@ EXCEPT ![get_ptbl_entry_by_va(m, id, page * PAGESIZE)] =
     [k \in 0 .. PAGESIZE - 1 |->
        IF page * PAGESIZE + k - va \in DOMAIN data THEN data[page * PAGESIZE + k - va] ELSE @[k]]]]

\* The loop of pt_copyout and of pt_memset.
pt_copyout(m, id, va, data) ==
  FoldLeft(LAMBDA s, page : CopyPage(WithPage(s, id, page), id, va, page, data),
           m, Chunks(va, Cardinality(DOMAIN data)))

\* pt_copyin changes the memory of the process by the pages it allocates.
pt_copyin(m, id, va, len) == FoldLeft(LAMBDA s, page : WithPage(s, id, page), m, Chunks(va, len))

pt_memset(m, id, va, c, len) == pt_copyout(m, id, va, [k \in 0 .. len - 1 |-> c])

-----------------------------------------------------------------------------
(* Programs.  An image has the bytes of its file, from 0, and segments with  *)
(* p_va, p_offset, p_filesz and p_memsz.                                     *)

rounddown(n) == (n \div PAGESIZE) * PAGESIZE
roundup(n)   == rounddown(n + PAGESIZE - 1)

FileBytes(img, from, len) == [k \in 0 .. len - 1 |-> img.file[from + k]]

\* Where the bytes of the file end in memory, and the place in the file for va.
FileEnd(seg)       == seg.va + seg.filesz
FileOffset(seg, va) == rounddown(seg.off) + va - rounddown(seg.va)


\* A page that the file does not fill is cleared.
Cleared(m, id, seg, va) == IF va < rounddown(FileEnd(seg)) THEN m ELSE pt_memset(m, id, va, 0, PAGESIZE)

\* How many bytes of the file belong to the page at va.
InFile(seg, va) ==
  IF va < rounddown(FileEnd(seg)) THEN PAGESIZE
  ELSE IF va < FileEnd(seg) /\ seg.filesz # 0 THEN FileEnd(seg) - va ELSE 0

\* One round of the inner loop of elf_load, for the page at va of the segment.
LoadPage(m, id, img, seg, va) ==
  pt_copyout(Cleared(alloc_page(m, id, va)[1], id, seg, va), id, va, FileBytes(img, FileOffset(seg, va), InFile(seg, va)))

\* The addresses of the pages of a segment.
SegPages(seg) ==
  LET first == rounddown(seg.va) IN [k \in 1 .. (roundup(seg.va + seg.memsz) - first) \div PAGESIZE |-> first + (k - 1) * PAGESIZE]

elf_load(m, id, img) ==
  FoldLeft(LAMBDA s, seg : FoldLeft(LAMBDA t, va : LoadPage(t, id, img, seg, va), s, SegPages(seg)), m, img.segs)

\* proc_create with kctx_new and alloc_mem_quota; the result is the new process, or NUM_IDS.
Created(m, id, pid, img, quota) ==
  <<elf_load([m EXCEPT !.cont = container_split(@, id, quota), !.ids = [@ EXCEPT ![pid] = img]], pid, img), pid>>

proc_create(m, id, img, quota) ==
  IF ~container_can_consume(m.cont, id, quota) \/ NUM_IDS <= ChildId(m.cont, id) THEN <<m, NUM_IDS>>
  ELSE Created(m, id, ChildId(m.cont, id), img, quota)

sys_spawn(m, id, img, quota) ==
  IF SpawnRefused(m.cont, id, quota) THEN <<m, NUM_IDS>> ELSE proc_create(m, id, img, quota)

-----------------------------------------------------------------------------
NoImage == [file |-> << >>, segs |-> << >>]

\* The memory when the machine is switched on: static data are zero.
Off ==
  [norm |-> {}, alloc |-> {}, last |-> VM_USERLO_PI,
   cont |-> [id \in Id |-> [container_init(0)[id] EXCEPT !.used = FALSE]],
   pdir |-> [id \in Id |-> [k \in 0 .. PDES - 1 |-> 0]],
   ram |-> [pg \in Page |-> [k \in 0 .. PAGESIZE - 1 |-> Junk]],
   ids |-> [id \in Id |-> NoImage], panic |-> FALSE, owner |-> [pg \in Page |-> -1], starved |-> FALSE]

Init == MapInit /\ mem = Off

\* kern_main: pmem_init, container_init, and process 0 creates the process idle.
kern_main ==
  /\ mem = Off /\ e820 \in BootMaps
  /\ mem' = LET on == [Off EXCEPT !.norm = {pg \in Page : at_is_norm(pg)}, !.cont = container_init(real_quota)]
            IN  proc_create(on, 0, Idle.img, Idle.quota)[1]
  /\ UNCHANGED bootVars

Running(id) == id # 0 /\ mem.cont[id].used /\ ~mem.panic

Spawn(id, img, quota) ==
  /\ Running(id)
  /\ mem' = sys_spawn(mem, id, img, quota)[1]
  /\ UNCHANGED bootVars

\* A store by the process; if nothing is mapped there the page fault handler
\* comes first, and panics if there is no page.
Faulted(r) == IF r[2] = 0 THEN [r[1] EXCEPT !.panic = TRUE] ELSE r[1]

Fault(m, id, va) == IF get_ptbl_entry_by_va(m, id, va) # 0 THEN m ELSE Faulted(alloc_page(m, id, va))

StoreIn(m, id, va, v) ==
  IF m.panic THEN m
  ELSE [m EXCEPT !.ram = [@ EXCEPT ![get_ptbl_entry_by_va(m, id, va)] = [@ EXCEPT ![va % PAGESIZE] = v]]]

Store(id, va, v) ==
  /\ Running(id)
  /\ mem' = StoreIn(Fault(mem, id, va), id, va, v)
  /\ UNCHANGED bootVars

\* A system call that hands len bytes to the process (read, readline, fstat).
CopyOut(id, va, len, v) ==
  /\ Running(id) /\ va + len - 1 \in UserVA
  /\ mem' = pt_copyout(mem, id, va, [k \in 0 .. len - 1 |-> v])
  /\ UNCHANGED bootVars

\* A system call that takes len bytes from it (write, open, puts).
CopyIn(id, va, len) ==
  /\ Running(id) /\ va + len - 1 \in UserVA
  /\ mem' = pt_copyin(mem, id, va, len)
  /\ UNCHANGED bootVars

Next ==
  \/ mem = Off /\ NextEntry /\ UNCHANGED mem
  \/ kern_main
  \/ \E id \in Id :
       \/ \E img \in Images, quota \in Quotas : Spawn(id, img, quota)
       \/ \E va \in StoreAt, v \in Value : Store(id, va, v)
       \/ \E c \in CopyAt, v \in Value : CopyOut(id, c[1], c[2], v)
       \/ \E c \in CopyAt : CopyIn(id, c[1], c[2])

Spec == Init /\ [][Next]_vars

-----------------------------------------------------------------------------
\* What the process finds at an address; Unmapped when a fault would come first.
Unmapped == -1
Load(m, id, va) ==
  LET pg == get_ptbl_entry_by_va(m, id, va) IN IF pg = 0 THEN Unmapped ELSE m.ram[pg][va % PAGESIZE]

Tables(id)   == {mem.pdir[id][k] : k \in 0 .. PDES - 1} \ {0}
Mapped(id)   == {get_ptbl_entry_by_va(mem, id, va) : va \in UserVA} \ {0}
PageStart    == {va \in UserVA : va % PAGESIZE = 0}

\* A page has one use: it is one page table of one process or mapped at one
\* address of one process, and it is allocated and charged to that process.
PagesOwned ==
  /\ \A id \in Id : Tables(id) \cup Mapped(id) \subseteq {pg \in mem.alloc : mem.owner[pg] = id}
  /\ \A id \in Id : Tables(id) \cap Mapped(id) = {} /\ Cardinality(Tables(id)) = Cardinality({k \in 0 .. PDES - 1 : mem.pdir[id][k] # 0})
  /\ \A id \in Id : Cardinality(Mapped(id)) = Cardinality({va \in PageStart : get_ptbl_entry_by_va(mem, id, va) # 0})

\* The usage of a container is what its process has allocated and what it has
\* given to its children, so that no pages are charged twice or forgotten.
UsageCounted ==
  \A id \in Id :
    mem.cont[id].usage =
      Cardinality({pg \in Page : mem.owner[pg] = id})
        + FoldFunctionOnSet(LAMBDA c, n : c.quota + n, 0, mem.cont,
                            {k \in Id \ {0} : mem.cont[k].used /\ mem.cont[k].parent = id})

\* While the quota of a process allows it a page, palloc has one: the quota of
\* the root is the number of usable pages and is only ever divided.
QuotaBacked == ~mem.starved

\* Pages are lost (alloc_page forgets its page when there is none for the page
\* table) only where the process has used up its quota.
LostOnlyAtQuota ==
  \A id \in Id : {pg \in Page : mem.owner[pg] = id} # Tables(id) \cup Mapped(id)
                   => mem.cont[id].usage = mem.cont[id].quota

Tree == INSTANCE ContainerTree WITH cont <- mem.cont

\* No process uses more than its quota, here with the allocations that page
\* faults, system calls and elf_load make one after the other.
NoOverdraft == Tree!NoOverdraft

\* The processes form the tree that the indices of containers say, and no step
\* takes the container of a process away (container_split).
TreeLaidOut    == mem # Off => Tree!TreeLaidOut
ContainersKept == Tree!ContainersKept

\* The accounts are right in every order of spawns, faults and copies: usage is
\* what a process has and gave away, within its quota, and a page within the quota
\* is there and does not get lost.
QuotasKept == UsageCounted /\ NoOverdraft /\ QuotaBacked /\ LostOnlyAtQuota /\ TreeLaidOut

\* A process sees its own memory: no step changes what another process finds
\* at its addresses, and a step of its own only what it wrote or had copied.
Spaces == INSTANCE AddressSpaces WITH
  Proc <- Id, VA <- UserVA,
  Writes <- {[va \in {a} |-> v] : a \in StoreAt, v \in Value}
              \cup {[va \in c[1] .. c[1] + c[2] - 1 |-> v] : c \in CopyAt, v \in Value},
  space <- [id \in Id |-> [va \in UserVA |-> Load(mem, id, va)]]
SpacesPrivate == Spaces!Spec

\* What elf_load is to leave in memory, byte by byte.
ImageAt(m, id, seg, img) ==
  \A k \in 0 .. seg.memsz - 1 :
    Load(m, id, seg.va + k) = IF k < seg.filesz THEN img.file[seg.off + k] ELSE 0

\* Right after it was created a process has its image in memory, with the part
\* of every segment that is not in the file cleared (elf_load).
ImageLoaded ==
  [][\A id \in Id : ~mem.cont[id].used /\ mem'.cont[id].used =>
       \A s \in 1 .. Len(mem'.ids[id].segs) : ImageAt(mem', id, mem'.ids[id].segs[s], mem'.ids[id])]_mem

==============================================================================
