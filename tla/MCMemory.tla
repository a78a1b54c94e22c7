------------------------------ MODULE MCMemory ------------------------------
(* Instances of Memory for TLC.                                              *)
EXTENDS Memory

Seg(va, off, filesz, memsz) == [va |-> va, off |-> off, filesz |-> filesz, memsz |-> memsz]

\* A program of one page: a byte of text and a byte that is cleared.
Small == [file |-> (0 :> 1), segs |-> <<Seg(0, 0, 1, 2)>>]
SmallIdle == [img |-> Small, quota |-> 9]
SmallImages == {Small}
TwoBuffers == {<<3, 3>>}

\* Pages 1, 2 and 4 to 10 are usable; the map also has reserved bytes in page 3.
E820(base, length, type) == [base |-> base, length |-> length, type |-> type]
HoleMap == <<E820(8, 14, "RAM"), E820(2, 4, "RAM"), E820(7, 1, "RESERVED")>>
HoleMaps == {HoleMap}

\* Programs of one or two segments, at any place in file and memory and of any
\* size, with offset and address alike within a page; segments share no page.
SegsFrom(lo) == {Seg(va, off, filesz, memsz) : va \in lo .. lo + 2, off \in 0 .. 2, filesz \in 0 .. 3, memsz \in 1 .. 4}
GoodSeg(s) == s.off % PAGESIZE = s.va % PAGESIZE /\ s.filesz <= s.memsz /\ s.va + s.memsz <= 8
Bytes == [k \in 0 .. 9 |-> 3 + k]
ManyImages ==
  {[file |-> Bytes, segs |-> <<s>>] : s \in {s \in SegsFrom(0) : GoodSeg(s)}}
    \cup {[file |-> Bytes, segs |-> <<ss[1], ss[2]>>] :
            ss \in {ss \in (SegsFrom(0) \X SegsFrom(2)) :
                      /\ GoodSeg(ss[1]) /\ GoodSeg(ss[2]) /\ ss[1].va <= 1
                      /\ roundup(ss[1].va + ss[1].memsz) <= rounddown(ss[2].va)}}

\* The one process that runs one of these is spawned right after the start.
Loaded == \E id \in Id : mem.ids[id].file = Bytes

RunNext ==
  \/ ~Loaded /\ Next
  \/ /\ \A id \in Id \ {0, 1} : ~mem.cont[id].used
     /\ Cardinality(mem.alloc) = 2
     /\ ~Loaded /\ \E img \in ManyImages : Spawn(1, img, 7)

RunSpec == Init /\ [][RunNext]_vars
==============================================================================
