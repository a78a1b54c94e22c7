------------------------------ MODULE InodeData ------------------------------
(***************************************************************************)
(* How the bytes of files lie in blocks: bmap, inode_read, inode_write and  *)
(* inode_trunc of inode.c, block_alloc and block_free of block.c, the part  *)
(* of log_write that counts and refuses, and the image that mkfs.c writes.  *)
(*                                                                          *)
(* An operation runs under the lock of its inode and writes only inside a   *)
(* transaction, so it is one step here; FsLog and FsCalls interleave them.  *)
(* A routine is an operator from the file system before to the one after,   *)
(* where fs is the record of                                                *)
(*   blk    the data blocks, each BSIZE numbers (bytes or block addresses)  *)
(*   bits   the blocks marked in the bitmap                                 *)
(*   ino    size and addrs of the inodes in memory, dino the ones on disk   *)
(*   busy   whether a transaction is open, lh the sectors it has logged     *)
(*   panic  the KERN_PANIC that stopped the machine, or "none".             *)
(***************************************************************************)
EXTENDS Integers, Sequences, FiniteSets, FiniteSetsExt

CONSTANTS
  BSIZE, NDIRECT,
  NINODES, IPB,      \* sb.ninodes and the inodes of a block
  Size,              \* sb.size
  LOGSIZE,           \* entries of the log header; nlog is LOGSIZE too
  Width,             \* bits of uint32_t
  Image,             \* the lengths of the files given to mkfs
  Byte               \* what programs write

ASSUME InodeDataAssumption ==
  /\ {BSIZE, NDIRECT, NINODES, IPB, Size, LOGSIZE, Width} \subseteq Nat \ {0}
  /\ \A k \in DOMAIN Image : Image[k] \in Nat
  /\ Byte \subseteq Nat \ {0}

VARIABLE fs

NINDIRECT == BSIZE                      \* an address takes one number here
MAXFILE   == NDIRECT + NINDIRECT
ROOTINO   == 1
Inum      == 1 .. NINODES - 1
Uint      == 0 .. 2^Width - 1
Wrap(x)   == x % 2^Width

IBLOCK(i) == i \div IPB + 2
BBLOCK    == NINODES \div IPB + 3
FirstData == BBLOCK + 1                 \* bitblocks is 1
Sector    == 0 .. Size - 1
ZeroBlock == [k \in 0 .. BSIZE - 1 |-> 0]
NoInode   == [size |-> 0, addrs |-> [k \in 0 .. NDIRECT |-> 0]]

MinOf(a, b) == IF a < b THEN a ELSE b

-----------------------------------------------------------------------------
(* mkfs: m holds blk and ino of the image and freeblock, the next block.     *)

\* The block number of position fbn of inode i, 0 if there is none.
AddrOf(m, i, fbn) ==
  LET ind == m.ino[i].addrs[NDIRECT]
  IN  IF fbn < NDIRECT THEN m.ino[i].addrs[fbn]
      ELSE IF ind = 0 THEN 0 ELSE m.blk[ind][fbn - NDIRECT]

\* Pointer k of inode i set to the next block, if it has none yet.
Grow(m, i, k) ==
  IF m.ino[i].addrs[k] # 0 THEN m
  ELSE [m EXCEPT !.ino[i].addrs[k] = m.free, !.free = @ + 1]

GrowIndirect(m, i, k) ==
  LET ind == m.ino[i].addrs[NDIRECT]
  IN  IF m.blk[ind][k] # 0 THEN m ELSE [m EXCEPT !.blk[ind][k] = m.free, !.free = @ + 1]

RECURSIVE iappend(_, _, _)

iappend(m, i, p) ==
  IF p = << >> THEN m
  ELSE LET off == m.ino[i].size
           fbn == off \div BSIZE
           m1  == IF fbn < NDIRECT THEN Grow(m, i, fbn)
                  ELSE GrowIndirect(Grow(m, i, NDIRECT), i, fbn - NDIRECT)
           n1  == MinOf(Len(p), (fbn + 1) * BSIZE - off)
           x   == AddrOf(m1, i, fbn)
           at  == off - fbn * BSIZE
           m2  == [m1 EXCEPT !.blk[x] = [k \in DOMAIN @ |-> IF k \in at .. at + n1 - 1 THEN p[k - at + 1] ELSE @[k]],
                             !.ino[i].size = off + n1]
       IN  iappend(m2, i, SubSeq(p, n1 + 1, Len(p)))

RECURSIVE AddFiles(_, _)

\* File k of the image is inode k + 1: its entry in the root, then its bytes.
AddFiles(m, k) ==
  IF k > Len(Image) THEN m
  ELSE AddFiles(iappend(iappend(m, ROOTINO, <<k + 1>>), k + 1, [j \in 1 .. Image[k] |-> Min(Byte)]), k + 1)

\* An entry of a directory is one number, the inode; "." and ".." come first.
RootAndFiles ==
  AddFiles(iappend([blk |-> [b \in FirstData .. Size - 1 |-> ZeroBlock], ino |-> [i \in Inum |-> NoInode],
                    free |-> FirstData], ROOTINO, <<ROOTINO, ROOTINO>>), 1)

\* The size of the root directory is rounded up, and the blocks below
\* usedblocks are marked.
mkfs ==
  LET m   == RootAndFiles
      ino == [m.ino EXCEPT ![ROOTINO].size = (@ \div BSIZE + 1) * BSIZE]
  IN  [blk |-> m.blk, bits |-> 0 .. m.free - 1, ino |-> ino, dino |-> ino,
       busy |-> FALSE, lh |-> {}, panic |-> "none"]

-----------------------------------------------------------------------------
(* block.c and log_write.                                                    *)

Panic(f, why) == IF f.panic = "none" THEN [f EXCEPT !.panic = why] ELSE f

log_write(f, s) ==
  IF Cardinality(f.lh) >= LOGSIZE \/ Cardinality(f.lh) >= LOGSIZE - 1
  THEN Panic(f, "too big a transaction")
  ELSE IF ~f.busy THEN Panic(f, "write outside of trans")
  ELSE [f EXCEPT !.lh = @ \cup {s}]

\* The first free block, marked and cleared; <<fs, block>>.
block_alloc(f) ==
  LET free   == Sector \ f.bits
      b      == Min(free)
      marked == log_write([f EXCEPT !.bits = @ \cup {b}], BBLOCK)
  IN  IF free = {} THEN <<Panic(f, "balloc: out of blocks"), FirstData>>
      ELSE <<log_write([marked EXCEPT !.blk[b] = ZeroBlock], b), b>>

block_free(f, b) ==
  IF b \notin f.bits THEN Panic(f, "freeing free block")
  ELSE log_write([f EXCEPT !.bits = @ \ {b}], BBLOCK)

-----------------------------------------------------------------------------
(* inode.c.                                                                  *)

inode_update(f, i) == log_write([f EXCEPT !.dino[i] = f.ino[i]], IBLOCK(i))

\* The block of position bn of inode i, allocated if need be; <<fs, block>>.
bmap(f, i, bn) ==
  LET addrs == f.ino[i].addrs
      k     == bn - NDIRECT
      own   == IF addrs[NDIRECT] = 0 THEN block_alloc(f) ELSE <<f, addrs[NDIRECT]>>
      ind   == own[2]
      f1    == [own[1] EXCEPT !.ino[i].addrs[NDIRECT] = ind]
      new   == block_alloc(f1)
  IN  IF bn < NDIRECT
      THEN IF addrs[bn] # 0 THEN <<f, addrs[bn]>>
           ELSE LET d == block_alloc(f) IN <<[d[1] EXCEPT !.ino[i].addrs[bn] = d[2]], d[2]>>
      ELSE IF k >= NINDIRECT THEN <<Panic(f, "bmap: out of range"), FirstData>>
      ELSE IF f1.blk[ind][k] # 0 THEN <<f1, f1.blk[ind][k]>>
      ELSE <<log_write([new[1] EXCEPT !.blk[ind][k] = new[2]], ind), new[2]>>

\* Mutant: the block that holds the addresses is not freed.
inode_trunc_KeepsIndirect(f, i) ==
  LET addrs == f.ino[i].addrs
      mine  == {addrs[k] : k \in 0 .. NDIRECT - 1}
                 \cup (IF addrs[NDIRECT] = 0 THEN {} ELSE {f.blk[addrs[NDIRECT]][k] : k \in 0 .. NINDIRECT - 1})
      freed == FoldSet(LAMBDA b, g : block_free(g, b), f, mine \ {0})
  IN  inode_update([freed EXCEPT !.ino[i] = NoInode], i)

inode_trunc(f, i) ==
  LET addrs == f.ino[i].addrs
      ind   == addrs[NDIRECT]
      mine  == {addrs[k] : k \in 0 .. NDIRECT}
                 \cup (IF ind = 0 THEN {} ELSE {f.blk[ind][k] : k \in 0 .. NINDIRECT - 1})
      freed == FoldSet(LAMBDA b, g : block_free(g, b), f, mine \ {0})
  IN  inode_update([freed EXCEPT !.ino[i] = NoInode], i)

RECURSIVE ReadLoop(_, _, _, _, _)

\* The loop of inode_read: n more bytes from off on, got so far.
ReadLoop(f, i, off, n, got) ==
  IF n = 0 THEN <<f, got>>
  ELSE LET b  == bmap(f, i, off \div BSIZE)
           at == off % BSIZE
           m  == MinOf(n, BSIZE - at)
       IN  ReadLoop(b[1], i, off + m, n - m, got \o [k \in 1 .. m |-> f.blk[b[2]][at + k - 1]])

\* Mutant: a read at or after the end of the file is not cut there.
inode_read_Uncut(f, i, off, n) ==
  IF off > f.ino[i].size \/ Wrap(off + n) < off THEN [fs |-> f, ret |-> -1, got |-> << >>]
  ELSE LET r == ReadLoop(f, i, off, MinOf(n, MAXFILE * BSIZE - off), << >>) IN [fs |-> r[1], ret |-> n, got |-> r[2]]

inode_read(f, i, off, n) ==
  LET size == f.ino[i].size
      cut  == IF Wrap(off + n) > size THEN size - off ELSE n
      r    == ReadLoop(f, i, off, cut, << >>)
  IN  IF off > size \/ Wrap(off + n) < off THEN [fs |-> f, ret |-> -1, got |-> << >>]
      ELSE [fs |-> r[1], ret |-> cut, got |-> r[2]]

RECURSIVE WriteLoop_SameSource(_, _, _, _)

\* Mutant: the source does not advance with the offset.
WriteLoop_SameSource(f, i, off, src) ==
  IF src = << >> THEN f
  ELSE LET b  == bmap(f, i, off \div BSIZE)
           at == off % BSIZE
           m  == MinOf(Len(src), BSIZE - at)
           f1 == [b[1] EXCEPT !.blk[b[2]] = [k \in DOMAIN @ |-> IF k \in at .. at + m - 1 THEN src[k - at + 1] ELSE @[k]]]
       IN  WriteLoop_SameSource(log_write(f1, b[2]), i, off + m, SubSeq(src, 1, Len(src) - m))

RECURSIVE WriteLoop(_, _, _, _)

\* The loop of inode_write: the bytes of src from off on.
WriteLoop(f, i, off, src) ==
  IF src = << >> THEN f
  ELSE LET b  == bmap(f, i, off \div BSIZE)
           at == off % BSIZE
           m  == MinOf(Len(src), BSIZE - at)
           f1 == [b[1] EXCEPT !.blk[b[2]] = [k \in DOMAIN @ |-> IF k \in at .. at + m - 1 THEN src[k - at + 1] ELSE @[k]]]
       IN  WriteLoop(log_write(f1, b[2]), i, off + m, SubSeq(src, m + 1, Len(src)))

inode_write(f, i, off, src) ==
  LET n == Len(src)
      g == WriteLoop(f, i, off, src)
  IN  IF off > f.ino[i].size \/ Wrap(off + n) < off \/ Wrap(off + n) > MAXFILE * BSIZE THEN f
      ELSE IF n > 0 /\ off + n > f.ino[i].size
           THEN inode_update([g EXCEPT !.ino[i].size = off + n], i)
           ELSE g

-----------------------------------------------------------------------------
begin_trans(f)  == [f EXCEPT !.busy = TRUE]
commit_trans(f) == [f EXCEPT !.busy = FALSE, !.lh = {}]

\* The most that file_write writes in one transaction: room for the inode, the
\* block of addresses and two blocks of slop, and for the bitmap block by block.
MaxWrite == ((LOGSIZE - 1 - 1 - 2) \div 2) * BSIZE

\* What programs write: up to MaxWrite bytes, the first one any.
Request ==
  {[k \in 1 .. n |-> IF k = 1 THEN v ELSE Max(Byte)] : n \in 1 .. MaxWrite, v \in Byte}

Init == fs = mkfs

\* One round of the loop of file_write.
Write ==
  /\ fs.panic = "none"
  /\ \E i \in Inum \ {ROOTINO}, src \in Request : \E off \in 0 .. fs.ino[i].size :
       fs' = commit_trans(inode_write(begin_trans(fs), i, off, src))

\* The last inode_put of a file without links.
Free ==
  /\ fs.panic = "none"
  /\ \E i \in Inum \ {ROOTINO} : fs' = commit_trans(inode_trunc(begin_trans(fs), i))

Next == Write \/ Free

Spec == Init /\ [][Next]_fs

-----------------------------------------------------------------------------
\* The blocks the inodes on disk refer to, with the place of the reference.
Places == {<<i, k>> : i \in Inum, k \in 0 .. MAXFILE}

\* Place <<i, 0>> is the block of addresses of i, <<i, k>> its k-th data block.
BlockAt(pl) ==
  LET m == [ino |-> fs.dino, blk |-> fs.blk]
  IN  IF pl[2] = 0 THEN fs.dino[pl[1]].addrs[NDIRECT] ELSE AddrOf(m, pl[1], pl[2] - 1)

Used == {pl \in Places : BlockAt(pl) # 0}

\* No call stops the machine: a transaction of file_write or inode_put fits the
\* log (log.c), nothing is logged outside a transaction, no block is freed twice
\* (block.c) and no position is beyond the last one (inode.c).
NoPanic == fs.panic = "none"

\* Every marked block behind the metadata is referred to from exactly one place
\* of one inode on disk, and every block referred to is marked: no block is
\* shared by two files or lost when a file grows into its block of addresses,
\* or is freed (bmap, inode_trunc, block_alloc, block_free).
BlocksOwned ==
  /\ \A p, q \in Used : BlockAt(p) = BlockAt(q) => p = q
  /\ {BlockAt(p) : p \in Used} = fs.bits \ (0 .. FirstData - 1)
  /\ 0 .. FirstData - 1 \subseteq fs.bits

\* The inodes in memory and on disk agree between transactions: bmap only
\* changes the copy in memory, and inode_write calls inode_update afterwards.
InodesWritten == fs.dino = fs.ino

\* Between calls the disk is sound: no call has stopped the machine, blocks have
\* one owner each, and no address or size is in memory only.
DiskSound == NoPanic /\ BlocksOwned /\ InodesWritten

\* The bytes of file i.
Content(f, i) ==
  [k \in 1 .. f.ino[i].size |-> LET b == AddrOf(f, i, (k - 1) \div BSIZE)
                                IN  IF b = 0 THEN 0 ELSE f.blk[b][(k - 1) % BSIZE]]

\* inode_read delivers, for every offset and length of Width bits, the bytes of
\* the file from the offset to the end of the file or of the request, and
\* refuses an offset beyond the end or a sum that wraps; it allocates nothing.
ReadsContent ==
  \A i \in Inum, off \in Uint, n \in Uint :
    LET r    == inode_read(fs, i, off, n)
        size == fs.ino[i].size
    IN  IF off > size \/ off + n > 2^Width - 1 THEN r.ret = -1
        ELSE r.fs = fs /\ r.got = SubSeq(Content(fs, i), off + 1, MinOf(off + n, size)) /\ r.ret = Len(r.got)

\* Files behave as the sequences of bytes of ByteFiles: what a write does to
\* blocks, addresses and sizes is exactly an overwrite of one file.
Files == INSTANCE ByteFiles WITH content <- [i \in Inum |-> Content(fs, i)],
                                 First   <- [i \in Inum |-> Content(mkfs, i)]

FilesAreBytes == Files!Spec
==============================================================================
