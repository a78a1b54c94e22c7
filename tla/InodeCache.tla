----------------------------- MODULE InodeCache -----------------------------
(***************************************************************************)
(* The inode cache of inode.c and the directories of dir.c, as operators    *)
(* from the state before a critical section to the state after it.          *)
(*                                                                          *)
(* disk is what the inode and data blocks hold, seen through the buffer     *)
(* cache; ic is inode_cache.  The content of a directory is the list of its *)
(* dirents (inum 0: a free slot), that of a file a list of data units.      *)
(***************************************************************************)
EXTENDS Naturals, Sequences, FiniteSetsExt

CONSTANTS
  NINODE,   \* entries of inode_cache
  NDisk     \* sb.ninodes - 1: the inodes 1 .. NDisk of the disk

ASSUME InodeCacheAssumption == NINODE \in Nat \ {0} /\ NDisk \in Nat \ {0}

ROOTINO == 1
Inum    == 1 .. NDisk
Slot    == 1 .. NINODE
NULL    == 0

\* The type of an inode; a free one has type zero.
T_NONE == "free"
T_DIR  == "dir"
T_FILE == "file"

Dirent(name, inum) == [name |-> name, inum |-> inum]

FreeInode == [type |-> T_NONE, nlink |-> 0, ents |-> << >>, data |-> << >>]

\* The image that mkfs writes: a root directory, with one link by decree.
mkfs ==
  [i \in Inum |->
     IF i = ROOTINO
     THEN [FreeInode EXCEPT !.type = T_DIR, !.nlink = 1,
             !.ents = <<Dirent(".", ROOTINO), Dirent("..", ROOTINO)>>]
     ELSE FreeInode]

Empty == [inum |-> 0, ref |-> 0, busy |-> FALSE, valid |-> FALSE,
          type |-> T_NONE, nlink |-> 0]

inode_init == [k \in Slot |-> Empty]

-----------------------------------------------------------------------------
(* inode_get: the slot it returns, NULL where it panics, and the cache.      *)

Holds(ic, inum) == {k \in Slot : ic[k].ref > 0 /\ ic[k].inum = inum}
Unused(ic)      == {k \in Slot : ic[k].ref = 0}

SlotFor(ic, inum) ==
  IF Holds(ic, inum) # {} THEN Min(Holds(ic, inum))
  ELSE IF Unused(ic) # {} THEN Min(Unused(ic))
  ELSE NULL

inode_get(ic, inum) ==
  LET k == SlotFor(ic, inum)
  IN  IF Holds(ic, inum) # {}
      THEN [ic EXCEPT ![k].ref = @ + 1]
      ELSE [ic EXCEPT ![k] = [Empty EXCEPT !.inum = inum, !.ref = 1]]

inode_dup(ic, k) == [ic EXCEPT ![k].ref = @ + 1]

\* inode_lock, once the inode is not busy, and when its block has been read.
SetBusy(ic, k)     == [ic EXCEPT ![k].busy = TRUE]
Load(ic, k, dip)   ==
  [ic EXCEPT ![k].valid = TRUE, ![k].type = dip.type, ![k].nlink = dip.nlink]
inode_unlock(ic, k) == [ic EXCEPT ![k].busy = FALSE]

\* inode_put finds the last reference to an inode without links.
LastPut(ic, k) == ic[k].ref = 1 /\ ic[k].valid /\ ic[k].nlink = 0
PutRef(ic, k)  == [ic EXCEPT ![k].ref = @ - 1]
\* ... and what it leaves once the inode is free on disk.
Freed(ic, k)   ==
  [ic EXCEPT ![k].ref = @ - 1, ![k].busy = FALSE, ![k].valid = FALSE, ![k].type = T_NONE]

inode_update(disk, ip) ==
  [disk EXCEPT ![ip.inum].type = ip.type, ![ip.inum].nlink = ip.nlink]

inode_trunc(disk, ip) ==
  inode_update([disk EXCEPT ![ip.inum].ents = << >>, ![ip.inum].data = << >>], ip)

FreeInums(disk)         == {i \in Inum : disk[i].type = T_NONE}
inode_alloc(disk, type) == [disk EXCEPT ![Min(FreeInums(disk))] = [FreeInode EXCEPT !.type = type]]

-----------------------------------------------------------------------------
(* Directories.                                                              *)

\* The slots of directory inum that hold name, and the free ones.
Entries(disk, inum, name) ==
  {o \in DOMAIN disk[inum].ents :
     disk[inum].ents[o].inum # 0 /\ disk[inum].ents[o].name = name}
FreeSlots(disk, inum) == {o \in DOMAIN disk[inum].ents : disk[inum].ents[o].inum = 0}

\* Where dir_link puts an entry: the first free slot, or at the end.
dir_link(disk, inum, name, to) ==
  [disk EXCEPT ![inum].ents =
     IF FreeSlots(disk, inum) = {} THEN Append(@, Dirent(name, to))
     ELSE [@ EXCEPT ![Min(FreeSlots(disk, inum))] = Dirent(name, to)]]

\* What sys_unlink writes over the entry it found.
EraseDirent(disk, inum, o) == [disk EXCEPT ![inum].ents[o] = Dirent("", 0)]

\* Mutant: an off-by-one that leaves the third slot out.
isdirempty_SkipsThree(disk, inum) ==
  \A o \in DOMAIN disk[inum].ents : o > 3 => disk[inum].ents[o].inum = 0

isdirempty(disk, inum) ==
  \A o \in DOMAIN disk[inum].ents : o > 2 => disk[inum].ents[o].inum = 0
=============================================================================
