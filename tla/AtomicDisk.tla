------------------------------ MODULE AtomicDisk ------------------------------
(***************************************************************************)
(* What a user of the log may rely on: the blocks of the disk, as they are  *)
(* found after a crash, change by one whole transaction at a time.          *)
(***************************************************************************)
EXTENDS Integers, Sequences, SequencesExt

CONSTANTS
  Trans,      \* the transactions: sequences of <<"put", block, value>>,
              \* <<"grow", inode>> and <<"trunc", inode>>
  BBLOCK,     \* the bitmap
  Bitmap(_)   \* the block that marks a set of blocks

VARIABLE store    \* store[s]: the durable value of block s

Marked(d) == ToSet(d[BBLOCK])

\* The first free block goes to inode f, which has none, or its block is freed.
Grow(d, f) ==
  LET free == DOMAIN d \ Marked(d)
      b    == CHOOSE x \in free : \A y \in free : x <= y
  IN  [d EXCEPT ![BBLOCK] = Bitmap(Marked(d) \cup {b}), ![b] = << >>, ![f] = <<b>>]

Trunc(d, f) == [d EXCEPT ![BBLOCK] = Bitmap(Marked(d) \ {d[f][1]}), ![f] = << >>]

Effect(d, o) ==
  CASE o[1] = "put"                          -> [d EXCEPT ![o[2]] = o[3]]
    [] o[1] = "grow"  /\ d[o[2]] = << >>     -> Grow(d, o[2])
    [] o[1] = "trunc" /\ d[o[2]] # << >>     -> Trunc(d, o[2])
    [] OTHER                                 -> d

\* store after the operations of transaction t, in order.
Apply(t) == FoldLeft(Effect, store, t)

Init == \A s \in DOMAIN store \ {BBLOCK} : store[s] = << >>

Commit == \E t \in Trans : store' = Apply(t)

Spec == Init /\ [][Commit]_store
=============================================================================
