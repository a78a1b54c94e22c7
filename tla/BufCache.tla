------------------------------- MODULE BufCache -------------------------------
(***************************************************************************)
(* The buffer cache of bufcache.c on the request queue of ide.c.            *)
(*                                                                          *)
(* The operators map the value io of the two modules, and of the disk,      *)
(* before a critical section to its value after it.  Who sleeps and who is  *)
(* woken is left to the modules that use them: the channel is the buffer,   *)
(* both for the threads that want a busy buffer (bufcache_get) and for the  *)
(* one that waits for its request (ide_rw).                                 *)
(***************************************************************************)
EXTENDS Integers, Sequences, SequencesExt

CONSTANTS
  NBUF,      \* the number of buffers
  NoSector   \* b->dev = -1: the buffer holds no block

ASSUME BufCacheAssumption == NBUF \in Nat \ {0}

Buf == 1 .. NBUF

B_BUSY  == "B_BUSY"
B_VALID == "B_VALID"
B_DIRTY == "B_DIRTY"

IsBuf(b, Sector) ==
  b.sector \in Sector \cup {NoSector} /\ b.flags \subseteq {B_BUSY, B_VALID, B_DIRTY}

\* buf: the buffers; mru: the list from bcache.head, most recently used first;
\* idequeue: the requests, the head being the active one; served: the device
\* has carried the active request out and raises its interrupt.
bufcache_init(disk, zero) ==
  [buf      |-> [b \in Buf |-> [sector |-> NoSector, flags |-> {}, data |-> zero]],
   mru      |-> [k \in Buf |-> NBUF + 1 - k],
   idequeue |-> << >>,
   served   |-> FALSE,
   disk     |-> disk]

-----------------------------------------------------------------------------
(* bufcache.c                                                                *)

Flags(io, b) == io.buf[b].flags

\* The positions of the list at which the buffer satisfies P.
Where(io, P(_)) == {k \in 1 .. Len(io.mru) : P(io.mru[k])}

Cached(io, s) == {b \in Buf : io.buf[b].sector = s}

\* The buffer of sector s that the first loop of bufcache_get meets.
BufOf(io, s) ==
  LET hits == Where(io, LAMBDA b : io.buf[b].sector = s)
  IN  io.mru[CHOOSE k \in hits : \A j \in hits : k <= j]

\* Mutant: a buffer in use is recycled too.
Recyclable_Busy(io) == {b \in Buf : B_DIRTY \notin Flags(io, b)}

Recyclable(io) == {b \in Buf : Flags(io, b) \cap {B_BUSY, B_DIRTY} = {}}

\* The second loop runs from the least recently used end.
Victim(io) ==
  LET free == Where(io, LAMBDA b : b \in Recyclable(io))
  IN  io.mru[CHOOSE k \in free : \A j \in free : k >= j]

\* bufcache_get returns the cached buffer b.
TakeCached(io, b) == [io EXCEPT !.buf[b].flags = @ \cup {B_BUSY}]

\* bufcache_get recycles a buffer for sector s; the old data stays in it.
TakeVictim(io, s) ==
  [io EXCEPT !.buf[Victim(io)] = [@ EXCEPT !.sector = s, !.flags = {B_BUSY}]]

SetData(io, b, v) == [io EXCEPT !.buf[b].data = v]

SetDirty(io, b) == [io EXCEPT !.buf[b].flags = @ \cup {B_DIRTY}]

\* bufcache_release moves b to the front; it then wakes the channel b.
bufcache_release(io, b) ==
  [io EXCEPT !.buf[b].flags = @ \ {B_BUSY},
             !.mru = <<b>> \o SelectSeq(@, LAMBDA c : c # b)]

-----------------------------------------------------------------------------
(* ide.c                                                                     *)

\* The first two panics of ide_rw do not fire.  The third asks whether disk 1
\* is there, and ROOTDEV is disk 1.
CanStart(io, b) ==
  /\ B_BUSY \in Flags(io, b)
  /\ Flags(io, b) \cap {B_VALID, B_DIRTY} # {B_VALID}

\* ide_rw appends the request; ide_start runs when the queue was empty.
ide_rw(io, b) == [io EXCEPT !.idequeue = Append(@, b)]

\* The condition that ends the wait of ide_rw.
Finished(io, b) == Flags(io, b) \cap {B_VALID, B_DIRTY} = {B_VALID}

\* The device carries out the active request: a write reaches the medium.
Device(io) ==
  LET b == Head(io.idequeue) IN
  [io EXCEPT !.served = TRUE,
             !.disk   = IF B_DIRTY \in Flags(io, b)
                          THEN [@ EXCEPT ![io.buf[b].sector] = io.buf[b].data]
                          ELSE @]

\* The interrupt handler, on the first queued buffer, which it wakes; ok says
\* whether ide_wait(1) succeeds.  With an empty queue it only logs a message.
ide_intr(io, ok) ==
  LET b == Head(io.idequeue) IN
  [io EXCEPT !.idequeue = Tail(@),
             !.served   = FALSE,
             !.buf[b]   = [@ EXCEPT !.flags = (@ \cup {B_VALID}) \ {B_DIRTY},
                                    !.data  = IF B_DIRTY \notin io.buf[b].flags /\ ok
                                                THEN io.disk[io.buf[b].sector]
                                                ELSE @]]
=============================================================================
