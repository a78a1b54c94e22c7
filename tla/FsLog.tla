-------------------------------- MODULE FsLog --------------------------------
(***************************************************************************)
(* The redo log of log.c and the block layer of block.c on the buffer cache *)
(* and the disk of BufCache, with crashes and recovery.                     *)
(*                                                                          *)
(* A thread inside the file system executes the list todo[p] of what it     *)
(* still has to do; a routine of the code is an operator that yields such a *)
(* list, and a call puts the list of the routine in front.  The kernel is   *)
(* not preempted: a thread keeps the CPU until it sleeps or returns to user *)
(* mode, where interrupts arrive.  thread_sleep and thread_wakeup are taken *)
(* at their contract, as in FileFlock.                                      *)
(***************************************************************************)
EXTENDS BufCache, FiniteSets, Folds

CONSTANTS
  Proc,      \* threads inside the file system
  Nobody,    \* no thread
  Boot,      \* the one that runs log_init after a (re)boot
  NData,     \* blocks in front of the log
  LOGSIZE,   \* entries of struct logheader
  NLog,      \* sb.nlog, the blocks of the log with its header
  Trans,     \* what transactions may do: sequences of <<"put", block, value>>,
             \* <<"grow", inode>> and <<"trunc", inode>>
  Meta,      \* the blocks mkfs marks: super block, bitmap and inodes
  Reads,     \* the blocks threads read outside transactions
  Faults     \* whether a disk read may fail

ASSUME FsLogAssumption ==
  /\ {1, 2} \subseteq Meta /\ Meta \subseteq 1 .. NData
  /\ Boot \in Proc /\ Reads \subseteq 1 .. NData
  /\ NData \in Nat \ {0, 1} /\ LOGSIZE \in Nat /\ NLog \in Nat \ {0}
  /\ Faults \in BOOLEAN

Start   == NData + 1               \* log.start, the header block
Home    == 1 .. NData
SB      == 1                       \* the super block
BBLOCK  == 2                       \* the one block of the free bitmap
Sector  == 1 .. NData + NLog
\* Channels: a buffer, the log, or none.
LogChan == NBUF + 1
Awake   == 0
Channel == Awake .. LogChan

VARIABLES
  io,       \* buffers, request queue and disk
  log,      \* log.busy and the sectors of log.lh, lh.n of them
  todo,     \* todo[p]: what thread p still has to do
  call,     \* call[p]: the transaction p was asked for
  cpu,      \* the thread that executes in the kernel, or Nobody
  asleep,   \* asleep[p]: the channel p sleeps on, or Awake
  up,       \* log_init has returned
  panic     \* the KERN_PANIC that stopped the machine, or "none"

vars == <<io, log, todo, call, cpu, asleep, up, panic>>

\* A block is the list of the numbers it holds: the sectors of a log header,
\* the marked blocks of a bitmap, the pointer of an inode, or data.
Zero      == << >>
Bitmap(S) == SelectSeq([s \in Sector |-> s], LAMBDA s : s \in S)

-----------------------------------------------------------------------------
(* The routines, as lists of steps.                                          *)

bufcache_read(s)  == << <<"get", s>>, <<"fill", s>> >>
bufcache_write(s) == << <<"write", s>>, <<"wait", s>> >>
release(s)        == << <<"release", s>> >>

Flatten(seqs) == FoldLeft(LAMBDA acc, q : acc \o q, << >>, seqs)

write_head ==
  bufcache_read(Start) \o << <<"head">> >> \o bufcache_write(Start) \o release(Start)

read_head == bufcache_read(Start) \o << <<"lh">> >> \o release(Start)

\* One round of the loop: log block k to its home location s.
InstallOne(k, s) ==
  bufcache_read(Start + k) \o bufcache_read(s) \o << <<"copy", Start + k, s>> >>
    \o bufcache_write(s) \o release(Start + k) \o release(s)

install_trans(lh) == Flatten([k \in DOMAIN lh |-> InstallOne(k, lh[k])])

\* Mutant: the header is erased before the blocks are installed.
Commit_EraseFirst(lh) == write_head \o << <<"clear">> >> \o write_head \o install_trans(lh)

Commit(lh) == write_head \o install_trans(lh) \o << <<"clear">> >> \o write_head

\* recover_from_log once the header has been read.
Recover(lh) == install_trans(lh) \o << <<"clear">> >> \o write_head

read_superblock == bufcache_read(SB) \o release(SB)

log_init == read_superblock \o read_head \o << <<"recover">>, <<"up">> >>

\* log_write, once it has chosen slot i for sector s.
LogAppend(i, s) ==
  bufcache_read(Start + i) \o << <<"copy", s, Start + i>> >>
    \o bufcache_write(Start + i) \o release(Start + i) \o << <<"logged", i, s>> >>

\* The typical use of log_write: read, modify, log, release.
Update(s, v) ==
  bufcache_read(s) \o << <<"set", s, v>>, <<"log_write", s>> >> \o release(s)

block_zero(s) == Update(s, Zero)

\* block_alloc for the inode whose one pointer is in block f, and block_free.
block_alloc(f)   == read_superblock \o bufcache_read(BBLOCK) \o << <<"scan", f>> >>
block_free(b, f) == read_superblock \o bufcache_read(BBLOCK) \o << <<"unmark", b, f>> >>

\* One operation of a transaction.  bmap and inode_trunc look at the inode first.
Operation(o) ==
  CASE o[1] = "put"   -> Update(o[2], o[3])
    [] o[1] = "grow"  -> bufcache_read(o[2]) \o << <<"bmap", o[2]>> >>
    [] o[1] = "trunc" -> bufcache_read(o[2]) \o << <<"inode_trunc", o[2]>> >>

Transaction(t) ==
  << <<"begin">> >> \o Flatten([k \in DOMAIN t |-> Operation(t[k])])
    \o << <<"commit">>, <<"end">> >>

-----------------------------------------------------------------------------
NoLog == [busy |-> FALSE, lh |-> << >>]

Booting == [p \in Proc |-> IF p = Boot THEN log_init ELSE << >>]

\* The image mkfs writes: blocks 0 to usedblocks are marked, the log is not.
mkfs == [s \in Sector |-> IF s = BBLOCK THEN Bitmap(Meta) ELSE Zero]

Init ==
  /\ io = bufcache_init(mkfs, Zero)
  /\ log = NoLog
  /\ todo = Booting
  /\ call = [p \in Proc |-> << >>]
  /\ cpu = Nobody
  /\ asleep = [p \in Proc |-> Awake]
  /\ up = FALSE
  /\ panic = "none"

At(p, op) ==
  /\ panic = "none" /\ cpu \in {p, Nobody} /\ asleep[p] = Awake
  /\ todo[p] # << >> /\ Head(todo[p])[1] = op

Arg(p, k) == Head(todo[p])[k + 1]

\* Thread p goes on with the steps of seq, then with the rest of its list.
Push(p, seq) == todo' = [todo EXCEPT ![p] = seq \o Tail(@)]
Pop(p)       == Push(p, << >>)

Sleep(p, c) == asleep' = [asleep EXCEPT ![p] = c]

Wakeup(c) == asleep' = [p \in Proc |-> IF asleep[p] = c THEN Awake ELSE asleep[p]]

-----------------------------------------------------------------------------
(* The buffer cache.                                                         *)

get(p) ==
  /\ At(p, "get")
  /\ LET s == Arg(p, 1) IN
     \/ /\ Cached(io, s) # {} /\ B_BUSY \notin Flags(io, BufOf(io, s))
        /\ io' = TakeCached(io, BufOf(io, s))
        /\ Pop(p) /\ UNCHANGED <<asleep, panic>>
     \/ /\ Cached(io, s) # {} /\ B_BUSY \in Flags(io, BufOf(io, s))
        /\ Sleep(p, BufOf(io, s))
        /\ UNCHANGED <<io, todo, panic>>
     \/ /\ Cached(io, s) = {}
        /\ IF Recyclable(io) # {}
             THEN io' = TakeVictim(io, s) /\ Pop(p) /\ UNCHANGED panic
             ELSE panic' = "no buffers" /\ UNCHANGED <<io, todo>>
        /\ UNCHANGED asleep
  /\ UNCHANGED <<log, call, up>>

\* ide_rw on b: the request is queued and the thread waits for it.
Request(p, b, base) ==
  IF CanStart(base, b)
    THEN /\ io' = ide_rw(base, b)
         /\ Sleep(p, b)
         /\ UNCHANGED panic
    ELSE panic' = "ide_rw" /\ UNCHANGED <<io, asleep>>

\* bufcache_read reads the block unless the buffer is valid.
fill(p) ==
  /\ At(p, "fill")
  /\ LET b == BufOf(io, Arg(p, 1)) IN
     IF B_VALID \in Flags(io, b)
       THEN Pop(p) /\ UNCHANGED <<io, asleep, panic>>
       ELSE Push(p, << <<"wait", Arg(p, 1)>> >>) /\ Request(p, b, io)
  /\ UNCHANGED <<log, call, up>>

write(p) ==
  /\ At(p, "write")
  /\ LET b == BufOf(io, Arg(p, 1)) IN Pop(p) /\ Request(p, b, SetDirty(io, b))
  /\ UNCHANGED <<log, call, up>>

\* Back in the loop of ide_rw.
wait(p) ==
  /\ At(p, "wait")
  /\ LET b == BufOf(io, Arg(p, 1)) IN
     IF Finished(io, b) THEN Pop(p) /\ UNCHANGED asleep
                        ELSE Sleep(p, b) /\ UNCHANGED todo
  /\ UNCHANGED <<io, log, call, up, panic>>

release_buf(p) ==
  /\ At(p, "release")
  /\ LET b == BufOf(io, Arg(p, 1)) IN
     io' = bufcache_release(io, b) /\ Wakeup(b)
  /\ Pop(p)
  /\ UNCHANGED <<log, call, up, panic>>

\* A thread changes the data of a buffer it holds.
modify(p) ==
  /\ \/ /\ At(p, "set")
        /\ io' = SetData(io, BufOf(io, Arg(p, 1)), Arg(p, 2))
     \/ /\ At(p, "copy")
        /\ io' = SetData(io, BufOf(io, Arg(p, 2)), io.buf[BufOf(io, Arg(p, 1))].data)
     \/ /\ At(p, "head")
        /\ io' = SetData(io, BufOf(io, Start), log.lh)
  /\ Pop(p)
  /\ UNCHANGED <<log, call, asleep, up, panic>>

\* The device serves the active request; later the interrupt arrives.
Disk ==
  /\ io.idequeue # << >> /\ ~ io.served /\ panic = "none"
  /\ io' = Device(io)
  /\ UNCHANGED <<log, todo, call, cpu, asleep, up, panic>>

Interrupt ==
  /\ cpu = Nobody
  /\ io.idequeue # << >> /\ io.served /\ panic = "none"
  /\ \E ok \in {TRUE, ~ Faults} : io' = ide_intr(io, ok)
  /\ Wakeup(Head(io.idequeue))
  /\ UNCHANGED <<log, todo, call, cpu, up, panic>>

-----------------------------------------------------------------------------
(* The log.                                                                  *)

begin_trans(p) ==
  /\ At(p, "begin")
  /\ \/ log.busy /\ Sleep(p, LogChan) /\ UNCHANGED <<log, todo>>
     \/ ~ log.busy /\ log' = [log EXCEPT !.busy = TRUE] /\ Pop(p) /\ UNCHANGED asleep
  /\ UNCHANGED <<io, call, up, panic>>

\* The slot of sector s: an old one if it has been logged before.
Slot(s) ==
  IF s \in ToSet(log.lh) THEN CHOOSE k \in DOMAIN log.lh : log.lh[k] = s
                         ELSE Len(log.lh) + 1

TooBig == Len(log.lh) >= LOGSIZE \/ Len(log.lh) >= NLog - 1

\* Mutant: a block that is in the log already is not written to it again.
log_write_Skips(p) ==
  /\ At(p, "log_write")
  /\ Push(p, IF Arg(p, 1) \in ToSet(log.lh) THEN << >>
             ELSE LogAppend(Slot(Arg(p, 1)), Arg(p, 1)))
  /\ UNCHANGED <<io, log, call, asleep, up, panic>>

log_write(p) ==
  /\ At(p, "log_write")
  /\ IF TooBig \/ ~ log.busy
       THEN panic' = "log_write" /\ UNCHANGED todo
       ELSE Push(p, LogAppend(Slot(Arg(p, 1)), Arg(p, 1))) /\ UNCHANGED panic
  /\ UNCHANGED <<io, log, call, asleep, up>>

\* log_write ends: the slot counts and the buffer is pinned.
logged(p) ==
  /\ At(p, "logged")
  /\ log' = [log EXCEPT !.lh = IF Arg(p, 1) > Len(@) THEN Append(@, Arg(p, 2)) ELSE @]
  /\ io' = SetDirty(io, BufOf(io, Arg(p, 2)))
  /\ Pop(p)
  /\ UNCHANGED <<call, asleep, up, panic>>

commit_trans(p) ==
  /\ At(p, "commit")
  /\ Push(p, IF log.lh # << >> THEN Commit(log.lh) ELSE << >>)
  /\ UNCHANGED <<io, log, call, asleep, up, panic>>

clear(p) ==
  /\ At(p, "clear")
  /\ log' = [log EXCEPT !.lh = << >>]
  /\ Pop(p)
  /\ UNCHANGED <<io, call, asleep, up, panic>>

\* Mutant: the threads that wait for the log are not woken.
end_trans_NoWakeup(p) ==
  /\ At(p, "end")
  /\ log' = [log EXCEPT !.busy = FALSE]
  /\ call' = [call EXCEPT ![p] = << >>]
  /\ Pop(p)
  /\ UNCHANGED <<io, asleep, up, panic>>

end_trans(p) ==
  /\ At(p, "end")
  /\ log' = [log EXCEPT !.busy = FALSE]
  /\ Wakeup(LogChan)
  /\ call' = [call EXCEPT ![p] = << >>]
  /\ Pop(p)
  /\ UNCHANGED <<io, up, panic>>

recover(p) ==
  /\ \/ /\ At(p, "lh")
        /\ log' = [log EXCEPT !.lh = io.buf[BufOf(io, Start)].data]
        /\ Pop(p) /\ UNCHANGED up
     \/ At(p, "recover") /\ Push(p, Recover(log.lh)) /\ UNCHANGED <<log, up>>
     \/ At(p, "up") /\ up' = TRUE /\ Pop(p) /\ UNCHANGED log
  /\ UNCHANGED <<io, call, asleep, panic>>

-----------------------------------------------------------------------------
(* Block allocation.                                                         *)

Data(s) == io.buf[BufOf(io, s)].data

FreeBits == Sector \ ToSet(Data(BBLOCK))

\* The loops of block_alloc run over all sb.size bits of the bitmap.
scan(p) ==
  /\ At(p, "scan")
  /\ IF FreeBits = {}
       THEN panic' = "out of blocks" /\ UNCHANGED <<io, todo>>
       ELSE LET b == CHOOSE x \in FreeBits : \A y \in FreeBits : x <= y IN
            /\ io' = SetData(io, BufOf(io, BBLOCK), Bitmap(ToSet(Data(BBLOCK)) \cup {b}))
            /\ Push(p, << <<"log_write", BBLOCK>> >> \o release(BBLOCK)
                         \o block_zero(b) \o Update(Arg(p, 1), <<b>>))
            /\ UNCHANGED panic
  /\ UNCHANGED <<log, call, asleep, up>>

unmark(p) ==
  /\ At(p, "unmark")
  /\ IF Arg(p, 1) \notin ToSet(Data(BBLOCK))
       THEN panic' = "freeing free block" /\ UNCHANGED <<io, todo>>
       ELSE /\ io' = SetData(io, BufOf(io, BBLOCK), Bitmap(ToSet(Data(BBLOCK)) \ {Arg(p, 1)}))
            /\ Push(p, << <<"log_write", BBLOCK>> >> \o release(BBLOCK)
                         \o Update(Arg(p, 2), Zero))
            /\ UNCHANGED panic
  /\ UNCHANGED <<log, call, asleep, up>>

\* The pointer is allocated if it is zero, or freed if it is not; the buffer of
\* the inode is released first, and inode_update writes the inode at the end.
inode_block(p) ==
  /\ At(p, "bmap") \/ At(p, "inode_trunc")
  /\ LET f == Arg(p, 1) IN
     \/ /\ At(p, "bmap")
        /\ Push(p, release(f) \o IF Data(f) = Zero THEN block_alloc(f) ELSE << >>)
     \/ /\ At(p, "inode_trunc")
        /\ Push(p, release(f) \o IF Data(f) # Zero THEN block_free(Data(f)[1], f) ELSE << >>)
  /\ UNCHANGED <<io, log, call, asleep, up, panic>>

-----------------------------------------------------------------------------
(* What threads ask for, and crashes.                                        *)

Update_call(p) ==
  /\ up /\ cpu = Nobody /\ todo[p] = << >> /\ panic = "none"
  /\ \E t \in Trans : /\ todo' = [todo EXCEPT ![p] = Transaction(t)]
                      /\ call' = [call EXCEPT ![p] = t]
  /\ UNCHANGED <<io, log, cpu, asleep, up, panic>>

Read_call(p) ==
  /\ up /\ cpu = Nobody /\ todo[p] = << >> /\ panic = "none"
  /\ \E s \in Reads : todo' = [todo EXCEPT ![p] = bufcache_read(s) \o release(s)]
  /\ call' = [call EXCEPT ![p] = << >>]
  /\ UNCHANGED <<io, log, cpu, asleep, up, panic>>

\* Power fails: only the disk survives.  The first process to run boots again.
Crash ==
  /\ io' = bufcache_init(io.disk, Zero)
  /\ log' = NoLog
  /\ todo' = Booting
  /\ call' = [p \in Proc |-> << >>]
  /\ cpu' = Nobody
  /\ asleep' = [p \in Proc |-> Awake]
  /\ up' = FALSE
  /\ UNCHANGED panic

KernelStep(p) ==
  \/ get(p) \/ fill(p) \/ write(p) \/ wait(p) \/ release_buf(p) \/ modify(p)
  \/ begin_trans(p) \/ log_write(p) \/ logged(p) \/ commit_trans(p) \/ clear(p)
  \/ end_trans(p) \/ recover(p) \/ scan(p) \/ unmark(p) \/ inode_block(p)

\* One step of the thread on the CPU, which it gives up when it sleeps.
Step(p) ==
  /\ KernelStep(p)
  /\ cpu' = IF asleep'[p] # Awake \/ todo'[p] = << >> THEN Nobody ELSE p

Running == \/ \E p \in Proc : Step(p) \/ Update_call(p) \/ Read_call(p)
           \/ Disk \/ Interrupt

Next == Running \/ (panic = "none" /\ Crash)

Spec == Init /\ [][Next]_vars

-----------------------------------------------------------------------------
\* What recovery would make of the disk as it is now.
Recovered ==
  LET lh == io.disk[Start] IN
  [s \in Home |->
     IF s \in ToSet(lh)
       THEN io.disk[Start + (CHOOSE k \in DOMAIN lh :
                               lh[k] = s /\ \A j \in DOMAIN lh : lh[j] = s => j <= k)]
       ELSE io.disk[s]]

TypeOK ==
  /\ DOMAIN io.disk = Sector /\ DOMAIN io.buf = Buf
  /\ \A b \in Buf : IsBuf(io.buf[b], Sector)
  /\ log.busy \in BOOLEAN /\ log.lh \in Seq(Home)
  /\ asleep \in [Proc -> Channel]
  /\ up \in BOOLEAN

(***************************************************************************)
(* "Do not use the buffer after calling brelse.  Only one process at a time *)
(* can use a buffer": the list of the cache always holds every buffer once, *)
(* no sector has two buffers, and a buffer somebody will release is busy,   *)
(* through sleeps in bufcache_get, recycling and interrupts.                *)
(***************************************************************************)
Holding(p, s) == \E k \in DOMAIN todo[p] :
  /\ todo[p][k] = <<"release", s>>
  /\ \A j \in 1 .. k : todo[p][j] # <<"get", s>>

BuffersExclusive ==
  /\ ToSet(io.mru) = Buf /\ Len(io.mru) = NBUF
  /\ \A b, c \in Buf : io.buf[b].sector = io.buf[c].sector /\ b # c
       => io.buf[b].sector = NoSector
  /\ \A p \in Proc, s \in Sector : Holding(p, s) =>
       /\ Cached(io, s) # {} /\ B_BUSY \in Flags(io, BufOf(io, s))
       /\ \A q \in Proc \ {p} : ~ Holding(q, s)

(***************************************************************************)
(* A buffer nobody is using that is valid and clean holds what is on the    *)
(* disk ("B_VALID: the buffer data has been read from the disk"), so that   *)
(* bufcache_read may return it without a request.                           *)
(***************************************************************************)
CleanIsOnDisk ==
  \A b \in Buf : io.buf[b].flags = {B_VALID} => io.buf[b].data = io.disk[io.buf[b].sector]

(***************************************************************************)
(* The buffer cache is sound: a buffer has one user and a sector one        *)
(* buffer, and what bufcache_read returns without a request is on the disk. *)
(***************************************************************************)
BuffersSound == TypeOK /\ BuffersExclusive /\ CleanIsOnDisk

(***************************************************************************)
(* The machine goes on: no KERN_PANIC of log.c, bufcache.c, ide.c and       *)
(* block.c is reached, and a thread that sleeps has somebody to wake it: the *)
(* buffer it waits for is busy or queued, the transaction in progress.      *)
(***************************************************************************)
SleepersWillBeWoken ==
  /\ panic = "none"
  /\ \A p \in Proc :
       /\ asleep[p] = LogChan => log.busy
       /\ asleep[p] \in Buf =>
            IF Head(todo[p])[1] = "wait" THEN asleep[p] \in ToSet(io.idequeue)
                                         ELSE B_BUSY \in Flags(io, asleep[p])

(***************************************************************************)
(* commit_trans returns only when the transaction is durable: what recovery *)
(* would find on the disk has the last value the caller logged for each     *)
(* block.                                                                   *)
(***************************************************************************)
LastPut(t, s) ==
  LET at == {k \in DOMAIN t : t[k][1] = "put" /\ t[k][2] = s}
  IN  t[CHOOSE k \in at : \A j \in at : k >= j][3]

DurableOnReturn ==
  [][\A p \in Proc : At(p, "end") /\ todo'[p] = << >> /\ up' =>
       \A k \in DOMAIN call[p] : call[p][k][1] = "put" =>
         Recovered[call[p][k][2]] = LastPut(call[p], call[p][k][2])]_vars

(***************************************************************************)
(* What log.c promises: seen through recovery, the disk changes only by     *)
(* whole transactions, whatever crash comes between the header write, the   *)
(* installs and the erasure of the header (AtomicDisk).                     *)
(***************************************************************************)
Atomic == INSTANCE AtomicDisk WITH store <- Recovered

KeepsAtomicity == Atomic!Spec
=============================================================================
