---------------------------- MODULE BufferCache -----------------------------
(***************************************************************************)
(* The buffer cache (bio.c), the sleep locks of its buffers (sleeplock.c)  *)
(* and the disk driver with its queue and its interrupt (ide.c).  A step   *)
(* is what happens under one hold of bcache.lock, of a sleep lock's        *)
(* spinlock or of idelock.  A process has two buffers at most: the steps   *)
(* are those of its two hands, one hand at a time.                         *)
(***************************************************************************)
EXTENDS Integers, FiniteSets, Sequences

CONSTANTS Proc, NBUF, Block, Data, Initial, NoBlock,
          Kind,         \* of each block: what the file system keeps in it
          MaxPinned     \* bound: the blocks that the log has pinned

Buf == 1 .. NBUF
NoBuf == 0

(* A process and which of its buffers: the first, or one that it takes     *)
(* while it has the first.                                                 *)
Hand == Proc \X {1, 2}
Other(h) == <<h[1], 3 - h[2]>>
NoOne == <<"none", 0>>

(* Faulty variant of Within: the indirect block is also read by one that   *)
(* has the bitmap block, as if bfree cleared the entry that names a block. *)
WithinBack ==
  ({"indirect"} \X {"bitmap", "data", "super"}) \cup {<<"bitmap", "indirect">>}
    \cup ({"log"} \X {"inode", "indirect", "bitmap", "data"})

(* Which block is read while which one is held: bmap has the indirect      *)
(* block when balloc reads the bitmap and zeroes a block, itrunc has it    *)
(* when bfree reads the superblock and the bitmap; install_trans and       *)
(* write_log have a block of the log when they read its home.              *)
Within ==
  ({"indirect"} \X {"bitmap", "data", "super"})
    \cup ({"log"} \X {"inode", "indirect", "bitmap", "data"})

VARIABLES
  list,                                \* bcache.head: most recently used first
  blockno, flags, refcnt, owner, data, \* the buffers; owner: who has b->lock
  idequeue, command,                   \* the requests, and what the disk does
  disk,
  pc, buf,                             \* of each hand
  panicked

buffers == <<list, blockno, flags, refcnt, owner, data>>
vars == <<buffers, idequeue, command, disk, pc, buf, panicked>>

Goto(h, l) == pc' = [pc EXCEPT ![h] = l]
At(h, l) == ~ panicked /\ pc[h] = l
NoCommand == <<>>

(* The process of h does nothing with its other hand, and may begin.       *)
Ready(h) == pc[Other(h)] \in {"user", "have"}
Wants(h, k) ==
  \/ h[2] = 1 /\ pc[Other(h)] = "user"
  \/ h[2] = 2 /\ pc[Other(h)] = "have" /\ <<Kind[blockno[buf[Other(h)]]], Kind[k]>> \in Within

(* binit: each buffer goes to the head of the list.                        *)
Init ==
  /\ list = [i \in Buf |-> NBUF + 1 - i]
  /\ blockno = [b \in Buf |-> NoBlock] /\ flags = [b \in Buf |-> {}]
  /\ refcnt = [b \in Buf |-> 0] /\ owner = [b \in Buf |-> NoOne]
  /\ data = [b \in Buf |-> Initial]
  /\ idequeue = <<>> /\ command = NoCommand /\ disk = [k \in Block |-> Initial]
  /\ pc = [h \in Hand |-> "user"] /\ buf = [h \in Hand |-> NoBuf]
  /\ panicked = FALSE

Cached(k) == {b \in Buf : blockno[b] = k}
Queued == {idequeue[i] : i \in DOMAIN idequeue}
Unused == {i \in Buf : refcnt[list[i]] = 0 /\ "D" \notin flags[list[i]]}

(* The buffers that the log has and is not yet writing.                    *)
Pinned ==
  {b \in Buf : /\ "D" \in flags[b] /\ b \notin Queued
               /\ \A h \in Hand : pc[h] = "bwrite" => buf[h] # b}

Take(h, b) == buf' = [buf EXCEPT ![h] = b] /\ Goto(h, "lock")
-----------------------------------------------------------------------------
(* The ways of bget: another reference to a buffer, a buffer that takes up *)
(* another block, and panic("bget: no buffers").                           *)
Reference(h, b) ==
  /\ refcnt' = [refcnt EXCEPT ![b] = @ + 1] /\ Take(h, b)
  /\ UNCHANGED <<blockno, flags, panicked>>

Recycle(h, b, k) ==
  /\ blockno' = [blockno EXCEPT ![b] = k] /\ flags' = [flags EXCEPT ![b] = {}]
  /\ refcnt' = [refcnt EXCEPT ![b] = 1] /\ Take(h, b)
  /\ UNCHANGED panicked

NoBuffers == panicked' = TRUE /\ UNCHANGED <<blockno, flags, refcnt, pc, buf>>

(* Faulty variant of bget: a buffer that the log has pinned is recycled.   *)
bgetUnpins(h, k) ==
  /\ At(h, "user") /\ Wants(h, k)
  /\ LET idle == {i \in Buf : refcnt[list[i]] = 0}
     IN \/ \E b \in Cached(k) : Reference(h, b)
        \/ Cached(k) = {} /\ \E i \in idle : (\A j \in idle : j <= i) /\ Recycle(h, list[i], k)
        \/ Cached(k) = {} /\ idle = {} /\ NoBuffers
  /\ UNCHANGED <<list, owner, data, idequeue, command, disk>>

(* bget under bcache.lock: the buffer of the block, or else the least      *)
(* recently used one that is neither referenced nor pinned.                *)
bget(h, k) ==
  /\ At(h, "user") /\ Wants(h, k)
  /\ \/ \E b \in Cached(k) : Reference(h, b)
     \/ Cached(k) = {} /\ \E i \in Unused : (\A j \in Unused : j <= i) /\ Recycle(h, list[i], k)
     \/ Cached(k) = {} /\ Unused = {} /\ NoBuffers
  /\ UNCHANGED <<list, owner, data, idequeue, command, disk>>

(* acquiresleep: sleep while another process has the lock.                 *)
acquiresleep(h) ==
  /\ At(h, "lock")
  /\ IF owner[buf[h]] = NoOne
     THEN owner' = [owner EXCEPT ![buf[h]] = h] /\ Goto(h, "locked")
     ELSE Goto(h, "lock_asleep") /\ UNCHANGED owner
  /\ UNCHANGED <<list, blockno, flags, refcnt, data, idequeue, command, disk, buf, panicked>>
-----------------------------------------------------------------------------
(* What idestart tells the disk: data goes with a write.                   *)
idestart(q) ==
  command' = IF q = <<>> THEN NoCommand
             ELSE IF "D" \in flags[Head(q)]
             THEN <<"write", blockno[Head(q)], data[Head(q)]>>
             ELSE <<"read", blockno[Head(q)]>>

(* iderw, up to its sleep: the request goes to the end of the queue, and   *)
(* to the disk if there is no other.                                       *)
Enqueue(h) ==
  /\ idequeue' = Append(idequeue, buf[h])
  /\ IF idequeue = <<>> THEN idestart(idequeue') ELSE UNCHANGED command
  /\ Goto(h, "io_asleep")

(* The rest of bread: a buffer that is not valid is read.                  *)
bread(h) ==
  /\ At(h, "locked")
  /\ IF "V" \in flags[buf[h]] THEN Goto(h, "have") /\ UNCHANGED <<idequeue, command>>
     ELSE Enqueue(h)
  /\ UNCHANGED <<buffers, disk, buf, panicked>>

(* The holder changes the contents and has them pinned by log_write.       *)
log_write(h, d) ==
  /\ At(h, "have") /\ Ready(h) /\ ("D" \in flags[buf[h]] \/ Cardinality(Pinned) < MaxPinned)
  /\ data' = [data EXCEPT ![buf[h]] = d]
  /\ flags' = [flags EXCEPT ![buf[h]] = @ \cup {"D"}]
  /\ UNCHANGED <<list, blockno, refcnt, owner, idequeue, command, disk, pc, buf, panicked>>

(* bwrite, of a buffer that is pinned or not.  Its flags are set before    *)
(* idelock is taken.                                                       *)
bwrite(h) ==
  /\ At(h, "have") /\ Ready(h)
  /\ flags' = [flags EXCEPT ![buf[h]] = @ \cup {"D"}] /\ Goto(h, "bwrite")
  /\ UNCHANGED <<list, blockno, refcnt, owner, data, idequeue, command, disk, buf, panicked>>

iderw(h) ==
  /\ At(h, "bwrite") /\ Enqueue(h)
  /\ UNCHANGED <<buffers, disk, buf, panicked>>

(* The disk has done the command that it was given.                        *)
Served ==
  IF command[1] = "write" THEN disk' = [disk EXCEPT ![command[2]] = command[3]] /\ UNCHANGED data
  ELSE data' = [data EXCEPT ![Head(idequeue)] = disk[command[2]]] /\ UNCHANGED disk

(* Faulty variant of ideintr: the process is woken, and the next request   *)
(* is not started.                                                         *)
ideintrStops ==
  /\ ~ panicked /\ idequeue # <<>> /\ command # NoCommand
  /\ Served
  /\ flags' = [flags EXCEPT ![Head(idequeue)] = {"V"}]
  /\ idequeue' = Tail(idequeue) /\ command' = NoCommand
  /\ pc' = [h \in Hand |-> IF pc[h] = "io_asleep" /\ buf[h] = Head(idequeue) THEN "io" ELSE pc[h]]
  /\ UNCHANGED <<list, blockno, refcnt, owner, buf, panicked>>

ideintr ==
  /\ ~ panicked /\ idequeue # <<>> /\ command # NoCommand
  /\ Served
  /\ flags' = [flags EXCEPT ![Head(idequeue)] = {"V"}]
  /\ idequeue' = Tail(idequeue) /\ idestart(Tail(idequeue))
  /\ pc' = [h \in Hand |-> IF pc[h] = "io_asleep" /\ buf[h] = Head(idequeue) THEN "io" ELSE pc[h]]
  /\ UNCHANGED <<list, blockno, refcnt, owner, buf, panicked>>

(* The loop of iderw, after a wakeup.                                      *)
iderwWoken(h) ==
  /\ At(h, "io")
  /\ Goto(h, IF flags[buf[h]] = {"V"} THEN "have" ELSE "io_asleep")
  /\ UNCHANGED <<buffers, idequeue, command, disk, buf, panicked>>
-----------------------------------------------------------------------------
(* brelse: first the lock, then the reference.                             *)
releasesleep(h) ==
  /\ At(h, "have") /\ Ready(h)
  /\ owner' = [owner EXCEPT ![buf[h]] = NoOne]
  /\ pc' = [q \in Hand |-> IF q = h THEN "brelse"
              ELSE IF pc[q] = "lock_asleep" /\ buf[q] = buf[h] THEN "lock" ELSE pc[q]]
  /\ UNCHANGED <<list, blockno, flags, refcnt, data, idequeue, command, disk, buf, panicked>>

(* Faulty variant of brelse: the reference is dropped only when others     *)
(* are left.                                                               *)
brelseKeeps(h) ==
  /\ At(h, "brelse")
  /\ refcnt' = [refcnt EXCEPT ![buf[h]] = IF @ = 1 THEN 1 ELSE @ - 1] /\ UNCHANGED list
  /\ buf' = [buf EXCEPT ![h] = NoBuf] /\ Goto(h, "user")
  /\ UNCHANGED <<blockno, flags, owner, data, idequeue, command, disk, panicked>>

(* The list with the buffer at its i-th place at the front.                *)
ToFront(i) == [j \in Buf |-> IF j = 1 THEN list[i] ELSE IF j <= i THEN list[j - 1] ELSE list[j]]

brelse(h) ==
  /\ At(h, "brelse")
  /\ refcnt' = [refcnt EXCEPT ![buf[h]] = @ - 1]
  /\ \E i \in Buf : list[i] = buf[h] /\ list' = IF refcnt[buf[h]] = 1 THEN ToFront(i) ELSE list
  /\ buf' = [buf EXCEPT ![h] = NoBuf] /\ Goto(h, "user")
  /\ UNCHANGED <<blockno, flags, owner, data, idequeue, command, disk, panicked>>

(* kill makes a sleeper look at its condition again.                       *)
kill(h) ==
  /\ At(h, "lock_asleep") \/ At(h, "io_asleep")
  /\ Goto(h, IF pc[h] = "io_asleep" THEN "io" ELSE "lock")
  /\ UNCHANGED <<buffers, idequeue, command, disk, buf, panicked>>

Next ==
  \/ ideintr
  \/ \E h \in Hand :
       \/ acquiresleep(h) \/ bread(h) \/ bwrite(h) \/ iderw(h) \/ iderwWoken(h)
       \/ releasesleep(h) \/ brelse(h) \/ kill(h)
       \/ \E k \in Block : bget(h, k)
       \/ \E d \in Data : log_write(h, d)

Spec == Init /\ [][Next]_vars
-----------------------------------------------------------------------------
(* Whoever sleeps will be woken: for the lock of a buffer that another     *)
(* process has, or for a request that is in the queue, whose first one the *)
(* disk is working on.  The disk never has a command for another buffer.   *)
SleepersServed ==
  /\ \A h \in Hand : pc[h] = "lock_asleep" => owner[buf[h]] \notin {NoOne, h, Other(h)}
  /\ \A h \in Hand : pc[h] \in {"io", "io_asleep"}
                       => owner[buf[h]] = h /\ (buf[h] \in Queued \/ flags[buf[h]] = {"V"})
  /\ \A h \in Hand : pc[h] = "io_asleep" => buf[h] \in Queued
  /\ Cardinality(Queued) = Len(idequeue)
  /\ IF idequeue = <<>> THEN command = NoCommand
     ELSE command # NoCommand /\ command[2] = blockno[Head(idequeue)]

(* Of any processes, one waits for no buffer that one of them has: the     *)
(* pairs of buffers that the file system and the log hold close no ring of *)
(* processes that wait, with a buffer, for the next one's.                 *)
Has(p, b) == owner[b] \in {p} \X {1, 2}
WaitsFor(p) == {buf[h] : h \in {g \in {p} \X {1, 2} : pc[g] \in {"lock", "lock_asleep"}}}
NoRing ==
  \A D \in SUBSET Proc : D # {} => \E p \in D : \A b \in WaitsFor(p), q \in D : ~ Has(q, b)

(* There is always a buffer for a process that wants a block, as long as   *)
(* those pinned and two for each process leave one.                        *)
BuffersSuffice == MaxPinned + 2 * Cardinality(Proc) <= NBUF => ~ panicked

Holder(k) ==
  LET hs == {h \in Hand : pc[h] = "have" /\ blockno[buf[h]] = k}
  IN IF hs = {} THEN NoOne
     ELSE IF Cardinality(hs) = 1 THEN CHOOSE h \in hs : TRUE ELSE <<hs, 0>>
Content(k) ==
  LET bs == {b \in Cached(k) : "V" \in flags[b]}
  IN IF bs = {} THEN disk[k] ELSE data[CHOOSE b \in bs : TRUE]

S == INSTANCE BlockStore WITH
       Proc <- Hand, content <- [k \in Block |-> Content(k)], holder <- [k \in Block |-> Holder(k)]

(* Recycling, pinning, the queue and the interrupts cannot be seen: a      *)
(* process that has a block has it alone, and finds there what was last    *)
(* put into it, though the disk has not seen it yet.                       *)
ImplementsBlockStore == S!Spec
=============================================================================
