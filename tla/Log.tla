-------------------------------- MODULE Log ---------------------------------
(***************************************************************************)
(* The redo log of the file system (log.c): system calls grouped into one  *)
(* transaction by begin_op and end_op, their writes recorded by log_write, *)
(* the commit by the last of them, crashes, and the recovery that initlog  *)
(* runs at the next boot.  The buffer cache is here as what the log relies *)
(* on: a block's buffer may be recycled unless it is dirty or in use.      *)
(*                                                                         *)
(* A disk write is one sector (BSIZE = 512) and so atomic; a step below    *)
(* ends where the code sleeps in iderw or releases log.lock.               *)
(***************************************************************************)
EXTENDS Integers, Sequences, FiniteSets

CONSTANTS
  Proc,           \* processes that make file system calls
  Block, Data,    \* home blocks and what they can hold
  Initial,        \* what mkfs put in every block
  NoBlock, NoData,
  MAXOPBLOCKS, LOGSIZE,
  nlog,           \* sb.nlog, the blocks of the on-disk log, header included
  OpBlocks,       \* distinct blocks that one system call really writes
  MaxCalls,       \* bound: system calls made in a behaviour
  MaxCrashes      \* bound: crashes in a behaviour

ASSUME LogAssumption ==
  /\ MAXOPBLOCKS \in Nat \ {0} /\ LOGSIZE \in Nat /\ nlog \in 1 .. LOGSIZE
  /\ OpBlocks \in 0 .. MAXOPBLOCKS
  /\ Initial \in Data /\ NoData \notin Data /\ NoBlock \notin Block
  /\ MaxCalls \in Nat /\ MaxCrashes \in Nat

VARIABLES
  mode,         \* "up", "recover" or "panic"
  pc,           \* where each process is
  buf,          \* the block a process has locked and modified
  wrote,        \* history: blocks logged by the system call of a process
  outstanding, committing, lh,      \* struct log; lh is block[0 .. n-1]
  step, tail,   \* commit or recover_from_log: what is next, blocks done
  cache, dirty, \* buffers: contents (NoData: not cached); B_DIRTY
  head, logblock, home,             \* the disk
  calls, crashes

procs   == <<pc, buf, wrote>>
logvars == <<outstanding, committing, lh>>
buffers == <<cache, dirty>>
disk    == <<head, logblock, home>>
bounds  == <<calls, crashes>>
vars    == <<mode, procs, logvars, step, tail, buffers, disk, bounds>>

(* The data bread returns.                                                 *)
bread(b) == IF cache[b] = NoData THEN home[b] ELSE cache[b]

Logged(log) == {log[i] : i \in DOMAIN log}
Locked(b) == \E p \in Proc : buf[p] = b
-----------------------------------------------------------------------------
Init ==
  /\ mode = "up"
  /\ pc = [p \in Proc |-> "user"]
  /\ buf = [p \in Proc |-> NoBlock] /\ wrote = [p \in Proc |-> {}]
  /\ outstanding = 0 /\ committing = FALSE /\ lh = <<>>
  /\ step = "none" /\ tail = 0
  /\ cache = [b \in Block |-> NoData] /\ dirty = {}
  /\ head = <<>> /\ logblock = [i \in 1 .. LOGSIZE |-> Initial]
  /\ home = [b \in Block |-> Initial]
  /\ calls = 0 /\ crashes = 0

panic ==
  /\ mode' = "panic"
  /\ UNCHANGED <<procs, logvars, step, tail, buffers, disk, bounds>>

(* wakeup(&log), and process p goes to label.                              *)
WakeupAnd(p, label) ==
  pc' = [q \in Proc |-> IF q = p THEN label
                        ELSE IF pc[q] = "sleep" THEN "begin_op" ELSE pc[q]]

(* A process makes a file system call.                                     *)
Call(p) ==
  /\ mode = "up" /\ pc[p] = "user" /\ calls < MaxCalls
  /\ pc' = [pc EXCEPT ![p] = "begin_op"] /\ calls' = calls + 1
  /\ UNCHANGED <<mode, buf, wrote, logvars, step, tail, buffers, disk, crashes>>

(* Faulty variant of begin_op: the caller's own blocks are not reserved.   *)
begin_opNoReserve(p) ==
  /\ mode = "up" /\ pc[p] = "begin_op"
  /\ IF committing \/ Len(lh) + outstanding * MAXOPBLOCKS > LOGSIZE
     THEN pc' = [pc EXCEPT ![p] = "sleep"] /\ UNCHANGED <<outstanding, wrote>>
     ELSE /\ outstanding' = outstanding + 1
          /\ pc' = [pc EXCEPT ![p] = "call"] /\ wrote' = [wrote EXCEPT ![p] = {}]
  /\ UNCHANGED <<mode, buf, committing, lh, step, tail, buffers, disk, bounds>>

(* One round of the loop of begin_op.                                      *)
begin_op(p) ==
  /\ mode = "up" /\ pc[p] = "begin_op"
  /\ IF committing \/ Len(lh) + (outstanding + 1) * MAXOPBLOCKS > LOGSIZE
     THEN pc' = [pc EXCEPT ![p] = "sleep"] /\ UNCHANGED <<outstanding, wrote>>
     ELSE /\ outstanding' = outstanding + 1
          /\ pc' = [pc EXCEPT ![p] = "call"] /\ wrote' = [wrote EXCEPT ![p] = {}]
  /\ UNCHANGED <<mode, buf, committing, lh, step, tail, buffers, disk, bounds>>

(* The call reads block b, changes it to d and enters log_write, which     *)
(* looks at lh.n and outstanding before it takes log.lock.                 *)
Modify(p, b, d) ==
  /\ mode = "up" /\ pc[p] = "call"
  /\ ~ Locked(b) /\ Cardinality(wrote[p] \cup {b}) <= OpBlocks
  /\ IF Len(lh) >= LOGSIZE \/ Len(lh) >= nlog - 1 \/ outstanding < 1
     THEN panic
     ELSE /\ pc' = [pc EXCEPT ![p] = "log_write"]
          /\ buf' = [buf EXCEPT ![p] = b]
          /\ cache' = [cache EXCEPT ![b] = d]
          /\ UNCHANGED <<mode, wrote, logvars, step, tail, dirty, disk, bounds>>

log_write(p) ==
  /\ mode = "up" /\ pc[p] = "log_write"
  /\ lh' = IF buf[p] \in Logged(lh) THEN lh ELSE Append(lh, buf[p])
  /\ dirty' = dirty \cup {buf[p]}
  /\ wrote' = [wrote EXCEPT ![p] = @ \cup {buf[p]}]
  /\ buf' = [buf EXCEPT ![p] = NoBlock]
  /\ pc' = [pc EXCEPT ![p] = "call"]
  /\ UNCHANGED <<mode, outstanding, committing, step, tail, cache, disk, bounds>>

(* bget recycles the buffer of a block for another.                        *)
Recycle(b) ==
  /\ mode = "up" /\ cache[b] # NoData /\ b \notin dirty /\ ~ Locked(b)
  /\ cache' = [cache EXCEPT ![b] = NoData]
  /\ UNCHANGED <<mode, procs, logvars, step, tail, dirty, disk, bounds>>

(* Faulty variant of end_op: a transaction of one block is not committed.  *)
end_opOffByOne(p) ==
  /\ mode = "up" /\ pc[p] = "call"
  /\ IF committing THEN panic
     ELSE /\ outstanding' = outstanding - 1
          /\ IF outstanding = 1
             THEN /\ committing' = TRUE
                  /\ pc' = [pc EXCEPT ![p] = "commit"]
                  /\ step' = IF Len(lh) > 1 THEN "write_log" ELSE "done"
             ELSE WakeupAnd(p, "user") /\ UNCHANGED <<committing, step>>
          /\ tail' = 0
          /\ UNCHANGED <<mode, buf, wrote, lh, buffers, disk, bounds>>

end_op(p) ==
  /\ mode = "up" /\ pc[p] = "call"
  /\ IF committing THEN panic
     ELSE /\ outstanding' = outstanding - 1
          /\ IF outstanding = 1
             THEN /\ committing' = TRUE
                  /\ pc' = [pc EXCEPT ![p] = "commit"]
                  /\ step' = IF Len(lh) > 0 THEN "write_log" ELSE "done"
             ELSE WakeupAnd(p, "user") /\ UNCHANGED <<committing, step>>
          /\ tail' = 0
          /\ UNCHANGED <<mode, buf, wrote, lh, buffers, disk, bounds>>
-----------------------------------------------------------------------------
(* commit, and recover_from_log, one disk write at a time.                 *)

write_log ==
  /\ mode = "up" /\ step = "write_log"
  /\ logblock' = [logblock EXCEPT ![tail + 1] = bread(lh[tail + 1])]
  /\ IF tail + 1 < Len(lh) THEN tail' = tail + 1 /\ UNCHANGED step
     ELSE tail' = 0 /\ step' = "write_head"
  /\ UNCHANGED <<mode, procs, logvars, buffers, head, home, bounds>>

(* "the real commit"                                                       *)
write_head ==
  /\ mode = "up" /\ step = "write_head"
  /\ head' = lh /\ step' = "install_trans"
  /\ UNCHANGED <<mode, procs, logvars, tail, buffers, logblock, home, bounds>>

install_trans ==
  /\ step = "install_trans"
  /\ LET b == lh[tail + 1]
     IN /\ home' = [home EXCEPT ![b] = logblock[tail + 1]]
        /\ cache' = [cache EXCEPT ![b] = logblock[tail + 1]]
        /\ dirty' = dirty \ {b}
  /\ IF tail + 1 < Len(lh) THEN tail' = tail + 1 /\ UNCHANGED step
     ELSE tail' = 0 /\ step' = "erase"
  /\ UNCHANGED <<mode, procs, logvars, head, logblock, bounds>>

(* Faulty variant of erase: only the header in memory is cleared.          *)
eraseInMemory ==
  /\ step = "erase"
  /\ lh' = <<>>
  /\ IF mode = "recover" THEN mode' = "up" /\ step' = "none"
     ELSE step' = "done" /\ UNCHANGED mode
  /\ UNCHANGED <<procs, outstanding, committing, tail, buffers, disk, bounds>>

(* log.lh.n = 0 and the second write_head.                                 *)
erase ==
  /\ step = "erase"
  /\ lh' = <<>> /\ head' = <<>>
  /\ IF mode = "recover" THEN mode' = "up" /\ step' = "none"
     ELSE step' = "done" /\ UNCHANGED mode
  /\ UNCHANGED <<procs, outstanding, committing, tail, buffers, logblock, home, bounds>>

(* Faulty variant of done, the end of end_op: nobody is woken.             *)
doneNoWakeup(p) ==
  /\ mode = "up" /\ pc[p] = "commit" /\ step = "done"
  /\ committing' = FALSE
  /\ step' = "none" /\ pc' = [pc EXCEPT ![p] = "user"]
  /\ UNCHANGED <<mode, buf, wrote, outstanding, lh, tail, buffers, disk, bounds>>

done(p) ==
  /\ mode = "up" /\ pc[p] = "commit" /\ step = "done"
  /\ committing' = FALSE
  /\ step' = "none" /\ WakeupAnd(p, "user")
  /\ UNCHANGED <<mode, buf, wrote, outstanding, lh, tail, buffers, disk, bounds>>

(* The machine stops, at any time, and boots again: only the disk remains. *)
Crash ==
  /\ crashes < MaxCrashes /\ crashes' = crashes + 1
  /\ mode' = "recover" /\ step' = "read_head" /\ tail' = 0
  /\ pc' = [p \in Proc |-> "user"]
  /\ buf' = [p \in Proc |-> NoBlock] /\ wrote' = [p \in Proc |-> {}]
  /\ outstanding' = 0 /\ committing' = FALSE /\ lh' = <<>>
  /\ cache' = [b \in Block |-> NoData] /\ dirty' = {}
  /\ UNCHANGED <<disk, calls>>

read_head ==
  /\ mode = "recover" /\ step = "read_head"
  /\ lh' = head
  /\ step' = IF head = <<>> THEN "erase" ELSE "install_trans"
  /\ UNCHANGED <<mode, procs, outstanding, committing, tail, buffers, disk, bounds>>

System == write_log \/ write_head \/ install_trans \/ erase \/ read_head

Next ==
  \/ \E p \in Proc : Call(p) \/ begin_op(p) \/ log_write(p) \/ end_op(p) \/ done(p)
  \/ \E p \in Proc, b \in Block, d \in Data : Modify(p, b, d)
  \/ \E b \in Block : Recycle(b)
  \/ System \/ Crash

Spec == Init /\ [][Next]_vars

(* Processes run, the disk answers, and a system call writes finitely many *)
(* blocks and then ends.                                                   *)
FairSpec ==
  /\ Spec /\ WF_vars(System)
  /\ \A p \in Proc : WF_vars(begin_op(p) \/ log_write(p) \/ done(p)) /\ SF_vars(end_op(p))
-----------------------------------------------------------------------------
TypeOK ==
  /\ mode \in {"up", "recover", "panic"}
  /\ pc \in [Proc -> {"user", "begin_op", "sleep", "call", "log_write", "commit"}]
  /\ buf \in [Proc -> Block \cup {NoBlock}] /\ wrote \in [Proc -> SUBSET Block]
  /\ outstanding \in Nat /\ committing \in BOOLEAN
  /\ lh \in Seq(Block) /\ Len(lh) <= LOGSIZE
  /\ step \in {"none", "write_log", "write_head", "install_trans", "erase", "done", "read_head"}
  /\ tail \in 0 .. LOGSIZE
  /\ cache \in [Block -> Data \cup {NoData}] /\ dirty \in SUBSET Block
  /\ head \in Seq(Block) /\ Len(head) <= LOGSIZE
  /\ logblock \in [1 .. LOGSIZE -> Data] /\ home \in [Block -> Data]
  /\ calls \in 0 .. MaxCalls /\ crashes \in 0 .. MaxCrashes

(* What recover_from_log would make of the disk as it is.                  *)
Durable ==
  [b \in Block |-> IF b \in Logged(head)
                   THEN logblock[CHOOSE i \in DOMAIN head : head[i] = b] ELSE home[b]]

(* What system calls see; after a crash, what they will see.               *)
Current == IF mode = "recover" THEN Durable ELSE [b \in Block |-> bread(b)]

InCall == {p \in Proc : pc[p] \in {"call", "log_write"}}

(* No call that keeps to OpBlocks meets "too big a transaction", nor any   *)
(* other panic of the log; and the log stays within its blocks on disk,    *)
(* though log_write tests lh.n before it takes the lock.                   *)
NoPanic == mode # "panic" /\ Len(lh) <= nlog - 1

(* A process sleeps in begin_op only while some other call, or a commit,   *)
(* is still to wake it.                                                    *)
NoLostWakeup ==
  mode = "up" /\ (\E p \in Proc : pc[p] = "sleep") => outstanding > 0 \/ committing

(* "commits if this was the last outstanding operation" (log.c:144): when  *)
(* no call is in progress, all that calls have written is durable.         *)
QuietDurable ==
  mode = "up" /\ outstanding = 0 /\ ~ committing => Durable = Current

A == INSTANCE AtomicDisk WITH current <- Current, durable <- Durable, active <- InCall

(* Every step of the log, a crash at any point of a commit or a recovery   *)
(* included, is a step of the atomic disk: the writes of a system call     *)
(* become durable all at once, with no call in progress, or are all lost.  *)
ImplementsAtomicDisk == A!Spec

(* Every call that waits in begin_op is let in, or the machine crashes.    *)
Admitted(p) == pc[p] = "begin_op" ~> pc[p] \in {"call", "user"}
=============================================================================
