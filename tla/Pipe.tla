-------------------------------- MODULE Pipe --------------------------------
(***************************************************************************)
(* A pipe (pipe.c) and the processes that hold descriptors of its ends.    *)
(* A step of pipewrite or piperead is what it does under one hold of       *)
(* p->lock; the two steps of sleep, before and after the process is        *)
(* SLEEPING, are apart, since kill takes ptable.lock only and can come     *)
(* between them.  The counters nread and nwrite are taken modulo UINT.     *)
(***************************************************************************)
EXTENDS Integers, FiniteSets, Sequences, SequencesExt, FiniteSetsExt

CONSTANTS Proc, First,     \* the processes, and the one that calls pipe
          Byte, PIPESIZE, UINT

End == {"r", "w"}
NoOne == "none"

VARIABLES
  data, nread, nwrite, readopen, writeopen, freed,   \* struct pipe
  lock,          \* who has p->lock and is about to sleep, or NoOne
  pc, killed,
  fd,            \* how many descriptors of each end a process has
  addr, n,       \* the bytes that are still to be written; to be read
  ret            \* what the latest piperead copied out

pipe == <<data, nread, nwrite, readopen, writeopen, freed>>
vars == <<pipe, lock, pc, killed, fd, addr, n, ret>>

Goto(p, l) == pc' = [pc EXCEPT ![p] = l]

(* pipealloc, called by the first process.                                 *)
Init ==
  /\ data = [i \in 0 .. PIPESIZE - 1 |-> 1]   \* as kfree left the page
  /\ nread = 0 /\ nwrite = 0 /\ readopen = TRUE /\ writeopen = TRUE /\ freed = FALSE
  /\ lock = NoOne /\ killed = [p \in Proc |-> FALSE]
  /\ pc = [p \in Proc |-> IF p = First THEN "user" ELSE "unused"]
  /\ fd = [p \in Proc |-> [e \in End |-> IF p = First THEN 1 ELSE 0]]
  /\ addr = [p \in Proc |-> <<>>] /\ n = [p \in Proc |-> 0] /\ ret = <<>>

InUser(p) == pc[p] = "user" /\ ~ killed[p]
-----------------------------------------------------------------------------
(* wakeup of the processes that sleep on a channel: after it they go back  *)
(* to the loop that they slept in.                                         *)
Woken(f, from, to) == [p \in Proc |-> IF f[p] = from THEN to ELSE f[p]]
WakeReaders(f) == Woken(f, "asleep_r", "read")
WakeWriters(f) == Woken(f, "asleep_w", "write")

(* Where in data the byte of a count is.                                   *)
Index(k) == (k % UINT) % PIPESIZE

Full(w) == w = (nread + PIPESIZE) % UINT
Empty(r) == r = nwrite

(* How many of the bytes at addr go in before the pipe is full.            *)
Room(p) == Min({k \in 0 .. Len(addr[p]) : k = Len(addr[p]) \/ Full((nwrite + k) % UINT)})

Copied(p) ==
  [i \in DOMAIN data |->
    LET ks == {k \in 1 .. Room(p) : Index(nwrite + k - 1) = i}
    IN IF ks = {} THEN data[i] ELSE addr[p][Max(ks)]]

(* The call returns, and with it goes what was left to write.              *)
Leave(p) == addr' = [addr EXCEPT ![p] = <<>>]

(* Faulty variant of pipewrite: it writes one byte more than there is room *)
(* for.                                                                    *)
pipewriteOneMore(p) ==
  LET k == Min({Room(p) + 1, Len(addr[p])})
  IN /\ pc[p] = "write" /\ lock = NoOne
     /\ data' = Copied(p) /\ nwrite' = (nwrite + k) % UINT
     /\ addr' = [addr EXCEPT ![p] = SubSeq(@, k + 1, Len(@))]
     /\ pc' = WakeReaders([pc EXCEPT ![p] = "user"]) /\ UNCHANGED lock
     /\ UNCHANGED <<nread, readopen, writeopen, freed, killed, fd, n, ret>>

(* pipewrite from where it gets p->lock: it writes until it is done or the *)
(* pipe is full; then it gives up, or wakes the readers and turns to       *)
(* sleep.                                                                  *)
pipewrite(p) ==
  /\ pc[p] = "write" /\ lock = NoOne
  /\ data' = Copied(p) /\ nwrite' = (nwrite + Room(p)) % UINT
  /\ \/ /\ Room(p) = Len(addr[p])
        /\ pc' = WakeReaders([pc EXCEPT ![p] = "user"]) /\ Leave(p) /\ UNCHANGED lock
     \/ /\ Room(p) < Len(addr[p]) /\ (~ readopen \/ killed[p])
        /\ Goto(p, "user") /\ Leave(p) /\ UNCHANGED lock
     \/ /\ Room(p) < Len(addr[p]) /\ readopen /\ ~ killed[p]
        /\ pc' = WakeReaders([pc EXCEPT ![p] = "sleep_w"]) /\ lock' = p
        /\ addr' = [addr EXCEPT ![p] = SubSeq(@, Room(p) + 1, Len(@))]
  /\ UNCHANGED <<nread, readopen, writeopen, freed, killed, fd, n, ret>>

(* How many bytes piperead copies out before the pipe is empty.            *)
Avail(p) == Min({k \in 0 .. n[p] : k = n[p] \/ Empty((nread + k) % UINT)})

(* piperead from where it gets p->lock.                                    *)
piperead(p) ==
  /\ pc[p] = "read" /\ lock = NoOne
  /\ IF Empty(nread) /\ writeopen
     THEN /\ IF killed[p] THEN Goto(p, "user") /\ n' = [n EXCEPT ![p] = 0] /\ UNCHANGED lock
             ELSE Goto(p, "sleep_r") /\ lock' = p /\ UNCHANGED n
          /\ UNCHANGED <<nread, ret>>
     ELSE /\ ret' = [i \in 1 .. Avail(p) |-> data[Index(nread + i - 1)]]
          /\ nread' = (nread + Avail(p)) % UINT
          /\ pc' = WakeWriters([pc EXCEPT ![p] = "user"]) /\ n' = [n EXCEPT ![p] = 0]
          /\ UNCHANGED lock
  /\ UNCHANGED <<data, nwrite, readopen, writeopen, freed, killed, fd, addr>>

(* The rest of sleep: SLEEPING, and p->lock is given back.                 *)
sleep(p) ==
  /\ pc[p] \in {"sleep_r", "sleep_w"}
  /\ Goto(p, IF pc[p] = "sleep_r" THEN "asleep_r" ELSE "asleep_w")
  /\ lock' = NoOne
  /\ UNCHANGED <<pipe, killed, fd, addr, n, ret>>
-----------------------------------------------------------------------------
Refs(f, e) == MapThenSumSet(LAMBDA p : f[p][e], Proc)

(* fileclose drops one descriptor; the last one of an end closes it.       *)
fileclose(p, e) ==
  /\ pc[p] = "user" /\ fd[p][e] > 0
  /\ fd' = [fd EXCEPT ![p][e] = @ - 1]
  /\ Goto(p, IF Refs(fd', e) = 0 THEN e ELSE "user")
  /\ UNCHANGED <<pipe, lock, killed, addr, n, ret>>

(* Faulty variant of pipeclose: the first end to be closed frees the pipe. *)
pipecloseFrees(p) ==
  /\ pc[p] \in End /\ lock = NoOne
  /\ IF pc[p] = "w"
     THEN writeopen' = FALSE /\ UNCHANGED readopen /\ pc' = WakeReaders([pc EXCEPT ![p] = "user"])
     ELSE readopen' = FALSE /\ UNCHANGED writeopen /\ pc' = WakeWriters([pc EXCEPT ![p] = "user"])
  /\ freed' = TRUE
  /\ UNCHANGED <<data, nread, nwrite, lock, killed, fd, addr, n, ret>>

pipeclose(p) ==
  /\ pc[p] \in End /\ lock = NoOne
  /\ IF pc[p] = "w"
     THEN writeopen' = FALSE /\ UNCHANGED readopen /\ pc' = WakeReaders([pc EXCEPT ![p] = "user"])
     ELSE readopen' = FALSE /\ UNCHANGED writeopen /\ pc' = WakeWriters([pc EXCEPT ![p] = "user"])
  /\ freed' = (~ readopen' /\ ~ writeopen')
  /\ UNCHANGED <<data, nread, nwrite, lock, killed, fd, addr, n, ret>>

(* dup makes another descriptor of an end.                                 *)
dup(p, e) ==
  /\ InUser(p) /\ fd[p][e] > 0
  /\ fd' = [fd EXCEPT ![p][e] = @ + 1]
  /\ UNCHANGED <<pipe, lock, pc, killed, addr, n, ret>>

(* fork gives the child all descriptors of its parent.                     *)
fork(p, q) ==
  /\ InUser(p) /\ pc[q] = "unused"
  /\ Goto(q, "user") /\ fd' = [fd EXCEPT ![q] = fd[p]]
  /\ UNCHANGED <<pipe, lock, killed, addr, n, ret>>

(* kill wakes its victim wherever it sleeps.                               *)
kill(p) ==
  /\ pc[p] # "unused" /\ killed' = [killed EXCEPT ![p] = TRUE]
  /\ Goto(p, CASE pc[p] = "asleep_r" -> "read" [] pc[p] = "asleep_w" -> "write" [] OTHER -> pc[p])
  /\ UNCHANGED <<pipe, lock, fd, addr, n, ret>>

(* fileread and filewrite of a descriptor of the pipe.                     *)
fileread(p, k) ==
  /\ InUser(p) /\ fd[p]["r"] > 0
  /\ n' = [n EXCEPT ![p] = k] /\ Goto(p, "read")
  /\ UNCHANGED <<pipe, lock, killed, fd, addr, ret>>

filewrite(p, s) ==
  /\ InUser(p) /\ fd[p]["w"] > 0
  /\ addr' = [addr EXCEPT ![p] = s] /\ Goto(p, "write")
  /\ UNCHANGED <<pipe, lock, killed, fd, n, ret>>

(* What a process does in the kernel, once it has made its call.           *)
Kernel(p) == pipewrite(p) \/ piperead(p) \/ sleep(p) \/ pipeclose(p)
-----------------------------------------------------------------------------
(* The page of the pipe is freed when the last descriptor is closed, not   *)
(* before and, while somebody holds one or works on the pipe, not at all.  *)
FreedLast ==
  /\ freed => \A p \in Proc : /\ fd[p] = [e \in End |-> 0]
                              /\ pc[p] \in {"unused", "user"}
  /\ readopen = (Refs(fd, "r") > 0 \/ \E p \in Proc : pc[p] = "r")
  /\ writeopen = (Refs(fd, "w") > 0 \/ \E p \in Proc : pc[p] = "w")

Q == INSTANCE ByteQueue WITH
       Capacity <- PIPESIZE, in <- writeopen, out <- readopen, got <- ret,
       queue <- [i \in 1 .. (nwrite - nread) % UINT |-> data[Index(nread + i - 1)]]

(* A pipe is a bounded queue of bytes: across the wrap of the counters and *)
(* the sleeps in the middle of a write, bytes come out as they went in,    *)
(* none twice, and end of input is reported only after the last of them.   *)
ImplementsByteQueue == Q!Spec
=============================================================================
