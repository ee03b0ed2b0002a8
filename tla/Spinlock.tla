------------------------------ MODULE Spinlock ------------------------------
(***************************************************************************)
(* Spin locks and interrupts (spinlock.c).  Every CPU runs kernel code     *)
(* that takes locks, one inside another where the kernel does so, and a    *)
(* handler that does the same can begin at any step while interrupts are   *)
(* on.  What a CPU runs is a stack of frames: the code and, above it, the  *)
(* handler.                                                                *)
(***************************************************************************)
EXTENDS Integers, Sequences

CONSTANTS CPU, Locks,
          Class            \* of each lock: the struct or variable it is in

VARIABLES
  locked, cpu,             \* struct spinlock
  IF_, ncli, intena,       \* of each CPU: the flag of eflags; struct cpu
  stack,                   \* of each CPU: frames [pc, lk, held, eflags]
  panicked

vars == <<locked, cpu, IF_, ncli, intena, stack, panicked>>

NoCpu == "none"
NoLock == "nolock"
Frame == [pc |-> "run", lk |-> NoLock, held |-> <<>>, eflags |-> FALSE]

(* The locks that code has when it calls sleep or wakeup, which take       *)
(* ptable.lock: so do trap, ideintr and consoleintr, which are handlers.   *)
Sleeps == {"tickslock", "idelock", "cons", "log", "pipe", "sleeplock"}

(* Faulty variant of Nest: the kernel prints while it has ptable.lock.     *)
NestPrints == (Sleeps \X {"ptable"}) \cup {<<"ptable", "kmem">>, <<"ptable", "cons">>}

(* Which lock is taken while which is held; wait has ptable.lock when it   *)
(* calls kfree.  bcache, icache and ftable are taken alone.                *)
Nest == (Sleeps \X {"ptable"}) \cup {<<"ptable", "kmem">>}

Init ==
  /\ locked = [k \in Locks |-> 0] /\ cpu = [k \in Locks |-> NoCpu]
  /\ IF_ = [c \in CPU |-> TRUE] /\ ncli = [c \in CPU |-> 0] /\ intena = [c \in CPU |-> FALSE]
  /\ stack = [c \in CPU |-> <<Frame>>] /\ panicked = FALSE
-----------------------------------------------------------------------------
Depth(c) == Len(stack[c])
Now(c) == stack[c][Depth(c)]
At(c, pc) == ~ panicked /\ Now(c).pc = pc
Goto(c, pc) == stack' = [stack EXCEPT ![c][Depth(c)].pc = pc]
Handling(c) == Depth(c) > 1

(* A sequence without its i-th element.                                    *)
Without(s, i) == SubSeq(s, 1, i - 1) \o SubSeq(s, i + 1, Len(s))

holding(c, k) == locked[k] = 1 /\ cpu[k] = c

Check(c, good, pc) ==
  IF good THEN Goto(c, pc) /\ UNCHANGED panicked ELSE panicked' = TRUE /\ UNCHANGED stack

(* acquire is called, by the code or by a handler, for a lock that nests   *)
(* in those it has; pushcli reads eflags.                                  *)
acquire(c, k) ==
  /\ At(c, "run") /\ \A i \in DOMAIN Now(c).held : <<Class[Now(c).held[i]], Class[k]>> \in Nest
  /\ stack' = [stack EXCEPT ![c][Depth(c)].pc = "cli", ![c][Depth(c)].lk = k,
                            ![c][Depth(c)].eflags = IF_[c]]
  /\ UNCHANGED <<locked, cpu, IF_, ncli, intena, panicked>>

(* Faulty variant of pushcli: intena is set by every call.                 *)
pushcliEach(c) ==
  /\ At(c, "cli")
  /\ IF_' = [IF_ EXCEPT ![c] = FALSE]
  /\ intena' = [intena EXCEPT ![c] = Now(c).eflags]
  /\ ncli' = [ncli EXCEPT ![c] = @ + 1] /\ Goto(c, "holding")
  /\ UNCHANGED <<locked, cpu, panicked>>

(* The rest of pushcli; nothing interrupts it after cli.                   *)
pushcli(c) ==
  /\ At(c, "cli")
  /\ IF_' = [IF_ EXCEPT ![c] = FALSE]
  /\ intena' = IF ncli[c] = 0 THEN [intena EXCEPT ![c] = Now(c).eflags] ELSE intena
  /\ ncli' = [ncli EXCEPT ![c] = @ + 1] /\ Goto(c, "holding")
  /\ UNCHANGED <<locked, cpu, panicked>>

acquire_holding(c) ==
  /\ At(c, "holding") /\ Check(c, ~ holding(c, Now(c).lk), "xchg")
  /\ UNCHANGED <<locked, cpu, IF_, ncli, intena>>

(* A turn of the loop that ends it; the other turns change nothing.        *)
xchg(c) ==
  /\ At(c, "xchg") /\ locked[Now(c).lk] = 0
  /\ locked' = [locked EXCEPT ![Now(c).lk] = 1] /\ Goto(c, "mine")
  /\ UNCHANGED <<cpu, IF_, ncli, intena, panicked>>

acquired(c) ==
  /\ At(c, "mine") /\ cpu' = [cpu EXCEPT ![Now(c).lk] = c]
  /\ stack' = [stack EXCEPT ![c][Depth(c)].pc = "run",
                            ![c][Depth(c)].held = Append(@, Now(c).lk)]
  /\ UNCHANGED <<locked, IF_, ncli, intena, panicked>>

(* release, of any of the locks this code has.                             *)
release(c, i) ==
  LET held == Now(c).held
  IN /\ At(c, "run")
     /\ IF holding(c, held[i])
        THEN /\ stack' = [stack EXCEPT ![c][Depth(c)].pc = "nocpu", ![c][Depth(c)].lk = held[i],
                                       ![c][Depth(c)].held = Without(held, i)]
             /\ cpu' = [cpu EXCEPT ![held[i]] = NoCpu] /\ UNCHANGED panicked
        ELSE panicked' = TRUE /\ UNCHANGED <<stack, cpu>>
     /\ UNCHANGED <<locked, IF_, ncli, intena>>

unlock(c) ==
  /\ At(c, "nocpu") /\ locked' = [locked EXCEPT ![Now(c).lk] = 0] /\ Goto(c, "popcli")
  /\ UNCHANGED <<cpu, IF_, ncli, intena, panicked>>

(* Faulty variant of popcli: every one of them turns interrupts on.        *)
popcliEach(c) ==
  /\ At(c, "popcli") /\ Check(c, ~ IF_[c] /\ ncli[c] > 0, "run")
  /\ ncli' = [ncli EXCEPT ![c] = @ - 1]
  /\ IF_' = [IF_ EXCEPT ![c] = intena[c]]
  /\ UNCHANGED <<locked, cpu, intena>>

popcli(c) ==
  /\ At(c, "popcli") /\ Check(c, ~ IF_[c] /\ ncli[c] > 0, "run")
  /\ ncli' = [ncli EXCEPT ![c] = @ - 1]
  /\ IF_' = IF ncli[c] = 1 /\ intena[c] THEN [IF_ EXCEPT ![c] = TRUE] ELSE IF_
  /\ UNCHANGED <<locked, cpu, intena>>

(* An interrupt: the gate turns interrupts off, iret turns them on again.  *)
Interrupt(c) ==
  /\ ~ panicked /\ IF_[c] /\ ~ Handling(c)
  /\ IF_' = [IF_ EXCEPT ![c] = FALSE] /\ stack' = [stack EXCEPT ![c] = Append(@, Frame)]
  /\ UNCHANGED <<locked, cpu, ncli, intena, panicked>>

iret(c) ==
  /\ Handling(c) /\ At(c, "run") /\ Now(c).held = <<>>
  /\ IF_' = [IF_ EXCEPT ![c] = TRUE]
  /\ stack' = [stack EXCEPT ![c] = SubSeq(@, 1, Depth(c) - 1)]
  /\ UNCHANGED <<locked, cpu, ncli, intena, panicked>>

Next ==
  \E c \in CPU :
    \/ pushcli(c) \/ acquire_holding(c) \/ xchg(c) \/ acquired(c) \/ unlock(c) \/ popcli(c)
    \/ Interrupt(c) \/ iret(c)
    \/ \E k \in Locks : acquire(c, k)
    \/ \E i \in DOMAIN Now(c).held : release(c, i)

Spec == Init /\ [][Next]_vars
-----------------------------------------------------------------------------
Frames(c) == {stack[c][d] : d \in 1 .. Depth(c)}
Inside(f, k) == (\E i \in DOMAIN f.held : f.held[i] = k) \/ (f.pc \in {"mine", "nocpu"} /\ f.lk = k)

(* Between acquire and release, code is alone with the lock and is not     *)
(* interrupted; afterwards interrupts are as they were, on in the code and *)
(* off in a handler.  No test of acquire, release or popcli fails, though  *)
(* holding reads locked and cpu without any lock, while other CPUs change  *)
(* them one after the other.                                               *)
LocksExclude ==
  /\ ~ panicked
  /\ \A c, d \in CPU, k \in Locks :
       (\E f \in Frames(c) : Inside(f, k)) /\ (\E f \in Frames(d) : Inside(f, k)) => c = d
  /\ \A c \in CPU :
       Now(c).pc = "run" => (IF_[c] <=> ~ Handling(c) /\ Now(c).held = <<>>)

(* No CPUs spin for ever: of any CPUs, one waits for no lock that one of   *)
(* them has.  So a handler finds no lock of the code it interrupted, and   *)
(* the nestings of the kernel, those of handlers included, close no ring   *)
(* in which every CPU waits, with a lock, for the next one's.              *)
Waits(c) == IF Now(c).pc = "xchg" THEN {Now(c).lk} ELSE {}
Holds(c, k) == \E f \in Frames(c) : Inside(f, k)
NoSpinForEver ==
  \A D \in SUBSET CPU : D # {} => \E c \in D : \A k \in Waits(c), d \in D : ~ Holds(d, k)
=============================================================================
