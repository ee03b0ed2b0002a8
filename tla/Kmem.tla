-------------------------------- MODULE Kmem --------------------------------
(***************************************************************************)
(* The page allocator (kalloc.c) and the boot that sets it up (main.c):    *)
(* kinit1 on the boot processor alone, startothers, kinit2, userinit, and  *)
(* then every processor running processes.  Until kinit2 has ended the     *)
(* free list has no lock; a step below ends where another processor may    *)
(* see what it did.                                                        *)
(***************************************************************************)
EXTENDS Integers, Sequences, FiniteSets

CONSTANTS Boot, AP,        \* the boot processor, the others
          Low, High,       \* pages below and above 4 MB, in their order
          MaxHeld          \* bound: pages that the processes of a CPU have

VARIABLES
  freelist, use_lock, lock,       \* kmem
  booted, high,                   \* where main is; pages kinit2 has to free
  code, sent, stack, started,     \* what entryother.S is told; the CPUs started
  pc, r, next, call,              \* kalloc and kfree of each CPU
  held                            \* pages of each CPU's processes

kmem == <<freelist, use_lock, lock>>
aps == <<code, sent, stack, started>>
vars == <<kmem, booted, high, aps, pc, r, next, call, held>>

Cpus == {Boot} \cup AP
Nil == "nil"

Init ==
  /\ freelist = <<>> /\ use_lock = FALSE /\ lock = Nil
  /\ booted = "kinit1" /\ high = High
  /\ code = Nil /\ sent = {} /\ stack = [c \in AP |-> Nil] /\ started = {}
  /\ pc = [c \in Cpus |-> "idle"] /\ r = [c \in Cpus |-> Nil]
  /\ next = [c \in Cpus |-> <<>>] /\ call = [c \in Cpus |-> Nil]
  /\ held = [c \in Cpus |-> {}]
-----------------------------------------------------------------------------
Goto(c, label) == pc' = [pc EXCEPT ![c] = label]

(* kalloc and kfree begin, and take the lock if it is in use.              *)
Enter(c, what, page) ==
  /\ pc[c] = "idle" /\ Goto(c, IF use_lock THEN "acquire" ELSE "read")
  /\ call' = [call EXCEPT ![c] = what] /\ r' = [r EXCEPT ![c] = page]
  /\ UNCHANGED <<kmem, next>>

acquire(c) ==
  /\ pc[c] = "acquire" /\ lock = Nil /\ lock' = c /\ Goto(c, "read")
  /\ UNCHANGED <<freelist, use_lock, booted, high, aps, r, next, call, held>>

(* kalloc reads kmem.freelist into r, kfree into r->next.                  *)
read(c) ==
  /\ pc[c] = "read" /\ next' = [next EXCEPT ![c] = freelist] /\ Goto(c, "write")
  /\ UNCHANGED <<kmem, booted, high, aps, r, call, held>>

(* Both set kmem.freelist and release the lock.                            *)
write(c) ==
  /\ pc[c] = "write" /\ Goto(c, "done")
  /\ \/ /\ call[c] = "kfree"
        /\ freelist' = <<r[c]>> \o next[c] /\ r' = [r EXCEPT ![c] = Nil]
     \/ /\ call[c] = "kalloc" /\ next[c] # <<>>
        /\ freelist' = Tail(next[c]) /\ r' = [r EXCEPT ![c] = Head(next[c])]
     \/ call[c] = "kalloc" /\ next[c] = <<>> /\ UNCHANGED <<freelist, r>>
  /\ next' = [next EXCEPT ![c] = <<>>]
  /\ lock' = IF lock = c THEN Nil ELSE lock
  /\ UNCHANGED <<use_lock, booted, high, aps, call, held>>

Return(c) ==     \* with r used
  /\ pc[c] = "done" /\ Goto(c, "idle")
  /\ call' = [call EXCEPT ![c] = Nil] /\ r' = [r EXCEPT ![c] = Nil]
  /\ UNCHANGED <<kmem, next>>
-----------------------------------------------------------------------------
kinit1 ==
  /\ booted = "kinit1" /\ freelist' = Low /\ booted' = "startothers"
  /\ UNCHANGED <<use_lock, lock, high, aps, pc, r, next, call, held>>

(* startothers waits for the processor it has started last.                *)
Waited == sent = started

(* startothers, for each processor: a stack, where entryother.S finds it,  *)
(* and a wait until the processor has started.                             *)
startothers ==
  /\ booted = "startothers" /\ UNCHANGED <<booted, high, held>>
  /\ \/ Enter(Boot, "kalloc", Nil) /\ sent # AP /\ Waited /\ UNCHANGED aps
     \/ /\ Return(Boot) /\ code' = r[Boot]
        /\ \E c \in AP \ sent : sent' = sent \cup {c}
        /\ UNCHANGED <<stack, started>>

(* entryother.S loads its stack; mpenter and mpmain, up to the scheduler.  *)
mpenter(c) ==
  /\ c \in sent /\ stack[c] = Nil /\ stack' = [stack EXCEPT ![c] = code]
  /\ UNCHANGED <<kmem, booted, high, code, sent, started, pc, r, next, call, held>>

mpmain(c) ==
  /\ stack[c] # Nil /\ c \notin started /\ started' = started \cup {c}
  /\ UNCHANGED <<kmem, booted, high, code, sent, stack, pc, r, next, call, held>>

(* Faulty variant of UseLock: the lock is not put to use.                  *)
UseLockNot == UNCHANGED use_lock
UseLock == use_lock' = TRUE

(* kinit2 frees the other pages, one by one, and then uses the lock.       *)
kinit2 ==
  /\ UNCHANGED <<aps, held>>
  /\ \/ /\ booted = "startothers" /\ sent = AP /\ Waited /\ pc[Boot] = "idle" /\ booted' = "kinit2"
        /\ UNCHANGED <<kmem, high, pc, r, next, call>>
     \/ /\ booted = "kinit2" /\ high # <<>> /\ Enter(Boot, "kfree", Head(high))
        /\ high' = Tail(high) /\ UNCHANGED booted
     \/ booted = "kinit2" /\ Return(Boot) /\ UNCHANGED <<booted, high>>
     \/ /\ booted = "kinit2" /\ high = <<>> /\ pc[Boot] = "idle" /\ booted' = "userinit"
        /\ UseLock
        /\ UNCHANGED <<freelist, lock, high, pc, r, next, call>>

(* userinit takes pages for the first process and makes it RUNNABLE.       *)
userinit ==
  /\ booted = "userinit" /\ UNCHANGED <<high, aps>>
  /\ \/ Enter(Boot, "kalloc", Nil) /\ UNCHANGED <<booted, held>>
     \/ /\ Return(Boot) /\ booted' = "up"
        /\ held' = [held EXCEPT ![Boot] = {r[Boot]} \ {Nil}]

(* From now on the schedulers have processes to run, and these take and    *)
(* give back pages.                                                        *)
Process(c) ==
  /\ booted = "up" /\ UNCHANGED <<booted, high, aps>>
  /\ \/ Enter(c, "kalloc", Nil) /\ Cardinality(held[c]) < MaxHeld /\ UNCHANGED held
     \/ \E f \in held[c] : Enter(c, "kfree", f) /\ held' = [held EXCEPT ![c] = @ \ {f}]
     \/ Return(c) /\ held' = [held EXCEPT ![c] = @ \cup ({r[c]} \ {Nil})]

Next ==
  \/ kinit1 \/ startothers \/ kinit2 \/ userinit
  \/ \E c \in AP : mpenter(c) \/ mpmain(c)
  \/ \E c \in Cpus : acquire(c) \/ read(c) \/ write(c) \/ Process(c)

Spec == Init /\ [][Next]_vars
-----------------------------------------------------------------------------
(* Everything that has a page: the list, a call under way, the stacks of   *)
(* the processors, the processes.                                          *)
Users(f) ==
  {<<"list", i>> : i \in {j \in DOMAIN freelist : freelist[j] = f}}
    \cup {<<"call", c>> : c \in {d \in Cpus : r[d] = f}}
    \cup {<<"stack", c>> : c \in {d \in AP : stack[d] = f}}
    \cup {<<"process", c>> : c \in {d \in Cpus : f \in held[d]}}
    \cup {<<"high", i>> : i \in {j \in DOMAIN high : high[j] = f}}

(* From the first instruction of the boot on, no page is in two places and *)
(* none is lost: the list is safe without its lock as long as it has none, *)
(* no two processors start on one stack, and the lock is in use before a   *)
(* second processor can come to kalloc.                                    *)
PagesExclusive ==
  \A f \in {Low[i] : i \in DOMAIN Low} \cup {High[i] : i \in DOMAIN High} :
    /\ Cardinality(Users(f)) <= 1
    /\ booted # "kinit1" /\ (\A c \in Cpus : pc[c] = "idle") /\ code # f => Users(f) # {}
=============================================================================
