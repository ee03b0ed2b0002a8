------------------------------- MODULE Ptable -------------------------------
(***************************************************************************)
(* The process table and the scheduler (proc.c): fork, exit, wait, kill,   *)
(* sleep and wakeup as wait and sys_sleep use them, yield, and a scheduler *)
(* on each CPU.  A step is what the code does under one hold of            *)
(* ptable.lock, or between two of them where it can be preempted.  Of a    *)
(* process's resources its swap file is kept, which allocproc creates and  *)
(* exit removes.                                                           *)
(***************************************************************************)
EXTENDS Integers, FiniteSets

CONSTANTS NPROC, CPU,
          MaxPid      \* bound: the last pid that fork gives out

ASSUME PtableAssumption == NPROC \in Nat \ {0} /\ MaxPid \in Nat \ {0}

Slot == 1 .. NPROC
NoProc == 0           \* the null pointer
initproc == 1         \* the slot that userinit is given
Ticks == NPROC + 1    \* the channel &ticks; that of wait is the process

VARIABLES
  state, pid, parent, killed, chan, nextpid,     \* ptable
  running, scan,  \* c->proc; where the scheduler's loop has come to
  pc,             \* where each process is
  np,             \* fork: the process being made
  due,            \* sys_sleep: the ticks it waits for have passed
  files,          \* pids that have a swap file
  panicked

table == <<state, pid, parent, killed, chan, nextpid>>
cpus  == <<running, scan>>
vars  == <<table, cpus, pc, np, due, files, panicked>>

(* What a search of the table from its first slot finds.                   *)
Lowest(S) == {s \in S : \A t \in S : s <= t}

(* A process that the scheduler resumes in wait still has ptable.lock.     *)
Unlocked == ~ \E s \in Slot : state[s] = "RUNNING" /\ pc[s] = "wait"

(* Process s runs, at label l of the kernel or in user mode.               *)
At(s, l) ==
  ~ panicked /\ state[s] = "RUNNING" /\ pc[s] = l /\ (l = "wait" \/ Unlocked)

(* User code that trap lets make a system call.                            *)
InUser(s) == At(s, "user") /\ ~ killed[s]

Goto(s, l) == pc' = [pc EXCEPT ![s] = l]

(* Faulty variant of sched: the CPU keeps the process.                     *)
schedKeeps(s) == running' = running

(* The CPU of process s goes back to its scheduler.                        *)
sched(s) == running' = [c \in CPU |-> IF running[c] = s THEN NoProc ELSE running[c]]
-----------------------------------------------------------------------------
(* userinit has run.                                                       *)
Init ==
  /\ state  = [s \in Slot |-> IF s = initproc THEN "RUNNABLE" ELSE "UNUSED"]
  /\ pid    = [s \in Slot |-> IF s = initproc THEN 1 ELSE 0]
  /\ parent = [s \in Slot |-> NoProc] /\ killed = [s \in Slot |-> FALSE]
  /\ chan   = [s \in Slot |-> NoProc] /\ nextpid = 2
  /\ running = [c \in CPU |-> NoProc] /\ scan = [c \in CPU |-> 1]
  /\ pc = [s \in Slot |-> "user"] /\ np = [s \in Slot |-> NoProc]
  /\ due = [s \in Slot |-> FALSE]
  /\ files = {} /\ panicked = FALSE

(* The loop of scheduler goes on to the next process that is RUNNABLE, or  *)
(* to the end of its pass.  A process that slept clears its chan.          *)
scheduler(c) ==
  /\ ~ panicked /\ running[c] = NoProc /\ Unlocked
  /\ LET rest == {s \in Slot : s >= scan[c] /\ state[s] = "RUNNABLE"}
     IN \/ /\ rest = {} /\ scan[c] # 1 /\ scan' = [scan EXCEPT ![c] = 1]
           /\ UNCHANGED <<state, chan, running>>
        \/ \E s \in Lowest(rest) :
             /\ state' = [state EXCEPT ![s] = "RUNNING"]
             /\ chan' = [chan EXCEPT ![s] = NoProc]
             /\ running' = [running EXCEPT ![c] = s] /\ scan' = [scan EXCEPT ![c] = s + 1]
  /\ UNCHANGED <<pid, parent, killed, nextpid, pc, np, due, files, panicked>>

(* A timer interrupt, in user mode or in the kernel, where no spinlock is  *)
(* held.                                                                   *)
yield(s) ==
  /\ \/ InUser(s)
     \/ \E l \in {"kstack", "copyuvm", "exit", "ticks"} : At(s, l)
  /\ state' = [state EXCEPT ![s] = "RUNNABLE"] /\ sched(s)
  /\ UNCHANGED <<pid, parent, killed, chan, nextpid, scan, pc, np, due, files, panicked>>
-----------------------------------------------------------------------------
(* fork, up to the end of allocproc's hold of ptable.lock.                 *)
allocproc(s) ==
  /\ InUser(s) /\ nextpid <= MaxPid
  /\ \E t \in Lowest({u \in Slot : state[u] = "UNUSED"}) :
       /\ state' = [state EXCEPT ![t] = "EMBRYO"]
       /\ pid' = [pid EXCEPT ![t] = nextpid] /\ nextpid' = nextpid + 1
       /\ np' = [np EXCEPT ![s] = t]
  /\ Goto(s, "kstack")
  /\ UNCHANGED <<parent, killed, chan, cpus, due, files, panicked>>

(* The rest of allocproc: a kernel stack and a swap file.                  *)
createSwapFile(s) ==
  /\ At(s, "kstack")
  /\ files' = IF pid[np[s]] > 2 THEN files \cup {pid[np[s]]} ELSE files
  /\ Goto(s, "copyuvm")
  /\ UNCHANGED <<table, cpus, np, due, panicked>>

(* No memory for the kernel stack, or for copyuvm.                         *)
forkFails(s) ==
  /\ At(s, "kstack") \/ At(s, "copyuvm")
  /\ state' = [state EXCEPT ![np[s]] = "UNUSED"]
  /\ np' = [np EXCEPT ![s] = NoProc] /\ Goto(s, "user")
  /\ UNCHANGED <<pid, parent, killed, chan, nextpid, cpus, due, files, panicked>>

fork(s) ==
  /\ At(s, "copyuvm")
  /\ parent' = [parent EXCEPT ![np[s]] = s]
  /\ state' = [state EXCEPT ![np[s]] = "RUNNABLE"]
  /\ pc' = [pc EXCEPT ![np[s]] = "user", ![s] = "user"]
  /\ np' = [np EXCEPT ![s] = NoProc]
  /\ UNCHANGED <<pid, killed, chan, nextpid, cpus, due, files, panicked>>

(* Faulty variant of removeSwapFile: nothing is removed.                   *)
removeSwapFileNot(s) ==
  /\ At(s, "user")
  /\ IF s = initproc THEN panicked' = TRUE /\ UNCHANGED <<files, pc>>
     ELSE files' = files /\ Goto(s, "exit") /\ UNCHANGED panicked
  /\ UNCHANGED <<table, cpus, np, due>>

(* exit, called or forced by trap on a killed process: files are closed    *)
(* and the swap file is removed.                                           *)
removeSwapFile(s) ==
  /\ At(s, "user")
  /\ IF s = initproc THEN panicked' = TRUE /\ UNCHANGED <<files, pc>>
     ELSE files' = files \ {pid[s]} /\ Goto(s, "exit") /\ UNCHANGED panicked
  /\ UNCHANGED <<table, cpus, np, due>>

(* wakeup1(chan) for the channels in chans.                                *)
Woken(chans) == {t \in Slot : state[t] = "SLEEPING" /\ chan[t] \in chans}

(* Faulty variants of exit: children are not passed on; nobody is woken.   *)
exitKeepsChildren(s) ==
  /\ At(s, "exit")
  /\ LET zombies == {t \in Slot : parent[t] = s /\ state[t] = "ZOMBIE"}
         woken == Woken({parent[s]} \cup (IF zombies = {} THEN {} ELSE {initproc}))
     IN state' = [t \in Slot |-> IF t = s THEN "ZOMBIE"
                                 ELSE IF t \in woken THEN "RUNNABLE" ELSE state[t]]
  /\ parent' = [t \in Slot |-> parent[t]]
  /\ sched(s)
  /\ UNCHANGED <<pid, killed, chan, nextpid, scan, pc, np, due, files, panicked>>

exitSilent(s) ==
  /\ At(s, "exit")
  /\ LET zombies == {t \in Slot : parent[t] = s /\ state[t] = "ZOMBIE"}
         woken == Woken({})
     IN state' = [t \in Slot |-> IF t = s THEN "ZOMBIE"
                                 ELSE IF t \in woken THEN "RUNNABLE" ELSE state[t]]
  /\ parent' = [t \in Slot |-> IF parent[t] = s THEN initproc ELSE parent[t]]
  /\ sched(s)
  /\ UNCHANGED <<pid, killed, chan, nextpid, scan, pc, np, due, files, panicked>>

exit(s) ==
  /\ At(s, "exit")
  /\ LET zombies == {t \in Slot : parent[t] = s /\ state[t] = "ZOMBIE"}
         woken == Woken({parent[s]} \cup (IF zombies = {} THEN {} ELSE {initproc}))
     IN state' = [t \in Slot |-> IF t = s THEN "ZOMBIE"
                                 ELSE IF t \in woken THEN "RUNNABLE" ELSE state[t]]
  /\ parent' = [t \in Slot |-> IF parent[t] = s THEN initproc ELSE parent[t]]
  /\ sched(s)
  /\ UNCHANGED <<pid, killed, chan, nextpid, scan, pc, np, due, files, panicked>>

(* One pass of wait over the table.                                        *)
Scan(s) ==
  LET kids == {t \in Slot : parent[t] = s}
      zombies == {t \in kids : state[t] = "ZOMBIE"}
  IN \/ \E z \in Lowest(zombies) :
          /\ state' = [state EXCEPT ![z] = "UNUSED"]
          /\ pid' = [pid EXCEPT ![z] = 0] /\ parent' = [parent EXCEPT ![z] = NoProc]
          /\ killed' = [killed EXCEPT ![z] = FALSE]
          /\ Goto(s, "user") /\ UNCHANGED <<chan, running>>
     \/ /\ zombies = {} /\ (kids = {} \/ killed[s])
        /\ Goto(s, "user") /\ UNCHANGED <<state, pid, parent, killed, chan, running>>
     \/ /\ zombies = {} /\ kids # {} /\ ~ killed[s]
        /\ state' = [state EXCEPT ![s] = "SLEEPING"] /\ chan' = [chan EXCEPT ![s] = s]
        /\ Goto(s, "wait") /\ sched(s) /\ UNCHANGED <<pid, parent, killed>>

wait(s) ==
  /\ InUser(s) \/ At(s, "wait")
  /\ Scan(s)
  /\ UNCHANGED <<nextpid, scan, np, due, files, panicked>>

(* Faulty variant of kill: a process that sleeps goes on sleeping.         *)
killAsleep(s, n) ==
  /\ InUser(s)
  /\ \E t \in Lowest({u \in Slot : pid[u] = n}) :
       /\ killed' = [killed EXCEPT ![t] = TRUE]
       /\ state' = [state EXCEPT ![t] = @]
  /\ UNCHANGED <<pid, parent, chan, nextpid, cpus, pc, np, due, files, panicked>>

kill(s, n) ==
  /\ InUser(s)
  /\ \E t \in Lowest({u \in Slot : pid[u] = n}) :
       /\ killed' = [killed EXCEPT ![t] = TRUE]
       /\ state' = [state EXCEPT ![t] = IF @ = "SLEEPING" THEN "RUNNABLE" ELSE @]
  /\ UNCHANGED <<pid, parent, chan, nextpid, cpus, pc, np, due, files, panicked>>
-----------------------------------------------------------------------------
(* sys_sleep takes tickslock and tests, in its loop, whether it is done.   *)
sys_sleep(s) ==
  /\ InUser(s) \/ At(s, "ticks")
  /\ \A t \in Slot : pc[t] # "tickslock"
  /\ Goto(s, IF pc[s] = "ticks" /\ (due[s] \/ killed[s]) THEN "user" ELSE "tickslock")
  /\ due' = [due EXCEPT ![s] = FALSE]
  /\ UNCHANGED <<table, cpus, np, files, panicked>>

(* It goes to sleep and gives tickslock back.                              *)
sleep(s) ==
  /\ At(s, "tickslock")
  /\ state' = [state EXCEPT ![s] = "SLEEPING"] /\ chan' = [chan EXCEPT ![s] = Ticks]
  /\ sched(s) /\ Goto(s, "ticks")
  /\ UNCHANGED <<pid, parent, killed, nextpid, scan, np, due, files, panicked>>

(* The timer interrupt of CPU 0, when somebody waits for it.               *)
tick ==
  /\ ~ panicked /\ Unlocked
  /\ \A t \in Slot : pc[t] # "tickslock"
  /\ \E t \in Slot : pc[t] = "ticks" /\ ~ due[t]
  /\ due' = [t \in Slot |-> due[t] \/ pc[t] = "ticks"]
  /\ state' = [t \in Slot |-> IF t \in Woken({Ticks}) THEN "RUNNABLE" ELSE state[t]]
  /\ UNCHANGED <<pid, parent, killed, chan, nextpid, cpus, pc, np, files, panicked>>

(* What a process does once it is in the kernel, whatever its program.     *)
Kernel(s) ==
  \/ createSwapFile(s) \/ forkFails(s) \/ fork(s) \/ exit(s)
  \/ At(s, "wait") /\ wait(s)
  \/ At(s, "ticks") /\ sys_sleep(s)
  \/ sleep(s)
  \/ killed[s] /\ removeSwapFile(s)

Next ==
  \/ \E c \in CPU : scheduler(c)
  \/ \E s \in Slot : yield(s) \/ allocproc(s) \/ Kernel(s) \/ wait(s) \/ sys_sleep(s)
                       \/ removeSwapFile(s)
  \/ \E s \in Slot, n \in 0 .. MaxPid : kill(s, n)
  \/ tick

Spec == Init /\ [][Next]_vars

(* CPUs schedule, timers tick, a process makes progress if it is run again *)
(* and again, and init goes on calling wait (init.c).                      *)
FairSpec ==
  /\ Spec /\ WF_vars(tick)
  /\ \A c \in CPU : WF_vars(scheduler(c))
  /\ \A s \in Slot : WF_vars(yield(s)) /\ SF_vars(Kernel(s))
  /\ SF_vars(wait(initproc))
-----------------------------------------------------------------------------
States == {"UNUSED", "EMBRYO", "SLEEPING", "RUNNABLE", "RUNNING", "ZOMBIE"}
Live(s) == state[s] \in {"SLEEPING", "RUNNABLE", "RUNNING"}

TypeOK ==
  /\ state \in [Slot -> States]
  /\ pid \in [Slot -> 0 .. MaxPid] /\ nextpid \in 2 .. MaxPid + 1
  /\ parent \in [Slot -> Slot \cup {NoProc}] /\ killed \in [Slot -> BOOLEAN]
  /\ chan \in [Slot -> 0 .. NPROC + 1]
  /\ running \in [CPU -> Slot \cup {NoProc}] /\ scan \in [CPU -> 1 .. NPROC + 1]
  /\ pc \in [Slot -> {"user", "kstack", "copyuvm", "exit", "wait", "tickslock", "ticks"}]
  /\ np \in [Slot -> Slot \cup {NoProc}] /\ due \in [Slot -> BOOLEAN]
  /\ files \subseteq 3 .. MaxPid /\ panicked \in BOOLEAN

(* What a CPU runs is RUNNING, and a process is RUNNING on one CPU only.   *)
OneCpu ==
  /\ \A s \in Slot : state[s] = "RUNNING" <=> \E c \in CPU : running[c] = s
  /\ \A c, d \in CPU : running[c] = running[d] /\ running[c] # NoProc => c = d

(* Everybody has somebody who will see to it.  exit leaves no child        *)
(* without a parent that can wait for it: the parent of every process and  *)
(* of every zombie is itself neither dead nor unused.  Every EMBRYO is     *)
(* being made by exactly one fork, which runs to its end though its        *)
(* process is preempted or killed.                                         *)
FamilyTree ==
  /\ \A s \in Slot : (Live(s) \/ state[s] = "ZOMBIE") /\ s # initproc
                        => parent[s] \in Slot /\ Live(parent[s])
  /\ \A t \in Slot : state[t] = "EMBRYO" <=> \E s \in Slot : Live(s) /\ np[s] = t
  /\ \A s, t \in Slot : np[s] = np[t] /\ np[s] # NoProc => s = t

(* No two processes have one pid.                                          *)
PidsUnique ==
  \A s, t \in Slot : s # t /\ pid[s] # 0 => pid[s] # pid[t]

(* A parent never sleeps in wait while one of its children is a zombie:    *)
(* the wakeup of exit is not missed, whichever way the child came to it.   *)
WakeupNotMissed ==
  \A s \in Slot : state[s] = "SLEEPING" /\ chan[s] = s
                     => \A t \in Slot : parent[t] = s => state[t] # "ZOMBIE"

(* "Upon termination, the kernel should delete the swap file"              *)
(* (README.md:264): a process beyond pid 2 has its swap file until exit,   *)
(* and a zombie has none.                                                  *)
SwapFileKept ==
  \A s \in Slot :
    /\ Live(s) /\ pid[s] > 2 /\ pc[s] # "exit" => pid[s] \in files
    /\ state[s] = "ZOMBIE" => pid[s] \notin files

(* A killed process exits, wherever it slept ("Process won't exit until it *)
(* returns to user space", proc.c:512).                                    *)
KilledDies ==
  \A s \in Slot : (Live(s) /\ killed[s]) ~> (~ Live(s) \/ panicked)

(* Zombies whose parents have died are reaped by init.                     *)
OrphansReaped ==
  \A s \in Slot \ {initproc} : (state[s] = "ZOMBIE" /\ parent[s] = initproc)
                                  ~> (state[s] = "UNUSED" \/ panicked)
=============================================================================
