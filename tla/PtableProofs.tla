---------------------------- MODULE PtableProofs ----------------------------
(***************************************************************************)
(* The invariants of the process table, proved for a table of any size,    *)
(* any set of CPUs and any number of pids.                                 *)
(*                                                                         *)
(* None of the properties that the runs check is inductive by itself.      *)
(* That nobody's parent is dead needs that init never exits and that a     *)
(* slot not in use has no parent; that no EMBRYO is forgotten needs to     *)
(* know where in fork its maker is; that swap files are kept needs that    *)
(* pids are unique, and that is because nextpid is beyond all of them.     *)
(***************************************************************************)
EXTENDS Ptable, TLAPS

(* A process, or what is left of it until its parent has waited.           *)
Exists(s) == Live(s) \/ state[s] = "ZOMBIE"

(* The tree of processes hangs from init, which never exits; a slot that   *)
(* is not in use has no parent, so that exit adopts only children.         *)
Family ==
  /\ Live(initproc) /\ pc[initproc] # "exit" /\ parent[initproc] = NoProc
  /\ \A s \in Slot : Exists(s) /\ s # initproc
                       => parent[s] \in Slot /\ parent[s] # s /\ Live(parent[s])
  /\ \A s \in Slot : ~ Exists(s) => parent[s] = NoProc

(* Between allocproc and the end of fork a process has exactly one EMBRYO, *)
(* and every EMBRYO belongs to such a process.                             *)
Making ==
  /\ \A s \in Slot : np[s] # NoProc <=> Live(s) /\ pc[s] \in {"kstack", "copyuvm"}
  /\ \A s \in Slot : np[s] # NoProc => state[np[s]] = "EMBRYO"
  /\ \A s, t \in Slot : np[s] = np[t] /\ np[s] # NoProc => s = t
  /\ \A t \in Slot : state[t] = "EMBRYO" => \E s \in Slot : np[s] = t

(* The pids in the table differ, and nextpid is larger than all of them.   *)
Pids == PidsUnique /\ \A s \in Slot : pid[s] < nextpid

(* SwapFileKept, with what holds in the middle of exit and of fork.        *)
SwapFiles ==
  /\ SwapFileKept
  /\ \A s \in Slot : Live(s) /\ pc[s] = "exit" => pid[s] \notin files
  /\ \A s \in Slot : np[s] # NoProc /\ pc[s] = "copyuvm" /\ pid[np[s]] > 2
                       => pid[np[s]] \in files

(* The inductive invariant.                                                *)
IInv == TypeOK /\ OneCpu /\ Family /\ Making /\ Pids /\ SwapFiles /\ WakeupNotMissed
-----------------------------------------------------------------------------
(* The null pointer and the channel of the ticks are not processes.        *)
LEMMA Slots ==
  /\ NoProc \notin Slot /\ initproc \in Slot /\ Ticks \notin Slot /\ Ticks # NoProc
  /\ Slot \subseteq 0 .. NPROC + 1 /\ NoProc \in 0 .. NPROC + 1 /\ Ticks \in 0 .. NPROC + 1
  /\ \A s \in Slot : s + 1 \in 1 .. NPROC + 1
  /\ 1 \in 1 .. NPROC + 1
BY PtableAssumption DEF Slot, NoProc, initproc, Ticks

(* Where a process is neither making another nor exiting.                  *)
Neutral == {"user", "wait", "tickslock", "ticks"}

(* A step that only puts live processes to sleep, wakes them, runs them or *)
(* preempts them leaves the family, the forks, the pids and the swap files *)
(* alone.                                                                  *)
LEMMA Steady ==
  ASSUME IInv,
         \A s \in Slot : state'[s] = state[s] \/ (Live(s) /\ Live(s)'),
         \A s \in Slot : pc'[s] = pc[s] \/ (pc[s] \in Neutral /\ pc'[s] \in Neutral),
         UNCHANGED <<pid, parent, nextpid, np, files>>
  PROVE  Family' /\ Making' /\ Pids' /\ SwapFiles'
<1>. \A s \in Slot : Live(s)' <=> Live(s)
  BY Zenon DEF Live
<1>. \A s \in Slot : \A l \in {"UNUSED", "EMBRYO", "ZOMBIE"} : state'[s] = l <=> state[s] = l
  BY Zenon DEF Live
<1>. \A s \in Slot : \A l \in {"kstack", "copyuvm", "exit"} : pc'[s] = l <=> pc[s] = l
  BY Zenon DEF Neutral
<1>. TypeOK /\ Family /\ Making /\ Pids /\ SwapFiles
  BY Zenon DEF IInv
<1>1. Family'
  BY ZenonT(30), Slots DEF Family, Exists
<1>2. Making'
  <2>1. \A s \in Slot : np[s] # NoProc => np[s] \in Slot
    BY Zenon DEF TypeOK
  <2>2. \A s \in Slot : np'[s] # NoProc <=> Live(s)' /\ pc'[s] \in {"kstack", "copyuvm"}
    BY Zenon DEF Making
  <2>3. \A s \in Slot : np'[s] # NoProc => state'[np'[s]] = "EMBRYO"
    BY Zenon, <2>1 DEF Making
  <2>4. \A t \in Slot : state'[t] = "EMBRYO" => \E s \in Slot : np'[s] = t
    BY DEF Making
  <2>. QED BY <2>2, <2>3, <2>4 DEF Making
<1>3. Pids'
  BY Zenon DEF Pids, PidsUnique
<1>4. SwapFiles'
  BY Zenon DEF SwapFiles, SwapFileKept
<1>. QED BY Zenon, <1>1, <1>2, <1>3, <1>4

(* scheduler resumes a process only when its CPU is free.                  *)
LEMMA Schedules ==
  ASSUME IInv, NEW c \in CPU, scheduler(c)
  PROVE  IInv'
<1>. TypeOK /\ OneCpu /\ WakeupNotMissed
  BY Zenon DEF IInv
<1>. DEFINE rest == {s \in Slot : s >= scan[c] /\ state[s] = "RUNNABLE"}
<1>1. /\ running[c] = NoProc
      /\ UNCHANGED <<pid, parent, killed, nextpid, pc, np, due, files, panicked>>
  BY Zenon DEF scheduler
<1>2. CASE scan' = [scan EXCEPT ![c] = 1] /\ UNCHANGED <<state, chan, running>>
  <2>1. TypeOK'
    BY Zenon, <1>1, <1>2, Slots DEF TypeOK
  <2>2. OneCpu' /\ WakeupNotMissed'
    BY Zenon, <1>1, <1>2 DEF OneCpu, WakeupNotMissed
  <2>3. Family' /\ Making' /\ Pids' /\ SwapFiles'
    BY Zenon, <1>1, <1>2, Steady
  <2>. QED BY Zenon, <2>1, <2>2, <2>3 DEF IInv
<1>3. ASSUME NEW t \in Lowest(rest),
             state' = [state EXCEPT ![t] = "RUNNING"], chan' = [chan EXCEPT ![t] = NoProc],
             running' = [running EXCEPT ![c] = t], scan' = [scan EXCEPT ![c] = t + 1]
      PROVE  IInv'
  <2>1. t \in Slot /\ state[t] = "RUNNABLE"
    BY Zenon DEF Lowest
  <2>2. TypeOK'
    BY Zenon, <2>1, <1>1, <1>3, Slots DEF TypeOK, States
  <2>3. OneCpu'
    BY <2>1, <1>1, <1>3, Slots DEF OneCpu, TypeOK
  <2>4. Family' /\ Making' /\ Pids' /\ SwapFiles'
    BY Zenon, <2>1, <1>1, <1>3, Steady DEF Live, TypeOK
  <2>5. WakeupNotMissed'
    BY Zenon, <2>1, <1>1, <1>3 DEF WakeupNotMissed, TypeOK
  <2>. QED BY Zenon, <2>2, <2>3, <2>4, <2>5 DEF IInv
<1>. QED BY Zenon, <1>2, <1>3 DEF scheduler

(* yield gives the CPU back and leaves the process RUNNABLE.               *)
LEMMA Yields ==
  ASSUME IInv, NEW s \in Slot, yield(s)
  PROVE  IInv'
<1>. TypeOK /\ OneCpu /\ WakeupNotMissed
  BY Zenon DEF IInv
<1>1. state[s] = "RUNNING"
  BY Zenon DEF yield, InUser, At
<1>2. /\ state' = [state EXCEPT ![s] = "RUNNABLE"]
      /\ running' = [c \in CPU |-> IF running[c] = s THEN NoProc ELSE running[c]]
      /\ UNCHANGED <<pid, parent, killed, chan, nextpid, scan, pc, np, due, files, panicked>>
  BY Zenon DEF yield, sched
<1>3. TypeOK'
  BY Zenon, <1>2 DEF TypeOK, States
<1>4. OneCpu'
  BY <1>1, <1>2, Slots DEF OneCpu, TypeOK
<1>5. Family' /\ Making' /\ Pids' /\ SwapFiles'
  BY Zenon, <1>1, <1>2, Steady DEF Live, TypeOK
<1>6. WakeupNotMissed'
  BY Zenon, <1>1, <1>2 DEF WakeupNotMissed, TypeOK
<1>. QED BY Zenon, <1>3, <1>4, <1>5, <1>6 DEF IInv

(* allocproc takes a free slot and a fresh pid.                            *)
LEMMA Allocates ==
  ASSUME IInv, NEW s \in Slot, allocproc(s)
  PROVE  IInv'
<1>. TypeOK /\ OneCpu /\ Family /\ Making /\ Pids /\ SwapFiles /\ WakeupNotMissed
  BY Zenon DEF IInv
<1>0. PICK t \in Slot :
        /\ state[t] = "UNUSED" /\ state' = [state EXCEPT ![t] = "EMBRYO"]
        /\ pid' = [pid EXCEPT ![t] = nextpid] /\ nextpid' = nextpid + 1
        /\ np' = [np EXCEPT ![s] = t]
  BY Zenon DEF allocproc, Lowest
<1>1. state[t] = "UNUSED"
  BY Zenon, <1>0
<1>2. state[s] = "RUNNING" /\ pc[s] = "user" /\ nextpid <= MaxPid
  BY Zenon DEF allocproc, InUser, At
<1>3. /\ state' = [state EXCEPT ![t] = "EMBRYO"]
      /\ pid' = [pid EXCEPT ![t] = nextpid] /\ nextpid' = nextpid + 1
      /\ np' = [np EXCEPT ![s] = t] /\ pc' = [pc EXCEPT ![s] = "kstack"]
      /\ UNCHANGED <<parent, killed, chan, running, scan, due, files, panicked>>
  BY Zenon, <1>0 DEF allocproc, Goto, cpus
<1>. np[s] = NoProc /\ s # t
  BY Zenon, <1>1, <1>2 DEF Making
<1>4. TypeOK'
  BY <1>1, <1>2, <1>3, Slots, PtableAssumption DEF TypeOK, States
<1>5. OneCpu'
  BY SMTT(30), <1>1, <1>3 DEF OneCpu, TypeOK
<1>6. Family'
  BY SMTT(30), <1>1, <1>2, <1>3, Slots DEF Family, Exists, Live, TypeOK
<1>7. Making'
  <2>1. \A u \in Slot : np[u] # NoProc => np[u] \in Slot /\ np[u] # t
    BY SMTT(30), <1>1 DEF TypeOK, Making
  <2>2. \A u \in Slot : np'[u] # NoProc <=> Live(u)' /\ pc'[u] \in {"kstack", "copyuvm"}
    BY SMTT(30), <1>1, <1>2, <1>3, Slots DEF Making, Live, TypeOK
  <2>3. \A u \in Slot : np'[u] # NoProc => state'[np'[u]] = "EMBRYO"
    BY SMTT(30), <2>1, <1>1, <1>2, <1>3, Slots DEF Making, TypeOK
  <2>4. \A u, v \in Slot : np'[u] = np'[v] /\ np'[u] # NoProc => u = v
    BY <2>1, <1>1, <1>3, Slots DEF Making, TypeOK
  <2>5. \A u \in Slot : state'[u] = "EMBRYO" => \E v \in Slot : np'[v] = u
    <3>. SUFFICES ASSUME NEW u \in Slot, state'[u] = "EMBRYO"
                  PROVE  \E v \in Slot : np'[v] = u
      OBVIOUS
    <3>1. CASE u = t
      BY Zenon, <3>1, <1>3 DEF TypeOK
    <3>2. CASE u # t
      <4>1. PICK v \in Slot : np[v] = u
        BY Zenon, <3>2, <1>1, <1>3 DEF Making, TypeOK
      <4>2. v # s
        BY Zenon, <4>1, Slots
      <4>. QED BY Zenon, <4>1, <4>2, <1>3 DEF TypeOK
    <3>. QED BY Zenon, <3>1, <3>2
  <2>. QED BY Zenon, <2>2, <2>3, <2>4, <2>5 DEF Making
<1>8. Pids'
  BY <1>1, <1>3 DEF Pids, PidsUnique, TypeOK
<1>9. SwapFiles'
  <2>1. \A u \in Slot : Live(u)' <=> Live(u)
    BY Zenon, <1>1, <1>3 DEF Live, TypeOK
  <2>2. \A u \in Slot : u # t => pid'[u] = pid[u] /\ state'[u] = state[u]
    BY Zenon, <1>3 DEF TypeOK
  <2>3. \A u \in Slot : pc'[u] = "exit" <=> pc[u] = "exit"
    BY Zenon, <1>2, <1>3 DEF TypeOK
  <2>4. ~ Live(t) /\ state'[t] # "ZOMBIE"
    BY Zenon, <1>1, <1>3 DEF Live, TypeOK
  <2>5. SwapFileKept'
    BY <2>1, <2>2, <2>3, <2>4, <1>3 DEF SwapFiles, SwapFileKept
  <2>6. \A u \in Slot : pc'[u] = "copyuvm" => u # s /\ pc[u] = "copyuvm" /\ np'[u] = np[u]
    BY Zenon, <1>3 DEF TypeOK
  <2>7. \A u \in Slot : np[u] # NoProc => np[u] \in Slot /\ np[u] # t
    BY <1>1 DEF TypeOK, Making
  <2>8. \A u \in Slot : np'[u] # NoProc /\ pc'[u] = "copyuvm" /\ pid'[np'[u]] > 2
                         => pid'[np'[u]] \in files'
    BY <2>2, <2>6, <2>7, <1>3 DEF SwapFiles
  <2>9. \A u \in Slot : Live(u)' /\ pc'[u] = "exit" => pid'[u] \notin files'
    BY <2>1, <2>2, <2>3, <2>4, <1>3 DEF SwapFiles
  <2>. QED BY Zenon, <2>5, <2>8, <2>9 DEF SwapFiles
<1>10. WakeupNotMissed'
  BY Zenon, <1>1, <1>3 DEF WakeupNotMissed, TypeOK
<1>. QED BY Zenon, <1>4, <1>5, <1>6, <1>7, <1>8, <1>9, <1>10 DEF IInv

(* allocproc gives the EMBRYO its swap file.                               *)
LEMMA Creates ==
  ASSUME IInv, NEW s \in Slot, createSwapFile(s)
  PROVE  IInv'
<1>. TypeOK /\ OneCpu /\ Family /\ Making /\ Pids /\ SwapFiles /\ WakeupNotMissed
  BY Zenon DEF IInv
<1>1. state[s] = "RUNNING" /\ pc[s] = "kstack"
  BY Zenon DEF createSwapFile, At
<1>2. /\ files' = IF pid[np[s]] > 2 THEN files \cup {pid[np[s]]} ELSE files
      /\ pc' = [pc EXCEPT ![s] = "copyuvm"]
      /\ UNCHANGED <<state, pid, parent, killed, chan, nextpid, running, scan, np, due, panicked>>
  BY Zenon DEF createSwapFile, Goto, table, cpus
<1>3. np[s] \in Slot /\ state[np[s]] = "EMBRYO"
  BY <1>1 DEF Making, TypeOK, Live
<1>4. TypeOK'
  <2>1. pid[np[s]] \in 0 .. MaxPid
    BY Zenon, <1>3 DEF TypeOK
  <2>2. pid[np[s]] > 2 => pid[np[s]] \in 3 .. MaxPid
    BY <2>1, PtableAssumption
  <2>3. files' \subseteq 3 .. MaxPid
    BY ZenonT(30), <2>2, <1>2 DEF TypeOK
  <2>. QED BY Zenon, <2>3, <1>2 DEF TypeOK
<1>5. OneCpu' /\ Pids' /\ WakeupNotMissed'
  BY SMTT(30), <1>2 DEF OneCpu, Pids, PidsUnique, WakeupNotMissed
<1>6. Family'
  BY SMTT(30), <1>1, <1>2 DEF Family, Exists, Live, TypeOK
<1>7. Making'
  <2>1. \A u \in Slot : pc'[u] \in {"kstack", "copyuvm"} <=> pc[u] \in {"kstack", "copyuvm"}
    BY Zenon, <1>1, <1>2 DEF TypeOK
  <2>. QED BY <2>1, <1>2 DEF Making, Live
<1>8. SwapFiles'
  <2>1. \A u \in Slot : pc'[u] = "exit" <=> pc[u] = "exit"
    BY Zenon, <1>1, <1>2 DEF TypeOK
  <2>2. \A u \in Slot : u # np[s] => (pid[u] \in files' <=> pid[u] \in files)
    BY <1>2, <1>3 DEF Pids, PidsUnique, TypeOK
  <2>3. files \subseteq files' /\ (pid[np[s]] > 2 => pid[np[s]] \in files')
    BY Zenon, <1>2
  <2>4. SwapFileKept'
    BY Zenon, <2>1, <2>2, <2>3, <1>2, <1>3 DEF SwapFiles, SwapFileKept, Live
  <2>5. \A u \in Slot : Live(u)' /\ pc'[u] = "exit" => pid'[u] \notin files'
    BY Zenon, <2>1, <2>2, <1>2, <1>3 DEF SwapFiles, Live
  <2>6. \A u \in Slot : u # s => pc'[u] = pc[u]
    BY Zenon, <1>2 DEF TypeOK
  <2>7. \A u \in Slot : np'[u] # NoProc /\ pc'[u] = "copyuvm" /\ pid'[np'[u]] > 2
                         => pid'[np'[u]] \in files'
    BY Zenon, <2>3, <2>6, <1>2 DEF SwapFiles
  <2>. QED BY Zenon, <2>4, <2>5, <2>7 DEF SwapFiles
<1>. QED BY Zenon, <1>4, <1>5, <1>6, <1>7, <1>8 DEF IInv

(* forkFails and fork let go of the process that was being made.           *)
LEMMA LetsGo ==
  ASSUME IInv, NEW s \in Slot, np[s] \in Slot, state[np[s]] = "EMBRYO", state[s] = "RUNNING",
         NEW l \in {"UNUSED", "RUNNABLE"}, state' = [state EXCEPT ![np[s]] = l],
         np' = [np EXCEPT ![s] = NoProc],
         \/ l = "UNUSED" /\ pc' = [pc EXCEPT ![s] = "user"]
         \/ pc' = [pc EXCEPT ![np[s]] = "user", ![s] = "user"]
  PROVE  Making'
<1>. TypeOK /\ Making
  BY Zenon DEF IInv
<1>1. s # np[s]
  OBVIOUS
<1>2. \A u \in Slot : u # s => np'[u] = np[u] /\ (u # np[s] => pc'[u] = pc[u] /\ state'[u] = state[u])
  BY Zenon DEF TypeOK
<1>3. np'[s] = NoProc /\ pc'[s] = "user" /\ state'[s] = "RUNNING" /\ state'[np[s]] = l
  BY Zenon, <1>1 DEF TypeOK
<1>4. np[np[s]] = NoProc
  BY Zenon DEF Making, Live
<1>10. l = "UNUSED" \/ pc'[np[s]] = "user"
  BY Zenon, <1>1 DEF TypeOK
<1>5. \A u \in Slot : u # s /\ np[u] # NoProc => np[u] \in Slot /\ np[u] # np[s] /\ np[u] # s
  BY Slots DEF Making, TypeOK
<1>6. \A u \in Slot : np'[u] # NoProc => state'[np'[u]] = "EMBRYO"
  BY <1>2, <1>3, <1>5 DEF Making
<1>7. \A u, v \in Slot : np'[u] = np'[v] /\ np'[u] # NoProc => u = v
  BY <1>2, <1>3 DEF Making
<1>8. \A u \in Slot : state'[u] = "EMBRYO" => \E v \in Slot : np'[v] = u
  <2>. SUFFICES ASSUME NEW u \in Slot, state'[u] = "EMBRYO"
                PROVE  \E v \in Slot : np'[v] = u
    OBVIOUS
  <2>1. u # np[s] /\ state[u] = "EMBRYO"
    BY Zenon, <1>2, <1>3
  <2>2. PICK v \in Slot : np[v] = u
    BY Zenon, <2>1 DEF Making
  <2>. QED BY Zenon, <2>1, <2>2, <1>2
<1>9. \A u \in Slot : np'[u] # NoProc <=> Live(u)' /\ pc'[u] \in {"kstack", "copyuvm"}
  <2>. SUFFICES ASSUME NEW u \in Slot
                PROVE  np'[u] # NoProc <=> Live(u)' /\ pc'[u] \in {"kstack", "copyuvm"}
    OBVIOUS
  <2>1. CASE u = s
    BY Zenon, <2>1, <1>3
  <2>2. CASE u = np[s]
    <3>1. np'[u] = NoProc
      BY Zenon, <2>2, <1>1, <1>2, <1>4
    <3>2. ~ (Live(u)' /\ pc'[u] \in {"kstack", "copyuvm"})
      BY Zenon, <2>2, <1>3, <1>10 DEF Live
    <3>. QED BY Zenon, <3>1, <3>2
  <2>3. CASE u # s /\ u # np[s]
    BY <2>3, <1>2 DEF Making, Live
  <2>. QED BY Zenon, <2>1, <2>2, <2>3
<1>. QED BY Zenon, <1>6, <1>7, <1>8, <1>9 DEF Making

(* A fork without memory gives the slot back.                              *)
LEMMA ForkFails ==
  ASSUME IInv, NEW s \in Slot, forkFails(s)
  PROVE  IInv'
<1>. TypeOK /\ OneCpu /\ Family /\ Making /\ Pids /\ SwapFiles /\ WakeupNotMissed
  BY Zenon DEF IInv
<1>1. state[s] = "RUNNING" /\ pc[s] \in {"kstack", "copyuvm"}
  BY Zenon DEF forkFails, At
<1>2. /\ state' = [state EXCEPT ![np[s]] = "UNUSED"]
      /\ np' = [np EXCEPT ![s] = NoProc] /\ pc' = [pc EXCEPT ![s] = "user"]
      /\ UNCHANGED <<pid, parent, killed, chan, nextpid, running, scan, due, files, panicked>>
  BY Zenon DEF forkFails, Goto, cpus
<1>3. np[s] \in Slot /\ state[np[s]] = "EMBRYO"
  BY <1>1 DEF Making, TypeOK, Live
<1>4. TypeOK'
  BY Zenon, <1>2, <1>3 DEF TypeOK, States
<1>5. OneCpu'
  BY ZenonT(40), <1>2, <1>3 DEF OneCpu, TypeOK
<1>6. Family'
  BY <1>1, <1>2, <1>3, Slots DEF Family, Exists, Live, TypeOK
<1>7. Making'
  BY ZenonT(30), <1>1, <1>2, <1>3, LetsGo
<1>8. Pids'
  BY Zenon, <1>2 DEF Pids, PidsUnique
<1>9. SwapFiles'
  <2>1. \A u \in Slot : (Live(u)' <=> Live(u)) /\ (state'[u] = "ZOMBIE" <=> state[u] = "ZOMBIE")
    BY Zenon, <1>2, <1>3 DEF Live, TypeOK
  <2>2. \A u \in Slot : pc'[u] = "exit" <=> pc[u] = "exit"
    BY Zenon, <1>1, <1>2 DEF TypeOK
  <2>3. SwapFileKept'
    BY Zenon, <2>1, <2>2, <1>2 DEF SwapFiles, SwapFileKept
  <2>4. \A u \in Slot : np'[u] # NoProc => np'[u] = np[u] /\ pc'[u] = pc[u]
    BY Zenon, <1>2 DEF TypeOK
  <2>. QED BY <2>1, <2>2, <2>3, <2>4, <1>2 DEF SwapFiles
<1>10. WakeupNotMissed'
  BY ZenonT(40), <1>2, <1>3 DEF WakeupNotMissed, TypeOK
<1>. QED BY Zenon, <1>4, <1>5, <1>6, <1>7, <1>8, <1>9, <1>10 DEF IInv

(* fork makes the EMBRYO a child of its process.                           *)
LEMMA Forks ==
  ASSUME IInv, NEW s \in Slot, fork(s)
  PROVE  IInv'
<1>. TypeOK /\ OneCpu /\ Family /\ Making /\ Pids /\ SwapFiles /\ WakeupNotMissed
  BY Zenon DEF IInv
<1>1. state[s] = "RUNNING" /\ pc[s] = "copyuvm"
  BY Zenon DEF fork, At
<1>2. /\ parent' = [parent EXCEPT ![np[s]] = s] /\ state' = [state EXCEPT ![np[s]] = "RUNNABLE"]
      /\ pc' = [pc EXCEPT ![np[s]] = "user", ![s] = "user"] /\ np' = [np EXCEPT ![s] = NoProc]
      /\ UNCHANGED <<pid, killed, chan, nextpid, running, scan, due, files, panicked>>
  BY Zenon DEF fork, cpus
<1>3. np[s] \in Slot /\ state[np[s]] = "EMBRYO"
  BY <1>1 DEF Making, TypeOK, Live
<1>4. np[s] # s /\ np[s] # initproc
  BY Zenon, <1>1, <1>3 DEF Family, Live
<1>5. /\ \A u \in Slot : u # np[s] => state'[u] = state[u] /\ parent'[u] = parent[u]
      /\ \A u \in Slot : u # np[s] /\ u # s => pc'[u] = pc[u]
      /\ state'[np[s]] = "RUNNABLE" /\ parent'[np[s]] = s
      /\ pc'[np[s]] = "user" /\ pc'[s] = "user"
  BY Zenon, <1>2, <1>3, <1>4 DEF TypeOK
<1>6. TypeOK'
  BY Zenon, <1>2, <1>3 DEF TypeOK, States
<1>7. OneCpu'
  BY SMTT(30), <1>2, <1>3, <1>5 DEF OneCpu
<1>8. Family'
  <2>1. Live(initproc)' /\ pc'[initproc] # "exit" /\ parent'[initproc] = NoProc
    BY Zenon, <1>1, <1>4, <1>5, Slots DEF Family, Live
  <2>2. \A u \in Slot : Live(u) => Live(u)'
    BY Zenon, <1>5 DEF Live
  <2>3. \A u \in Slot : u # np[s] => (Exists(u)' <=> Exists(u))
    BY Zenon, <1>5 DEF Exists, Live
  <2>4. ASSUME NEW u \in Slot, Exists(u)', u # initproc
        PROVE  parent'[u] \in Slot /\ parent'[u] # u /\ Live(parent[u])'
    <3>1. CASE u = np[s]
      BY Zenon, <3>1, <1>1, <1>4, <1>5 DEF Live
    <3>2. CASE u # np[s]
      BY ZenonT(40), <3>2, <2>2, <2>3, <2>4, <1>5 DEF Family
    <3>. QED BY Zenon, <3>1, <3>2
  <2>5. \A u \in Slot : ~ Exists(u)' => parent'[u] = NoProc
    BY <2>3, <1>5 DEF Family, Exists, Live
  <2>. QED BY Zenon, <2>1, <2>4, <2>5 DEF Family
<1>9. Making'
  BY ZenonT(30), <1>1, <1>2, <1>3, LetsGo
<1>10. Pids'
  BY Zenon, <1>2 DEF Pids, PidsUnique
<1>11. SwapFiles'
  <2>1. pid[np[s]] > 2 => pid[np[s]] \in files
    BY Zenon, <1>1, <1>3, Slots DEF SwapFiles
  <2>2. pid[s] > 2 => pid[s] \in files
    BY Zenon, <1>1 DEF SwapFiles, SwapFileKept, Live
  <2>6. ASSUME NEW u \in Slot, Live(u)', pid[u] > 2, pc'[u] # "exit"
        PROVE  pid[u] \in files
    <3>1. CASE u = np[s] \/ u = s
      BY Zenon, <3>1, <2>1, <2>2, <2>6
    <3>2. CASE u # np[s] /\ u # s
      BY Zenon, <3>2, <2>6, <1>5 DEF SwapFiles, SwapFileKept, Live
    <3>. QED BY Zenon, <3>1, <3>2
  <2>7. \A u \in Slot : state'[u] = "ZOMBIE" => pid[u] \notin files
    BY ZenonT(40), <1>5 DEF SwapFiles, SwapFileKept
  <2>3. SwapFileKept'
    BY ZenonT(30), <2>6, <2>7, <1>2 DEF SwapFileKept
  <2>4. \A u \in Slot : Live(u)' /\ pc'[u] = "exit" => pid'[u] \notin files'
    BY SMTT(30), <1>2, <1>5 DEF SwapFiles, Live
  <2>5. \A u \in Slot : np'[u] # NoProc /\ pc'[u] = "copyuvm" => np'[u] = np[u] /\ pc[u] = "copyuvm"
    BY ZenonT(40), <1>2, <1>3, Slots DEF TypeOK, Making
  <2>8. \A u \in Slot : np'[u] # NoProc /\ pc'[u] = "copyuvm" /\ pid'[np'[u]] > 2
                         => pid'[np'[u]] \in files'
    BY SMTT(30), <2>5, <1>2 DEF SwapFiles
  <2>. QED BY Zenon, <2>3, <2>4, <2>8 DEF SwapFiles
<1>12. WakeupNotMissed'
  BY <1>1, <1>2, <1>5 DEF WakeupNotMissed
<1>. QED BY Zenon, <1>6, <1>7, <1>8, <1>9, <1>10, <1>11, <1>12 DEF IInv

(* exit removes the swap file of its process, and nobody else's.           *)
LEMMA Removes ==
  ASSUME IInv, NEW s \in Slot, removeSwapFile(s)
  PROVE  IInv'
<1>. TypeOK /\ OneCpu /\ Family /\ Making /\ Pids /\ SwapFiles /\ WakeupNotMissed
  BY Zenon DEF IInv
<1>1. state[s] = "RUNNING" /\ pc[s] = "user"
  BY Zenon DEF removeSwapFile, At
<1>2. UNCHANGED <<state, pid, parent, killed, chan, nextpid, running, scan, np, due>>
  BY Zenon DEF removeSwapFile, table, cpus
<1>3. OneCpu' /\ Pids' /\ WakeupNotMissed'
  BY SMTT(30), <1>2 DEF OneCpu, Pids, PidsUnique, WakeupNotMissed
<1>4. CASE s = initproc
  <2>1. panicked' = TRUE /\ UNCHANGED <<files, pc>>
    BY Zenon, <1>4 DEF removeSwapFile
  <2>2. TypeOK'
    BY Zenon, <2>1, <1>2 DEF TypeOK
  <2>. QED BY Zenon, <2>1, <2>2, <1>2, <1>3, Steady DEF IInv
<1>5. CASE s # initproc
  <2>1. files' = files \ {pid[s]} /\ pc' = [pc EXCEPT ![s] = "exit"] /\ UNCHANGED panicked
    BY Zenon, <1>5 DEF removeSwapFile, Goto
  <2>2. TypeOK'
    BY ZenonT(30), <2>1, <1>2 DEF TypeOK
  <2>3. Family'
    BY <2>1, <1>2, <1>5, Slots DEF Family, Exists, Live, TypeOK
  <2>4. \A u \in Slot : u # s => pc'[u] = pc[u]
    BY Zenon, <2>1 DEF TypeOK
  <2>5. pc'[s] = "exit"
    BY Zenon, <2>1 DEF TypeOK
  <2>6. Making'
    BY <2>4, <2>5, <1>1, <1>2 DEF Making, Live
  <2>7. \A u \in Slot : u # s /\ pid[u] \in files => pid[u] \in files'
    BY <2>1 DEF TypeOK, Pids, PidsUnique
  <2>8. files' \subseteq files /\ pid[s] \notin files'
    BY Zenon, <2>1
  <2>9. SwapFileKept'
    BY Zenon, <2>4, <2>5, <2>7, <2>8, <1>2 DEF SwapFiles, SwapFileKept, Live
  <2>10. \A u \in Slot : Live(u)' /\ pc'[u] = "exit" => pid'[u] \notin files'
    BY Zenon, <2>4, <2>8, <1>2 DEF SwapFiles, Live
  <2>11. \A u \in Slot : np[u] # NoProc => np[u] \in Slot /\ np[u] # s
    BY <1>1 DEF Making, TypeOK
  <2>12. \A u \in Slot : np'[u] # NoProc /\ pc'[u] = "copyuvm" /\ pid'[np'[u]] > 2
                         => pid'[np'[u]] \in files'
    BY Zenon, <2>4, <2>5, <2>7, <2>11, <1>2 DEF SwapFiles
  <2>. QED BY Zenon, <2>2, <2>3, <2>6, <2>9, <2>10, <2>12, <1>3 DEF IInv, SwapFiles
<1>. QED BY Zenon, <1>4, <1>5

(* exit passes the children on to init, and wakes whoever may now wait for *)
(* a zombie.                                                               *)
LEMMA Exits ==
  ASSUME IInv, NEW s \in Slot, exit(s)
  PROVE  IInv'
<1>. TypeOK /\ OneCpu /\ Family /\ Making /\ Pids /\ SwapFiles /\ WakeupNotMissed
  BY Zenon DEF IInv
<1>. DEFINE zombies == {t \in Slot : parent[t] = s /\ state[t] = "ZOMBIE"}
            woken == Woken({parent[s]} \cup (IF zombies = {} THEN {} ELSE {initproc}))
<1>1. state[s] = "RUNNING" /\ pc[s] = "exit"
  BY Zenon DEF exit, At
<1>2. /\ state' = [t \in Slot |-> IF t = s THEN "ZOMBIE"
                                 ELSE IF t \in woken THEN "RUNNABLE" ELSE state[t]]
      /\ parent' = [t \in Slot |-> IF parent[t] = s THEN initproc ELSE parent[t]]
      /\ running' = [c \in CPU |-> IF running[c] = s THEN NoProc ELSE running[c]]
      /\ UNCHANGED <<pid, killed, chan, nextpid, scan, pc, np, due, files, panicked>>
  BY Zenon DEF exit, sched
<1>3. s # initproc
  BY Zenon, <1>1 DEF Family
<1>4. \A t \in woken : t \in Slot /\ state[t] = "SLEEPING"
  BY Zenon DEF Woken
<1>5. /\ state'[s] = "ZOMBIE"
      /\ \A t \in Slot : t # s => state'[t] = state[t]
                                   \/ (state[t] = "SLEEPING" /\ state'[t] = "RUNNABLE")
  BY Zenon, <1>2, <1>4
<1>6. \A t \in Slot : t # s => (Live(t)' <=> Live(t)) /\ (Exists(t)' <=> Exists(t))
  BY Zenon, <1>5 DEF Live, Exists
<1>7. TypeOK'
  <2>1. state' \in [Slot -> States]
    BY Zenon, <1>2 DEF TypeOK, States
  <2>. QED BY Zenon, <2>1, <1>2, Slots DEF TypeOK
<1>8. OneCpu'
  <2>1. \A t \in Slot : state'[t] = "RUNNING" <=> t # s /\ state[t] = "RUNNING"
    BY Zenon, <1>5
  <2>2. \A c \in CPU : running'[c] = IF running[c] = s THEN NoProc ELSE running[c]
    BY Zenon, <1>2
  <2>3. \A t \in Slot : (\E c \in CPU : running'[c] = t) <=> t # s /\ \E c \in CPU : running[c] = t
    BY Zenon, <2>2, Slots
  <2>4. \A c, d \in CPU : running'[c] = running'[d] /\ running'[c] # NoProc => c = d
    BY Zenon, <2>2 DEF OneCpu
  <2>. QED BY Zenon, <2>1, <2>3, <2>4 DEF OneCpu
<1>9. Family'
  <2>1. Live(initproc)' /\ pc'[initproc] # "exit" /\ parent'[initproc] = NoProc
    BY Zenon, <1>2, <1>3, <1>6, Slots DEF Family
  <2>2. ASSUME NEW t \in Slot, Exists(t)', t # initproc
        PROVE  parent'[t] \in Slot /\ parent'[t] # t /\ Live(parent[t])'
    <3>1. parent[t] \in Slot /\ parent[t] # t /\ Live(parent[t])
      BY Zenon, <2>2, <1>1, <1>6 DEF Family, Exists, Live
    <3>2. CASE parent[t] = s
      BY Zenon, <3>2, <2>1, <2>2, <1>2, Slots
    <3>3. CASE parent[t] # s
      BY Zenon, <3>1, <3>3, <1>2, <1>6
    <3>. QED BY Zenon, <3>2, <3>3
  <2>3. ASSUME NEW t \in Slot, ~ Exists(t)'
        PROVE  parent'[t] = NoProc
    <3>1. t # s /\ ~ Exists(t)
      BY Zenon, <2>3, <1>5, <1>6 DEF Exists
    <3>2. parent[t] = NoProc
      BY Zenon, <3>1 DEF Family
    <3>. QED BY Zenon, <3>2, <1>2, Slots
  <2>. QED BY Zenon, <2>1, <2>2, <2>3 DEF Family
<1>10. Making'
  <2>1. \A t \in Slot : np[t] # NoProc => np[t] \in Slot /\ np[t] # s
    BY SMTT(30), <1>1 DEF Making, TypeOK
  <2>2. \A t \in Slot : np'[t] # NoProc <=> Live(t)' /\ pc'[t] \in {"kstack", "copyuvm"}
    BY Zenon, <1>1, <1>2, <1>6 DEF Making, Live
  <2>3. \A t \in Slot : state'[t] = "EMBRYO" <=> state[t] = "EMBRYO"
    BY Zenon, <1>1, <1>5
  <2>4. \A t \in Slot : np'[t] # NoProc => state'[np'[t]] = "EMBRYO"
    BY Zenon, <2>1, <2>3, <1>2 DEF Making
  <2>5. \A t \in Slot : state'[t] = "EMBRYO" => \E u \in Slot : np'[u] = t
    BY Zenon, <2>3, <1>2 DEF Making
  <2>6. \A t, u \in Slot : np'[t] = np'[u] /\ np'[t] # NoProc => t = u
    BY Zenon, <1>2 DEF Making
  <2>. QED BY Zenon, <2>2, <2>4, <2>5, <2>6 DEF Making
<1>11. Pids'
  BY Zenon, <1>2 DEF Pids, PidsUnique
<1>12. SwapFiles'
  <2>1. ~ Live(s)' /\ pid[s] \notin files
    BY Zenon, <1>1, <1>5 DEF SwapFiles, Live
  <2>2. \A t \in Slot : t # s => (state'[t] = "ZOMBIE" <=> state[t] = "ZOMBIE")
    BY Zenon, <1>5
  <2>. QED BY Zenon, <2>1, <2>2, <1>2, <1>6 DEF SwapFiles, SwapFileKept
<1>13. WakeupNotMissed'
  <2>. SUFFICES ASSUME NEW u \in Slot, state'[u] = "SLEEPING", chan[u] = u,
                       NEW t \in Slot, parent'[t] = u, state'[t] = "ZOMBIE"
                PROVE  FALSE
    BY ZenonT(30), <1>2 DEF WakeupNotMissed
  <2>1. u # s /\ state[u] = "SLEEPING" /\ u \notin woken
    BY Zenon, <1>2, <1>4, <1>5
  <2>2. u # parent[s] /\ (zombies # {} => u # initproc)
    BY Zenon, <2>1 DEF Woken
  <2>3. CASE t = s
    BY Zenon, <2>2, <2>3, <1>2, <1>1 DEF Family, Exists, Live
  <2>4. CASE t # s /\ parent[t] = s
    <3>1. t \in zombies
      BY Zenon, <2>4, <1>5
    <3>. QED BY Zenon, <3>1, <2>2, <2>4, <1>2
  <2>5. CASE t # s /\ parent[t] # s
    BY Zenon, <2>1, <2>5, <1>2, <1>5 DEF WakeupNotMissed
  <2>. QED BY Zenon, <2>3, <2>4, <2>5
<1>. QED BY Zenon, <1>7, <1>8, <1>9, <1>10, <1>11, <1>12, <1>13 DEF IInv

(* What sched does to a process that goes to sleep, in wait or sys_sleep.  *)
LEMMA GoesToSleep ==
  ASSUME IInv, NEW s \in Slot, state[s] = "RUNNING", pc[s] \in Neutral, NEW l \in {"wait", "ticks"},
         NEW ch \in Slot \cup {Ticks}, ch = s => \A t \in Slot : parent[t] = s => state[t] # "ZOMBIE",
         ch \in Slot => ch = s,
         state' = [state EXCEPT ![s] = "SLEEPING"], chan' = [chan EXCEPT ![s] = ch],
         sched(s), pc' = [pc EXCEPT ![s] = l],
         UNCHANGED <<pid, parent, killed, nextpid, scan, np, due, files, panicked>>
  PROVE  IInv'
<1>. TypeOK /\ OneCpu /\ WakeupNotMissed
  BY Zenon DEF IInv
<1>1. \A c \in CPU : running'[c] = IF running[c] = s THEN NoProc ELSE running[c]
  BY Zenon DEF sched
<1>2. \A t \in Slot : t # s => state'[t] = state[t] /\ pc'[t] = pc[t] /\ chan'[t] = chan[t]
  BY Zenon DEF TypeOK
<1>3. state'[s] = "SLEEPING" /\ pc'[s] = l /\ chan'[s] = ch
  BY Zenon DEF TypeOK
<1>4. TypeOK'
  <2>1. running' \in [CPU -> Slot \cup {NoProc}]
    BY Zenon DEF sched, TypeOK
  <2>2. state' \in [Slot -> States] /\ chan' \in [Slot -> 0 .. NPROC + 1]
    BY Zenon, Slots DEF TypeOK, States
  <2>3. pc' \in [Slot -> {"user", "kstack", "copyuvm", "exit", "wait", "tickslock", "ticks"}]
    BY Zenon DEF TypeOK
  <2>. QED BY Zenon, <2>1, <2>2, <2>3 DEF TypeOK
<1>5. OneCpu'
  <2>1. \A t \in Slot : state'[t] = "RUNNING" <=> t # s /\ state[t] = "RUNNING"
    BY Zenon, <1>2, <1>3
  <2>2. \A t \in Slot : (\E c \in CPU : running'[c] = t) <=> t # s /\ \E c \in CPU : running[c] = t
    BY Zenon, <1>1, Slots
  <2>3. \A c, d \in CPU : running'[c] = running'[d] /\ running'[c] # NoProc => c = d
    BY SMTT(30), <1>1 DEF OneCpu
  <2>. QED BY Zenon, <2>1, <2>2, <2>3 DEF OneCpu
<1>6. Family' /\ Making' /\ Pids' /\ SwapFiles'
  <2>1. \A t \in Slot : state'[t] = state[t] \/ (Live(t) /\ Live(t)')
    BY Zenon, <1>2, <1>3 DEF Live
  <2>2. \A t \in Slot : pc'[t] = pc[t] \/ (pc[t] \in Neutral /\ pc'[t] \in Neutral)
    BY Zenon, <1>2, <1>3 DEF Neutral
  <2>. QED BY Zenon, <2>1, <2>2, Steady
<1>7. WakeupNotMissed'
  BY SMTT(30), <1>2, <1>3 DEF WakeupNotMissed
<1>. QED BY Zenon, <1>4, <1>5, <1>6, <1>7 DEF IInv

(* wait frees a zombie, returns, or goes to sleep when there is no zombie. *)
LEMMA Waits ==
  ASSUME IInv, NEW s \in Slot, wait(s)
  PROVE  IInv'
<1>. TypeOK /\ OneCpu /\ Family /\ Making /\ Pids /\ SwapFiles /\ WakeupNotMissed
  BY Zenon DEF IInv
<1>. DEFINE kids == {t \in Slot : parent[t] = s}
            zombies == {t \in kids : state[t] = "ZOMBIE"}
<1>1. state[s] = "RUNNING" /\ pc[s] \in {"user", "wait"}
  BY Zenon DEF wait, InUser, At
<1>2. UNCHANGED <<nextpid, scan, np, due, files, panicked>>
  BY Zenon DEF wait
<1>3. ASSUME NEW z \in Lowest(zombies),
             state' = [state EXCEPT ![z] = "UNUSED"],
             pid' = [pid EXCEPT ![z] = 0], parent' = [parent EXCEPT ![z] = NoProc],
             killed' = [killed EXCEPT ![z] = FALSE], pc' = [pc EXCEPT ![s] = "user"],
             UNCHANGED <<chan, running>>
      PROVE  IInv'
  <2>1. z \in Slot /\ parent[z] = s /\ state[z] = "ZOMBIE"
    BY Zenon DEF Lowest
  <2>2. /\ state' = [state EXCEPT ![z] = "UNUSED"]
        /\ pid' = [pid EXCEPT ![z] = 0] /\ parent' = [parent EXCEPT ![z] = NoProc]
        /\ killed' = [killed EXCEPT ![z] = FALSE] /\ pc' = [pc EXCEPT ![s] = "user"]
        /\ UNCHANGED <<chan, running>>
    BY Zenon, <1>3
  <2>3. /\ state'[z] = "UNUSED" /\ pid'[z] = 0 /\ parent'[z] = NoProc
        /\ \A t \in Slot : t # z => state'[t] = state[t] /\ pid'[t] = pid[t] /\ parent'[t] = parent[t]
        /\ \A t \in Slot : pc'[t] = pc[t] \/ (t = s /\ pc'[t] = "user")
    BY Zenon, <2>1, <2>2 DEF TypeOK
  <2>4. TypeOK'
    BY SMTT(30), <2>1, <2>2, <1>2, Slots, PtableAssumption DEF TypeOK, States
  <2>5. OneCpu'
    BY SMTT(30), <2>1, <2>2, <2>3 DEF OneCpu
  <2>6. \A t \in Slot : t # z => (Live(t)' <=> Live(t)) /\ (Exists(t)' <=> Exists(t))
    BY Zenon, <2>3 DEF Live, Exists
  <2>7. ~ Live(z) /\ ~ Live(z)' /\ ~ Exists(z)'
    BY Zenon, <2>1, <2>3 DEF Live, Exists
  <2>8. Family'
    <3>1. initproc # z
      BY Zenon, <2>7, Slots DEF Family
    <3>2. Live(initproc)' /\ pc'[initproc] # "exit" /\ parent'[initproc] = NoProc
      BY Zenon, <3>1, <2>3, <2>6, Slots DEF Family
    <3>3. ASSUME NEW t \in Slot, Exists(t)', t # initproc
          PROVE  parent'[t] \in Slot /\ parent'[t] # t /\ Live(parent[t])'
      <4>1. t # z /\ Exists(t)
        BY Zenon, <3>3, <2>6, <2>7
      <4>2. parent[t] \in Slot /\ parent[t] # t /\ Live(parent[t])
        BY Zenon, <4>1, <3>3 DEF Family
      <4>. QED BY Zenon, <4>1, <4>2, <2>3, <2>6, <2>7
    <3>4. \A t \in Slot : ~ Exists(t)' => parent'[t] = NoProc
      BY Zenon, <2>3, <2>6 DEF Family
    <3>. QED BY Zenon, <3>2, <3>3, <3>4 DEF Family
  <2>9. Making'
    <3>1. \A t \in Slot : np'[t] # NoProc <=> Live(t)' /\ pc'[t] \in {"kstack", "copyuvm"}
      BY Zenon, <2>3, <2>6, <2>7, <1>1, <1>2 DEF Making
    <3>2. \A t \in Slot : np[t] # NoProc => np[t] \in Slot /\ np[t] # z
      BY <2>1 DEF Making, TypeOK
    <3>3. \A t \in Slot : state'[t] = "EMBRYO" <=> state[t] = "EMBRYO"
      BY Zenon, <2>1, <2>3
    <3>. QED BY SMTT(30), <3>1, <3>2, <3>3, <1>2 DEF Making
  <2>10. Pids'
    BY SMTT(30), <2>3, <1>2 DEF Pids, PidsUnique, TypeOK
  <2>11. SwapFiles'
    <3>1. \A t \in Slot : np[t] # NoProc => np[t] \in Slot /\ np[t] # z
      BY SMTT(30), <2>1 DEF Making, TypeOK
    <3>2. SwapFileKept'
      BY SMTT(30), <2>3, <2>6, <2>7, <1>1, <1>2 DEF SwapFiles, SwapFileKept
    <3>3. \A t \in Slot : Live(t)' /\ pc'[t] = "exit" => pid'[t] \notin files'
      BY Zenon, <2>3, <2>6, <2>7, <1>2 DEF SwapFiles
    <3>4. \A t \in Slot : np'[t] # NoProc /\ pc'[t] = "copyuvm" /\ pid'[np'[t]] > 2
                           => pid'[np'[t]] \in files'
      BY Zenon, <3>1, <2>3, <1>2 DEF SwapFiles
    <3>. QED BY Zenon, <3>2, <3>3, <3>4 DEF SwapFiles
  <2>12. WakeupNotMissed'
    BY <2>1, <2>2, <2>3 DEF WakeupNotMissed
  <2>. QED BY Zenon, <2>4, <2>5, <2>8, <2>9, <2>10, <2>11, <2>12 DEF IInv
<1>4. CASE pc' = [pc EXCEPT ![s] = "user"] /\ UNCHANGED <<state, pid, parent, killed, chan, running>>
  <2>1. TypeOK'
    BY Zenon, <1>2, <1>4 DEF TypeOK
  <2>2. OneCpu' /\ WakeupNotMissed'
    BY Zenon, <1>4 DEF OneCpu, WakeupNotMissed
  <2>3. Family' /\ Making' /\ Pids' /\ SwapFiles'
    BY Zenon, <1>1, <1>2, <1>4, Steady DEF Neutral, TypeOK
  <2>. QED BY Zenon, <2>1, <2>2, <2>3 DEF IInv
<1>5. CASE /\ zombies = {}
           /\ state' = [state EXCEPT ![s] = "SLEEPING"] /\ chan' = [chan EXCEPT ![s] = s]
           /\ pc' = [pc EXCEPT ![s] = "wait"] /\ sched(s) /\ UNCHANGED <<pid, parent, killed>>
  <2>1. \A t \in Slot : parent[t] = s => state[t] # "ZOMBIE"
    BY Zenon, <1>5
  <2>. QED BY ZenonT(30), <2>1, <1>1, <1>2, <1>5, GoesToSleep DEF Neutral
<1>. QED BY Zenon, <1>3, <1>4, <1>5 DEF wait, Scan, Goto

(* kill wakes its victim.                                                  *)
LEMMA Kills ==
  ASSUME IInv, NEW s \in Slot, NEW n \in 0 .. MaxPid, kill(s, n)
  PROVE  IInv'
<1>. TypeOK /\ OneCpu /\ WakeupNotMissed
  BY Zenon DEF IInv
<1>0. PICK t \in Slot :
        /\ killed' = [killed EXCEPT ![t] = TRUE]
        /\ state' = [state EXCEPT ![t] = IF @ = "SLEEPING" THEN "RUNNABLE" ELSE @]
  BY Zenon DEF kill, Lowest
<1>2. /\ killed' = [killed EXCEPT ![t] = TRUE]
      /\ state' = [state EXCEPT ![t] = IF @ = "SLEEPING" THEN "RUNNABLE" ELSE @]
      /\ UNCHANGED <<pid, parent, chan, nextpid, running, scan, pc, np, due, files, panicked>>
  BY Zenon, <1>0 DEF kill, cpus
<1>3. \A u \in Slot : state'[u] = state[u] \/ (state[u] = "SLEEPING" /\ state'[u] = "RUNNABLE")
  BY Zenon, <1>2 DEF TypeOK
<1>4. TypeOK'
  BY Zenon, <1>2 DEF TypeOK, States
<1>5. OneCpu'
  BY SMTT(30), <1>2, <1>3 DEF OneCpu
<1>6. Family' /\ Making' /\ Pids' /\ SwapFiles'
  BY Zenon, <1>2, <1>3, Steady DEF Live
<1>7. WakeupNotMissed'
  BY ZenonT(40), <1>2, <1>3 DEF WakeupNotMissed
<1>. QED BY Zenon, <1>4, <1>5, <1>6, <1>7 DEF IInv

(* sys_sleep tests its condition, or goes to sleep on the ticks.           *)
LEMMA Sleeps ==
  ASSUME IInv, NEW s \in Slot, sys_sleep(s) \/ sleep(s)
  PROVE  IInv'
<1>. TypeOK /\ OneCpu /\ WakeupNotMissed
  BY Zenon DEF IInv
<1>1. CASE sys_sleep(s)
  <2>1. pc[s] \in Neutral
    BY Zenon, <1>1 DEF sys_sleep, InUser, At, Neutral
  <2>2. PICK l \in {"user", "tickslock"} : pc' = [pc EXCEPT ![s] = l]
    BY ZenonT(30), <1>1 DEF sys_sleep, Goto
  <2>3. /\ due' = [due EXCEPT ![s] = FALSE]
        /\ UNCHANGED <<state, pid, parent, killed, chan, nextpid, running, scan, np, files,
                        panicked>>
    BY Zenon, <1>1 DEF sys_sleep, table, cpus
  <2>4. TypeOK'
    BY Zenon, <2>2, <2>3 DEF TypeOK
  <2>5. OneCpu' /\ WakeupNotMissed'
    BY Zenon, <2>3 DEF OneCpu, WakeupNotMissed
  <2>6. Family' /\ Making' /\ Pids' /\ SwapFiles'
    BY Zenon, <2>1, <2>2, <2>3, Steady DEF TypeOK, Neutral
  <2>. QED BY Zenon, <2>4, <2>5, <2>6 DEF IInv
<1>2. CASE sleep(s)
  <2>1. state[s] = "RUNNING" /\ pc[s] \in Neutral
    BY Zenon, <1>2 DEF sleep, At, Neutral
  <2>2. /\ state' = [state EXCEPT ![s] = "SLEEPING"] /\ chan' = [chan EXCEPT ![s] = Ticks]
        /\ sched(s) /\ pc' = [pc EXCEPT ![s] = "ticks"]
        /\ UNCHANGED <<pid, parent, killed, nextpid, scan, np, due, files, panicked>>
    BY Zenon, <1>2 DEF sleep, Goto
  <2>. QED BY ZenonT(30), <2>1, <2>2, Slots, GoesToSleep
<1>. QED BY Zenon, <1>1, <1>2

(* The timer interrupt wakes those who sleep on the ticks.                 *)
LEMMA Ticks_ ==
  ASSUME IInv, tick
  PROVE  IInv'
<1>. TypeOK /\ OneCpu /\ WakeupNotMissed
  BY Zenon DEF IInv
<1>1. /\ due' = [t \in Slot |-> due[t] \/ pc[t] = "ticks"]
      /\ state' = [t \in Slot |-> IF t \in Woken({Ticks}) THEN "RUNNABLE" ELSE state[t]]
      /\ UNCHANGED <<pid, parent, killed, chan, nextpid, running, scan, pc, np, files, panicked>>
  BY Zenon DEF tick, cpus
<1>2. \A u \in Slot : state'[u] = state[u] \/ (state[u] = "SLEEPING" /\ state'[u] = "RUNNABLE")
  BY Zenon, <1>1 DEF Woken
<1>3. TypeOK'
  <2>1. state' \in [Slot -> States] /\ due' \in [Slot -> BOOLEAN]
    BY Zenon, <1>1 DEF TypeOK, States
  <2>. QED BY ZenonT(30), <2>1, <1>1 DEF TypeOK
<1>4. OneCpu'
  BY ZenonT(40), <1>1, <1>2 DEF OneCpu
<1>5. Family' /\ Making' /\ Pids' /\ SwapFiles'
  BY Zenon, <1>1, <1>2, Steady DEF Live
<1>6. WakeupNotMissed'
  BY Zenon, <1>1, <1>2 DEF WakeupNotMissed
<1>. QED BY Zenon, <1>3, <1>4, <1>5, <1>6 DEF IInv
-----------------------------------------------------------------------------
(* The table that userinit leaves has the invariant.                       *)
LEMMA Starts == Init => IInv
<1>. SUFFICES ASSUME Init PROVE IInv
  OBVIOUS
<1>1. TypeOK
  <2>1. pid \in [Slot -> 0 .. MaxPid] /\ nextpid \in 2 .. MaxPid + 1
    BY PtableAssumption DEF Init
  <2>2. running \in [CPU -> Slot \cup {NoProc}] /\ scan \in [CPU -> 1 .. NPROC + 1]
    BY Zenon, Slots DEF Init
  <2>3. state \in [Slot -> States] /\ parent \in [Slot -> Slot \cup {NoProc}]
        /\ chan \in [Slot -> 0 .. NPROC + 1] /\ np \in [Slot -> Slot \cup {NoProc}]
    BY Zenon, Slots DEF Init, States
  <2>. QED BY ZenonT(30), <2>1, <2>2, <2>3 DEF Init, TypeOK
<1>2. OneCpu /\ WakeupNotMissed
  BY Zenon, Slots DEF Init, OneCpu, WakeupNotMissed
<1>3. Family
  BY Zenon, Slots DEF Init, Family, Exists, Live
<1>4. Making /\ Pids /\ SwapFiles
  BY Slots DEF Init, Making, Live, Pids, PidsUnique, SwapFiles, SwapFileKept
<1>. QED BY Zenon, <1>1, <1>2, <1>3, <1>4 DEF IInv

(* The inductive invariant: TypeOK and what the actions rely on.           *)
THEOREM Invariant == Spec => []IInv
<1>1. IInv /\ [Next]_vars => IInv'
  <2>. SUFFICES ASSUME IInv, [Next]_vars PROVE IInv'
    OBVIOUS
  <2>1. CASE UNCHANGED vars
    <3>1. UNCHANGED <<state, pid, parent, killed, chan, nextpid, running, scan, pc, np, due,
                      files, panicked>>
      BY Zenon, <2>1 DEF vars, table, cpus
    <3>2. TypeOK' /\ OneCpu' /\ WakeupNotMissed'
      BY SMTT(30), <3>1 DEF IInv, TypeOK, OneCpu, WakeupNotMissed
    <3>3. Family' /\ Making' /\ Pids' /\ SwapFiles'
      BY Zenon, <3>1, Steady
    <3>. QED BY Zenon, <3>2, <3>3 DEF IInv
  <2>2. ASSUME NEW c \in CPU, scheduler(c) PROVE IInv'
    BY Zenon, <2>2, Schedules
  <2>3. ASSUME NEW s \in Slot, Kernel(s) PROVE IInv'
    BY Zenon, <2>3, Creates, ForkFails, Forks, Exits, Waits, Sleeps, Removes DEF Kernel
  <2>4. ASSUME NEW s \in Slot,
               yield(s) \/ allocproc(s) \/ wait(s) \/ sys_sleep(s) \/ removeSwapFile(s)
        PROVE  IInv'
    BY Zenon, <2>4, Yields, Allocates, Waits, Sleeps, Removes
  <2>5. ASSUME NEW s \in Slot, NEW n \in 0 .. MaxPid, kill(s, n) PROVE IInv'
    BY Zenon, <2>5, Kills
  <2>6. CASE tick
    BY Zenon, <2>6, Ticks_
  <2>. QED BY Zenon, <2>1, <2>2, <2>3, <2>4, <2>5, <2>6 DEF Next
<1>. QED BY <1>1, Starts, PTL DEF Spec

(* On any number of CPUs, a process runs on one at a time, and what a CPU  *)
(* runs is RUNNING (scheduler and sched).                                  *)
THEOREM OneCpuAlways == Spec => []OneCpu
<1>1. IInv => OneCpu
  BY Zenon DEF IInv
<1>. QED BY <1>1, Invariant, PTL

(* In a table of any size nobody is left without a parent that can wait    *)
(* for it, and no EMBRYO without the fork that makes it (fork, exit, wait).*)
THEOREM FamilyTreeAlways == Spec => []FamilyTree
<1>1. IInv => FamilyTree
  <2>. SUFFICES ASSUME IInv PROVE FamilyTree
    OBVIOUS
  <2>1. TypeOK /\ Family /\ Making
    BY Zenon DEF IInv
  <2>2. \A t \in Slot : state[t] = "EMBRYO" <=> \E s \in Slot : Live(s) /\ np[s] = t
    BY <2>1, Slots DEF Making
  <2>. QED BY Zenon, <2>1, <2>2 DEF FamilyTree, Family, Making, Exists
<1>. QED BY <1>1, Invariant, PTL

(* A parent never sleeps in wait beside a zombie of its own, though the    *)
(* zombie may come to it in exit of a third process.                       *)
THEOREM WakeupNotMissedAlways == Spec => []WakeupNotMissed
<1>1. IInv => WakeupNotMissed
  BY Zenon DEF IInv
<1>. QED BY <1>1, Invariant, PTL

(* Swap files come and go with their processes (allocproc, exit).          *)
THEOREM SwapFileKeptAlways == Spec => []SwapFileKept
<1>1. IInv => SwapFileKept
  BY Zenon DEF IInv, SwapFiles
<1>. QED BY <1>1, Invariant, PTL

(* allocproc never gives out a pid that is in the table.                   *)
THEOREM PidsUniqueAlways == Spec => []PidsUnique
<1>1. IInv => PidsUnique
  BY Zenon DEF IInv, Pids
<1>. QED BY <1>1, Invariant, PTL
=============================================================================
