--------------------------- MODULE SpinlockProofs ---------------------------
(***************************************************************************)
(* Spin locks exclude, and no CPUs spin for ever, for any number of CPUs   *)
(* and locks and whenever interrupts come.                                 *)
(***************************************************************************)
EXTENDS Spinlock, TLAPS

(* What the proofs need of the constants: lk->cpu tells no CPU from one.   *)
Apart == NoCpu \notin CPU

(* A lock that is taken while another one is held.                         *)
Before(j, k) == <<Class[j], Class[k]>> \in Nest

(* Where an acquire or a release has interrupts turned off.                *)
Off == {"holding", "xchg", "mine", "nocpu", "popcli"}

(* A stack frame of a CPU: where it is, the lock it is about, those it has.*)
FrameType ==
  [pc : Off \cup {"run", "cli"}, lk : Locks \cup {NoLock}, held : Seq(Locks), eflags : BOOLEAN]

TypeOK ==
  /\ locked \in [Locks -> {0, 1}] /\ cpu \in [Locks -> CPU \cup {NoCpu}]
  /\ IF_ \in [CPU -> BOOLEAN] /\ ncli \in [CPU -> Nat] /\ intena \in [CPU -> BOOLEAN]
  /\ stack \in [CPU -> Seq(FrameType)] /\ \A c \in CPU : Len(stack[c]) \in 1 .. 2
  /\ panicked = FALSE

(* One CPU: its frame f, how many it has, its interrupt flag, struct cpu.  *)
Counts(f, depth, if, n, intr) ==
  /\ n = IF f.pc \in Off THEN Len(f.held) + 1 ELSE Len(f.held)
  /\ if <=> n = 0 /\ depth = 1
  /\ n > 0 => (intr <=> depth = 1)
  /\ f.pc = "cli" => (f.eflags <=> n = 0 /\ depth = 1)

(* The code that a handler has interrupted.                                *)
Interrupted(f) ==
  /\ f.held = <<>> /\ f.pc \in {"run", "cli"}
  /\ f.pc = "cli" => f.eflags /\ f.lk \in Locks

(* Locks are taken one inside another as Nest has it.                      *)
InOrder(f) ==
  /\ \A i, j \in 1 .. Len(f.held) : i < j => Before(f.held[i], f.held[j])
  /\ f.pc \in {"cli", "holding", "xchg", "mine"}
       => f.lk \in Locks /\ \A i \in 1 .. Len(f.held) : Before(f.held[i], f.lk)
  /\ f.pc = "nocpu" => f.lk \in Locks /\ \A i \in 1 .. Len(f.held) : f.held[i] # f.lk

(* The locks whose owner is a frame; those it has taken, with or without   *)
(* its name in lk->cpu yet.                                                *)
Owns(f, k) == \E i \in 1 .. Len(f.held) : f.held[i] = k
Has(f, k) == Owns(f, k) \/ (f.pc \in {"mine", "nocpu"} /\ f.lk = k)

(* The locks agree with what the CPUs are doing.                           *)
Locked ==
  /\ \A k \in Locks : locked[k] = 1 <=> \E c \in CPU : Has(Now(c), k)
  /\ \A k \in Locks, c, d \in CPU : Has(Now(c), k) /\ Has(Now(d), k) => c = d
  /\ \A k \in Locks, c \in CPU : cpu[k] = c <=> Owns(Now(c), k)

(* The inductive invariant.  That interrupts stay off needs ncli to count  *)
(* the locks held and the acquire or release under way; that a handler's   *)
(* popcli never turns them on early needs that what it interrupted had     *)
(* no lock.                                                                *)
IInv ==
  /\ TypeOK /\ Locked
  /\ \A c \in CPU : /\ Counts(Now(c), Depth(c), IF_[c], ncli[c], intena[c]) /\ InOrder(Now(c))
                    /\ Len(stack[c]) = 2 => Interrupted(stack[c][1])
-----------------------------------------------------------------------------
(* No lock is taken inside itself, and at most three inside one another.   *)
LEMMA Nestings ==
  ASSUME NEW i, NEW j, NEW k, NEW l
  PROVE  ~ (<<i, j>> \in Nest /\ <<j, k>> \in Nest /\ <<k, l>> \in Nest) /\ <<i, i>> \notin Nest
  BY DEF Nest, Sleeps

LEMMA NotItself == ASSUME NEW k PROVE ~ Before(k, k)
  BY Zenon, Nestings DEF Before

(* The elements of a sequence.                                             *)
LEMMA Element ==
  ASSUME NEW S, NEW s \in Seq(S), NEW n \in 1 .. Len(s)
  PROVE  s[n] \in S
  OBVIOUS

(* One element of a sequence replaced.                                     *)
LEMMA Replaced ==
  ASSUME NEW S, NEW s \in Seq(S), NEW n \in 1 .. Len(s), NEW x \in S,
         NEW t, t = [s EXCEPT ![n] = x]
  PROVE  /\ t \in Seq(S) /\ Len(t) = Len(s)
         /\ \A j \in 1 .. Len(s) : t[j] = IF j = n THEN x ELSE s[j]
  OBVIOUS

(* One element more.                                                       *)
LEMMA Longer ==
  ASSUME NEW S, NEW s \in Seq(S), NEW x \in S, NEW t, t = Append(s, x)
  PROVE  /\ t \in Seq(S) /\ Len(t) = Len(s) + 1 /\ t[Len(s) + 1] = x
         /\ \A i \in 1 .. Len(s) : t[i] = s[i]
  OBVIOUS

(* A part of a sequence.                                                   *)
LEMMA Part ==
  ASSUME NEW S, NEW s, NEW m \in Int, NEW n \in Int, \A i \in m .. n : s[i] \in S, m <= n + 1,
         NEW t, t = SubSeq(s, m, n)
  PROVE  /\ t \in Seq(S) /\ Len(t) = n - m + 1
         /\ \A i \in 1 .. n - m + 1 : t[i] = s[m + i - 1]
  OBVIOUS

(* Two sequences joined.                                                   *)
LEMMA Joined ==
  ASSUME NEW S, NEW s \in Seq(S), NEW t \in Seq(S), NEW u, u = s \o t
  PROVE  /\ u \in Seq(S) /\ Len(u) = Len(s) + Len(t)
         /\ \A i \in 1 .. Len(s) + Len(t) : u[i] = IF i <= Len(s) THEN s[i] ELSE t[i - Len(s)]
  OBVIOUS

(* Where a step of c leaves g as its frame, the other frames are as they   *)
(* were.                                                                   *)
LEMMA OneFrame ==
  ASSUME TypeOK, NEW c \in CPU, NEW g \in FrameType,
         stack' = [stack EXCEPT ![c] = [stack[c] EXCEPT ![Len(stack[c])] = g]]
  PROVE  /\ stack' \in [CPU -> Seq(FrameType)]
         /\ \A d \in CPU : Len(stack'[d]) = Len(stack[d])
         /\ \A d \in CPU : d # c => stack'[d] = stack[d] /\ Now(d)' = Now(d)
         /\ Now(c)' = g
         /\ Len(stack[c]) = 2 => stack'[c][1] = stack[c][1]
  <1>1. stack[c] \in Seq(FrameType)
    BY Zenon DEF TypeOK
  <1>0. Len(stack[c]) \in 1 .. 2
    BY Zenon DEF TypeOK
  <1>. DEFINE t == [stack[c] EXCEPT ![Len(stack[c])] = g]
  <1>2. t \in Seq(FrameType) /\ Len(t) = Len(stack[c]) /\ t[Len(stack[c])] = g
        /\ (Len(stack[c]) = 2 => t[1] = stack[c][1])
    <2>. DEFINE s == stack[c]
    <2>1. Len(s) \in 1 .. Len(s) /\ (Len(s) = 2 => 1 \in 1 .. Len(s) /\ 1 # Len(s))
      BY <1>0
    <2>0. s \in Seq(FrameType)
      BY Zenon, <1>1
    <2>2. t = [s EXCEPT ![Len(s)] = g]
      OBVIOUS
    <2>. HIDE DEF s, t
    <2>3. /\ t \in Seq(FrameType) /\ Len(t) = Len(s)
          /\ \A j \in 1 .. Len(s) : t[j] = IF j = Len(s) THEN g ELSE s[j]
      BY <2>0, <2>1, <2>2, Replaced
    <2>4. t \in Seq(FrameType) /\ Len(t) = Len(s) /\ t[Len(s)] = g /\ (Len(s) = 2 => t[1] = s[1])
      BY Zenon, <2>1, <2>3
    <2>. QED  BY Zenon, <2>4 DEF s
  <1>. HIDE DEF t
  <1>3. stack' = [stack EXCEPT ![c] = t]
    BY Zenon DEF t
  <1>4. stack'[c] = t /\ (\A d \in CPU : d # c => stack'[d] = stack[d])
        /\ stack' \in [CPU -> Seq(FrameType)]
    BY Zenon, <1>2, <1>3 DEF TypeOK
  <1>. QED  BY Zenon, <1>2, <1>4 DEF Now, Depth

(* The frame of c is one of the type, with what InOrder and Counts say.    *)
LEMMA Running ==
  ASSUME IInv, NEW c \in CPU
  PROVE  /\ Now(c) \in FrameType /\ InOrder(Now(c)) /\ Len(stack[c]) \in 1 .. 2
         /\ stack[c] \in Seq(FrameType)
         /\ Counts(Now(c), Depth(c), IF_[c], ncli[c], intena[c])
         /\ Len(stack[c]) = 2 => Interrupted(stack[c][1])
  <1>1. /\ InOrder(Now(c)) /\ Counts(Now(c), Depth(c), IF_[c], ncli[c], intena[c])
        /\ Len(stack[c]) = 2 => Interrupted(stack[c][1])
    BY Zenon DEF IInv
  <1>2. stack[c] \in Seq(FrameType)
    BY Zenon DEF IInv, TypeOK
  <1>5. Len(stack[c]) \in 1 .. 2
    BY Zenon DEF IInv, TypeOK
  <1>3. Len(stack[c]) \in 1 .. Len(stack[c])
    BY SMTT(30), <1>5
  <1>4. stack[c][Len(stack[c])] \in FrameType
    BY Zenon, <1>2, <1>3, Element
  <1>. QED  BY Zenon, <1>1, <1>2, <1>4, <1>5 DEF Now, Depth

(* What the invariant says of CPU c is kept by a step of another CPU.      *)
LEMMA Kept ==
  ASSUME IInv, NEW c \in CPU, TypeOK', Locked',
         \A d \in CPU : d # c => /\ stack'[d] = stack[d] /\ IF_'[d] = IF_[d]
                                 /\ ncli'[d] = ncli[d] /\ intena'[d] = intena[d],
         Counts(Now(c), Depth(c), IF_[c], ncli[c], intena[c])', InOrder(Now(c))',
         Len(stack'[c]) = 2 => Interrupted(stack'[c][1])
  PROVE  IInv'
  <1>. SUFFICES ASSUME NEW d \in CPU
                PROVE  /\ Counts(Now(d), Depth(d), IF_[d], ncli[d], intena[d])' /\ InOrder(Now(d))'
                       /\ Len(stack'[d]) = 2 => Interrupted(stack'[d][1])
    BY Zenon DEF IInv
  <1>1. CASE d = c
    BY Zenon, <1>1
  <1>2. CASE d # c
    <2>1. /\ stack'[d] = stack[d] /\ IF_'[d] = IF_[d] /\ ncli'[d] = ncli[d]
          /\ intena'[d] = intena[d] /\ Now(d)' = Now(d) /\ Depth(d)' = Depth(d)
      BY Zenon, <1>2 DEF Now, Depth
    <2>. QED  BY Zenon, <2>1, Running
  <1>. QED  BY Zenon, <1>1, <1>2

(* The locks agree with the CPUs after a step of c, if it changes what c   *)
(* has and the fields of a lock together.                                  *)
LEMMA Agree ==
  ASSUME IInv, NEW c \in CPU, NoCpu \notin CPU,
         \A d \in CPU : d # c => Now(d)' = Now(d),
         NEW k \in Locks, NEW g, Now(c)' = g,
         \A j \in Locks : j # k => /\ Has(g, j) <=> Has(Now(c), j)
                                   /\ Owns(g, j) <=> Owns(Now(c), j)
                                   /\ locked'[j] = locked[j] /\ cpu'[j] = cpu[j],
         \/ (Has(g, k) <=> Has(Now(c), k)) /\ locked'[k] = locked[k]
         \/ Has(g, k) /\ locked[k] = 0 /\ locked'[k] = 1
         \/ ~ Has(g, k) /\ Has(Now(c), k) /\ locked'[k] = 0,
         \/ (Owns(g, k) <=> Owns(Now(c), k)) /\ cpu'[k] = cpu[k]
         \/ Owns(g, k) /\ Has(Now(c), k) /\ cpu'[k] = c
         \/ ~ Owns(g, k) /\ Owns(Now(c), k) /\ cpu'[k] = NoCpu
  PROVE  Locked'
  <1>. DEFINE H(d, j) == Has(Now(d), j)
              O(d, j) == Owns(Now(d), j)
  <1>0. \A j : (H(c, j)' <=> Has(g, j)) /\ (O(c, j)' <=> Owns(g, j))
    BY Zenon DEF Has, Owns
  <1>1. /\ \A j \in Locks : locked[j] = 1 <=> \E d \in CPU : H(d, j)
        /\ \A j \in Locks, d, e \in CPU : H(d, j) /\ H(e, j) => d = e
        /\ \A j \in Locks, d \in CPU : cpu[j] = d <=> O(d, j)
        /\ \A j \in Locks, d \in CPU : O(d, j) => H(d, j)
    BY Zenon DEF IInv, Locked, Has
  <1>2. \A d \in CPU, j \in Locks : d # c => (H(d, j)' <=> H(d, j)) /\ (O(d, j)' <=> O(d, j))
    BY Zenon DEF Has, Owns
  <1>3. \A j \in Locks : j # k => /\ H(c, j)' <=> H(c, j)
                                  /\ O(c, j)' <=> O(c, j)
                                  /\ locked'[j] = locked[j] /\ cpu'[j] = cpu[j]
    BY Zenon, <1>0
  <1>4. \/ (H(c, k)' <=> H(c, k)) /\ locked'[k] = locked[k]
        \/ H(c, k)' /\ locked[k] = 0 /\ locked'[k] = 1
        \/ ~ H(c, k)' /\ H(c, k) /\ locked'[k] = 0
    BY Zenon, <1>0
  <1>5. \/ (O(c, k)' <=> O(c, k)) /\ cpu'[k] = cpu[k]
        \/ O(c, k)' /\ H(c, k) /\ cpu'[k] = c
        \/ ~ O(c, k)' /\ O(c, k) /\ cpu'[k] = NoCpu
    BY Zenon, <1>0
  <1>6. /\ \A j \in Locks : locked'[j] = 1 <=> \E d \in CPU : H(d, j)'
        /\ \A j \in Locks, d, e \in CPU : H(d, j)' /\ H(e, j)' => d = e
        /\ \A j \in Locks, d \in CPU : cpu'[j] = d <=> O(d, j)'
    <2>. HIDE DEF H, O
    <2>1. \A j \in Locks : locked'[j] = 1 <=> \E d \in CPU : H(d, j)'
      BY <1>1, <1>2, <1>3, <1>4
    <2>2. \A j \in Locks, d, e \in CPU : H(d, j)' /\ H(e, j)' => d = e
      BY <1>1, <1>2, <1>3, <1>4
    <2>3. \A j \in Locks, d \in CPU : cpu'[j] = d <=> O(d, j)'
      BY <1>1, <1>2, <1>3, <1>5
    <2>. QED  BY Zenon, <2>1, <2>2, <2>3
  <1>. QED  BY Zenon, <1>6 DEF Locked

(* The same, where what c has does not change.                             *)
LEMMA Unmoved ==
  ASSUME IInv, NEW c \in CPU, UNCHANGED <<locked, cpu>>,
         \A d \in CPU : d # c => Now(d)' = Now(d),
         NEW g, Now(c)' = g,
         \A j \in Locks : (Has(g, j) <=> Has(Now(c), j)) /\ (Owns(g, j) <=> Owns(Now(c), j))
  PROVE  Locked'
  <1>. DEFINE H(d, j) == Has(Now(d), j)
              O(d, j) == Owns(Now(d), j)
  <1>1. \A d \in CPU, j \in Locks : (H(d, j)' <=> H(d, j)) /\ (O(d, j)' <=> O(d, j))
    <2>1. \A d \in CPU, j \in Locks : d # c => (H(d, j)' <=> H(d, j)) /\ (O(d, j)' <=> O(d, j))
      BY Zenon DEF Has, Owns
    <2>2. \A j : (H(c, j)' <=> Has(g, j)) /\ (O(c, j)' <=> Owns(g, j))
      BY Zenon DEF Has, Owns
    <2>. QED  BY Zenon, <2>1, <2>2
  <1>2. Locked
    BY Zenon DEF IInv
  <1>3. /\ \A j \in Locks : locked'[j] = 1 <=> \E d \in CPU : H(d, j)'
        /\ \A j \in Locks, d, e \in CPU : H(d, j)' /\ H(e, j)' => d = e
        /\ \A j \in Locks, d \in CPU : cpu'[j] = d <=> O(d, j)'
    BY Zenon, <1>1, <1>2 DEF Locked
  <1>. QED  BY Zenon, <1>3 DEF Locked

(* A step of c that leaves g as its frame keeps the invariant, if what it  *)
(* writes agrees with g.                                                   *)
LEMMA Steps ==
  ASSUME IInv, NEW c \in CPU, NEW g \in FrameType,
         stack' = [stack EXCEPT ![c] = [stack[c] EXCEPT ![Len(stack[c])] = g]],
         locked' \in [Locks -> {0, 1}], cpu' \in [Locks -> CPU \cup {NoCpu}],
         IF_' \in [CPU -> BOOLEAN], ncli' \in [CPU -> Nat], intena' \in [CPU -> BOOLEAN],
         panicked' = FALSE,
         \A d \in CPU : d # c => IF_'[d] = IF_[d] /\ ncli'[d] = ncli[d] /\ intena'[d] = intena[d],
         Counts(g, Depth(c), IF_'[c], ncli'[c], intena'[c]), InOrder(g), Locked'
  PROVE  IInv'
  <1>0. TypeOK
    BY Zenon DEF IInv
  <1>1. /\ stack' \in [CPU -> Seq(FrameType)]
        /\ \A d \in CPU : Len(stack'[d]) = Len(stack[d])
        /\ \A d \in CPU : d # c => stack'[d] = stack[d] /\ Now(d)' = Now(d)
        /\ Now(c)' = g
        /\ Len(stack[c]) = 2 => stack'[c][1] = stack[c][1]
    BY Zenon, <1>0, OneFrame
  <1>2. TypeOK'
    <2>1. \A d \in CPU : Len(stack'[d]) \in 1 .. 2
      BY Zenon, <1>0, <1>1 DEF TypeOK
    <2>. QED  BY Zenon, <1>1, <2>1 DEF TypeOK
  <1>3. Len(stack'[c]) = 2 => Interrupted(stack'[c][1])
    BY Zenon, <1>1, Running
  <1>4. Counts(Now(c), Depth(c), IF_[c], ncli[c], intena[c])' /\ InOrder(Now(c))'
    BY Zenon, <1>1 DEF Depth
  <1>. QED  BY Zenon, <1>1, <1>2, <1>3, <1>4, Kept

(* acquire enters pushcli, which remembers the interrupt flag.             *)
LEMMA Acquires ==
  ASSUME Apart, IInv, NEW c \in CPU, NEW k \in Locks, acquire(c, k)
  PROVE  IInv'
  <1>. DEFINE g == [Now(c) EXCEPT !.pc = "cli", !.lk = k, !.eflags = IF_[c]]
  <1>0. TypeOK
    BY Zenon DEF IInv
  <1>1. PICK f \in FrameType : f = Now(c)
    BY Zenon, Running
  <1>2. /\ g \in FrameType /\ g.pc = "cli" /\ g.lk = k /\ g.held = f.held /\ g.eflags = IF_[c]
    BY Zenon, <1>0, <1>1 DEF FrameType, TypeOK
  <1>3. stack' = [stack EXCEPT ![c] = [stack[c] EXCEPT ![Len(stack[c])] = g]]
    BY Zenon DEF acquire, Now, Depth
  <1>4. /\ f.pc = "run" /\ \A i \in DOMAIN f.held : Before(f.held[i], k)
        /\ UNCHANGED <<locked, cpu, IF_, ncli, intena, panicked>>
    BY Zenon, <1>1 DEF acquire, At, Before
  <1>5. InOrder(f) /\ Counts(f, Depth(c), IF_[c], ncli[c], intena[c])
    BY Zenon, <1>1, Running
  <1>. HIDE DEF g
  <1>6. InOrder(g)
    BY <1>2, <1>4, <1>5 DEF InOrder, FrameType
  <1>7. Counts(g, Depth(c), IF_'[c], ncli'[c], intena'[c])
    BY Zenon, <1>2, <1>4, <1>5 DEF Counts, Off
  <1>8. \A j \in Locks : (Has(g, j) <=> Has(f, j)) /\ (Owns(g, j) <=> Owns(f, j))
    BY Zenon, <1>2, <1>4 DEF Has, Owns
  <1>9. Now(c)' = g /\ \A d \in CPU : d # c => Now(d)' = Now(d)
    BY Zenon, <1>0, <1>2, <1>3, OneFrame
  <1>10. Locked'
    BY Zenon, <1>1, <1>4, <1>8, <1>9, Unmoved
  <1>. QED  BY Zenon, <1>0, <1>2, <1>3, <1>4, <1>6, <1>7, <1>10, Steps DEF TypeOK

(* The rest of pushcli.                                                    *)
LEMMA Pushes ==
  ASSUME Apart, IInv, NEW c \in CPU, pushcli(c)
  PROVE  IInv'
  <1>. DEFINE g == [Now(c) EXCEPT !.pc = "holding"]
  <1>0. TypeOK
    BY Zenon DEF IInv
  <1>1. PICK f \in FrameType : f = Now(c)
    BY Zenon, Running
  <1>2. /\ g \in FrameType /\ g.pc = "holding" /\ g.lk = f.lk /\ g.held = f.held
    BY Zenon, <1>0, <1>1 DEF FrameType, Off
  <1>3. stack' = [stack EXCEPT ![c] = [stack[c] EXCEPT ![Len(stack[c])] = g]]
    BY Zenon DEF pushcli, Goto, Now, Depth
  <1>4. f.pc = "cli" /\ UNCHANGED <<locked, cpu, panicked>>
    BY Zenon, <1>1 DEF pushcli, At
  <1>5. InOrder(f) /\ Counts(f, Depth(c), IF_[c], ncli[c], intena[c])
    BY Zenon, <1>1, Running
  <1>6. /\ IF_' \in [CPU -> BOOLEAN] /\ IF_'[c] = FALSE
        /\ \A d \in CPU : d # c => IF_'[d] = IF_[d]
    BY Zenon, <1>0 DEF pushcli, TypeOK
  <1>7. /\ ncli' \in [CPU -> Nat] /\ ncli'[c] = ncli[c] + 1
        /\ \A d \in CPU : d # c => ncli'[d] = ncli[d]
    BY <1>0 DEF pushcli, TypeOK
  <1>8. /\ intena' \in [CPU -> BOOLEAN]
        /\ intena'[c] = IF ncli[c] = 0 THEN f.eflags ELSE intena[c]
        /\ \A d \in CPU : d # c => intena'[d] = intena[d]
    BY Zenon, <1>0, <1>1 DEF pushcli, TypeOK, FrameType
  <1>. HIDE DEF g
  <1>9. InOrder(g)
    BY Zenon, <1>2, <1>4, <1>5 DEF InOrder
  <1>10. Counts(g, Depth(c), IF_'[c], ncli'[c], intena'[c])
    <2>1. ncli[c] \in Nat /\ f.held \in Seq(Locks) /\ Depth(c) \in 1 .. 2
      BY Zenon, <1>0 DEF TypeOK, FrameType, Depth
    <2>2. Len(f.held) = ncli[c] /\ (ncli[c] > 0 => (intena[c] <=> Depth(c) = 1))
          /\ (f.eflags <=> ncli[c] = 0 /\ Depth(c) = 1)
      BY Zenon, <1>4, <1>5 DEF Counts, Off
    <2>3. g.pc \in Off /\ ncli'[c] = Len(g.held) + 1
      BY Zenon, <1>2, <1>7, <2>2 DEF Off
    <2>4. intena'[c] <=> Depth(c) = 1
      BY <1>8, <2>1, <2>2
    <2>. QED  BY <1>2, <1>6, <1>7, <2>1, <2>3, <2>4 DEF Counts
  <1>11. \A j \in Locks : (Has(g, j) <=> Has(f, j)) /\ (Owns(g, j) <=> Owns(f, j))
    BY Zenon, <1>2, <1>4 DEF Has, Owns
  <1>12. Now(c)' = g /\ \A d \in CPU : d # c => Now(d)' = Now(d)
    BY Zenon, <1>0, <1>2, <1>3, OneFrame
  <1>13. Locked'
    BY Zenon, <1>1, <1>4, <1>11, <1>12, Unmoved
  <1>. QED  BY Zenon, <1>0, <1>2, <1>3, <1>4, <1>6, <1>7, <1>8, <1>9, <1>10, <1>13, Steps DEF TypeOK

(* The test of acquire never fails: the lock comes after those c has.      *)
LEMMA Tests ==
  ASSUME Apart, IInv, NEW c \in CPU, acquire_holding(c)
  PROVE  IInv'
  <1>. DEFINE g == [Now(c) EXCEPT !.pc = "xchg"]
  <1>0. TypeOK /\ Locked
    BY Zenon DEF IInv
  <1>1. PICK f \in FrameType : f = Now(c)
    BY Zenon, Running
  <1>2. /\ g \in FrameType /\ g.pc = "xchg" /\ g.lk = f.lk /\ g.held = f.held
    BY Zenon, <1>0, <1>1 DEF FrameType, Off
  <1>3. f.pc = "holding" /\ UNCHANGED <<locked, cpu, IF_, ncli, intena>>
    BY Zenon, <1>1 DEF acquire_holding, At
  <1>4. InOrder(f) /\ Counts(f, Depth(c), IF_[c], ncli[c], intena[c])
    BY Zenon, <1>1, Running
  <1>5. ~ holding(c, Now(c).lk)
    <2>1. f.lk \in Locks /\ \A i \in 1 .. Len(f.held) : Before(f.held[i], f.lk)
      BY Zenon, <1>3, <1>4 DEF InOrder
    <2>2. ~ Owns(f, f.lk)
      BY Zenon, <2>1, NotItself DEF Owns
    <2>. QED  BY Zenon, <1>0, <1>1, <2>1, <2>2 DEF Locked, holding
  <1>6. panicked' = FALSE /\ stack' = [stack EXCEPT ![c] = [stack[c] EXCEPT ![Len(stack[c])] = g]]
    BY Zenon, <1>0, <1>5 DEF acquire_holding, Check, Goto, Now, Depth, TypeOK
  <1>. HIDE DEF g
  <1>7. InOrder(g) /\ Counts(g, Depth(c), IF_'[c], ncli'[c], intena'[c])
    BY Zenon, <1>2, <1>3, <1>4 DEF InOrder, Counts, Off
  <1>8. \A j \in Locks : (Has(g, j) <=> Has(f, j)) /\ (Owns(g, j) <=> Owns(f, j))
    BY Zenon, <1>2, <1>3 DEF Has, Owns
  <1>9. Now(c)' = g /\ \A d \in CPU : d # c => Now(d)' = Now(d)
    BY Zenon, <1>0, <1>2, <1>6, OneFrame
  <1>10. Locked'
    BY Zenon, <1>1, <1>3, <1>8, <1>9, Unmoved
  <1>. QED  BY Zenon, <1>0, <1>2, <1>3, <1>6, <1>7, <1>10, Steps DEF TypeOK

(* xchg finds the lock free.                                               *)
LEMMA Takes ==
  ASSUME Apart, IInv, NEW c \in CPU, xchg(c)
  PROVE  IInv'
  <1>. DEFINE g == [Now(c) EXCEPT !.pc = "mine"]
  <1>0. TypeOK /\ Locked
    BY Zenon DEF IInv
  <1>1. PICK f \in FrameType : f = Now(c)
    BY Zenon, Running
  <1>2. /\ g \in FrameType /\ g.pc = "mine" /\ g.lk = f.lk /\ g.held = f.held
    BY Zenon, <1>0, <1>1 DEF FrameType, Off
  <1>3. /\ f.pc = "xchg" /\ UNCHANGED <<cpu, IF_, ncli, intena, panicked>>
        /\ locked[f.lk] = 0 /\ locked' = [locked EXCEPT ![f.lk] = 1]
    BY Zenon, <1>1 DEF xchg, At
  <1>4. InOrder(f) /\ Counts(f, Depth(c), IF_[c], ncli[c], intena[c])
    BY Zenon, <1>1, Running
  <1>5. f.lk \in Locks
    BY Zenon, <1>3, <1>4 DEF InOrder
  <1>6. stack' = [stack EXCEPT ![c] = [stack[c] EXCEPT ![Len(stack[c])] = g]]
    BY Zenon DEF xchg, Goto, Now, Depth
  <1>. HIDE DEF g
  <1>7. InOrder(g) /\ Counts(g, Depth(c), IF_'[c], ncli'[c], intena'[c])
    BY Zenon, <1>2, <1>3, <1>4 DEF InOrder, Counts, Off
  <1>8. /\ \A j \in Locks : Owns(g, j) <=> Owns(f, j)
        /\ \A j \in Locks : j # f.lk => (Has(g, j) <=> Has(f, j))
        /\ Has(g, f.lk)
    BY Zenon, <1>2, <1>3 DEF Has, Owns
  <1>9. Now(c)' = g /\ \A d \in CPU : d # c => Now(d)' = Now(d)
    BY Zenon, <1>0, <1>2, <1>6, OneFrame
  <1>10. /\ locked' \in [Locks -> {0, 1}] /\ locked'[f.lk] = 1
         /\ \A j \in Locks : j # f.lk => locked'[j] = locked[j]
    BY Zenon, <1>0, <1>3, <1>5 DEF TypeOK
  <1>11. Locked'
    <2>0. PICK k \in Locks : k = f.lk
      BY Zenon, <1>5
    <2>1. \A j \in Locks : j # k => /\ Has(g, j) <=> Has(Now(c), j)
                                    /\ Owns(g, j) <=> Owns(Now(c), j)
                                    /\ locked'[j] = locked[j] /\ cpu'[j] = cpu[j]
      BY Zenon, <1>1, <1>3, <1>8, <1>10, <2>0
    <2>2. Has(g, k) /\ locked[k] = 0 /\ locked'[k] = 1
      BY Zenon, <1>3, <1>8, <1>10, <2>0
    <2>3. (Owns(g, k) <=> Owns(Now(c), k)) /\ cpu'[k] = cpu[k]
      BY Zenon, <1>1, <1>3, <1>5, <1>8, <2>0
    <2>4. NoCpu \notin CPU /\ Now(c)' = g /\ \A d \in CPU : d # c => Now(d)' = Now(d)
      BY Zenon, <1>9 DEF Apart
    <2>. QED  BY ONLY IInv, c \in CPU, k \in Locks, <2>1, <2>2, <2>3, <2>4, Agree
  <1>. QED  BY Zenon, <1>0, <1>2, <1>3, <1>6, <1>7, <1>10, <1>11, Steps DEF TypeOK

(* acquire writes lk->cpu and returns.                                     *)
LEMMA Returns ==
  ASSUME Apart, IInv, NEW c \in CPU, acquired(c)
  PROVE  IInv'
  <1>. DEFINE g == [Now(c) EXCEPT !.pc = "run", !.held = Append(@, Now(c).lk)]
  <1>0. TypeOK /\ Locked
    BY Zenon DEF IInv
  <1>1. PICK f \in FrameType : f = Now(c)
    BY Zenon, Running
  <1>3. /\ f.pc = "mine" /\ UNCHANGED <<locked, IF_, ncli, intena, panicked>>
        /\ cpu' = [cpu EXCEPT ![f.lk] = c]
    BY Zenon, <1>1 DEF acquired, At
  <1>4. InOrder(f) /\ Counts(f, Depth(c), IF_[c], ncli[c], intena[c])
    BY Zenon, <1>1, Running
  <1>5. f.lk \in Locks /\ f.held \in Seq(Locks) /\ \A i \in 1 .. Len(f.held) : Before(f.held[i], f.lk)
    BY Zenon, <1>3, <1>4 DEF InOrder, FrameType
  <1>2. /\ g \in FrameType /\ g.pc = "run" /\ g.lk = f.lk /\ g.held = Append(f.held, f.lk)
    <2>1. Append(f.held, f.lk) \in Seq(Locks)
      BY <1>5
    <2>2. g = [f EXCEPT !.pc = "run", !.held = Append(f.held, f.lk)]
      BY Zenon, <1>1 DEF FrameType
    <2>. QED  BY Zenon, <2>1, <2>2 DEF FrameType
  <1>6. stack' = [stack EXCEPT ![c] = [stack[c] EXCEPT ![Len(stack[c])] = g]]
    BY Zenon DEF acquired, Now, Depth
  <1>. HIDE DEF g
  <1>12. /\ Len(g.held) = Len(f.held) + 1 /\ Len(f.held) \in Nat
         /\ \A i \in 1 .. Len(f.held) : g.held[i] = f.held[i]
         /\ g.held[Len(f.held) + 1] = f.lk
    BY <1>2, <1>5
  <1>13. InOrder(g)
    <2>1. \A i, j \in 1 .. Len(f.held) : i < j => Before(f.held[i], f.held[j])
      BY Zenon, <1>4 DEF InOrder
    <2>2. \A i, j \in 1 .. Len(g.held) : i < j => Before(g.held[i], g.held[j])
      BY SMTT(30), <1>5, <1>12, <2>1
    <2>. QED  BY Zenon, <1>2, <2>2 DEF InOrder
  <1>7. Counts(g, Depth(c), IF_'[c], ncli'[c], intena'[c])
    BY Zenon, <1>2, <1>3, <1>4, <1>12 DEF Counts, Off
  <1>8. /\ \A j \in Locks : Has(g, j) <=> Has(f, j)
        /\ \A j \in Locks : j # f.lk => (Owns(g, j) <=> Owns(f, j))
        /\ Owns(g, f.lk) /\ Has(f, f.lk)
    BY <1>2, <1>3, <1>12 DEF Has, Owns
  <1>9. Now(c)' = g /\ \A d \in CPU : d # c => Now(d)' = Now(d)
    BY Zenon, <1>0, <1>2, <1>6, OneFrame
  <1>10. /\ cpu' \in [Locks -> CPU \cup {NoCpu}] /\ cpu'[f.lk] = c
         /\ \A j \in Locks : j # f.lk => cpu'[j] = cpu[j]
    BY Zenon, <1>0, <1>3, <1>5 DEF TypeOK
  <1>11. Locked'
    <2>0. PICK k \in Locks : k = f.lk
      BY Zenon, <1>5
    <2>1. \A j \in Locks : j # k => /\ Has(g, j) <=> Has(Now(c), j)
                                    /\ Owns(g, j) <=> Owns(Now(c), j)
                                    /\ locked'[j] = locked[j] /\ cpu'[j] = cpu[j]
      BY Zenon, <1>1, <1>3, <1>8, <1>10, <2>0
    <2>2. (Has(g, k) <=> Has(Now(c), k)) /\ locked'[k] = locked[k]
      BY Zenon, <1>1, <1>3, <1>5, <1>8, <2>0
    <2>3. Owns(g, k) /\ Has(Now(c), k) /\ cpu'[k] = c
      BY Zenon, <1>1, <1>8, <1>10, <2>0
    <2>4. NoCpu \notin CPU /\ Now(c)' = g /\ \A d \in CPU : d # c => Now(d)' = Now(d)
      BY Zenon, <1>9 DEF Apart
    <2>. QED  BY ONLY IInv, c \in CPU, k \in Locks, <2>1, <2>2, <2>3, <2>4, Agree
  <1>. QED  BY Zenon, <1>0, <1>2, <1>3, <1>6, <1>7, <1>10, <1>11, <1>13, Steps DEF TypeOK

(* What release leaves of the locks held.                                  *)
LEMMA Removed ==
  ASSUME NEW S, NEW h \in Seq(S), NEW i \in 1 .. Len(h)
  PROVE  /\ Without(h, i) \in Seq(S) /\ Len(Without(h, i)) = Len(h) - 1
         /\ \A j \in 1 .. Len(h) - 1 : Without(h, i)[j] = IF j < i THEN h[j] ELSE h[j + 1]
  <1>. DEFINE a == SubSeq(h, 1, i - 1)
              b == SubSeq(h, i + 1, Len(h))
  <1>0. Len(h) \in Nat /\ i \in Nat /\ i >= 1 /\ i <= Len(h)
    OBVIOUS
  <1>1. /\ a \in Seq(S) /\ Len(a) = i - 1
        /\ \A j \in 1 .. (i - 1) - 1 + 1 : a[j] = h[1 + j - 1]
    <2>1. 1 \in 1 .. Len(h) + 1 /\ i - 1 \in 1 - 1 .. Len(h)
      BY <1>0
    <2>. QED  BY <2>1, Part
  <1>2. /\ b \in Seq(S) /\ Len(b) = Len(h) - i
        /\ \A j \in 1 .. Len(h) - (i + 1) + 1 : b[j] = h[(i + 1) + j - 1]
    <2>1. i + 1 \in 1 .. Len(h) + 1 /\ Len(h) \in (i + 1) - 1 .. Len(h)
      BY <1>0
    <2>. QED  BY <2>1, Part
  <1>3. PICK r : r = Without(h, i)
    OBVIOUS
  <1>7. r = a \o b
    BY Zenon, <1>3 DEF Without
  <1>. HIDE DEF a, b
  <1>4. /\ r \in Seq(S) /\ Len(r) = Len(a) + Len(b)
        /\ \A j \in 1 .. Len(a) + Len(b) : r[j] = IF j <= Len(a) THEN a[j] ELSE b[j - Len(a)]
    <2>1. a \in Seq(S) /\ b \in Seq(S)
      BY Zenon, <1>1, <1>2
    <2>. QED BY <2>1, <1>7, Joined
  <1>5. Len(a) = i - 1 /\ Len(b) = Len(h) - i /\ Len(r) = Len(h) - 1
    <2>1. Len(a) = i - 1
      BY Zenon, <1>1
    <2>2. Len(b) = Len(h) - i
      BY Zenon, <1>2
    <2>3. Len(r) = Len(a) + Len(b)
      BY Zenon, <1>4
    <2>. QED  BY ONLY <1>0, <2>1, <2>2, <2>3
  <1>6. ASSUME NEW j \in 1 .. Len(h) - 1
        PROVE  r[j] = IF j < i THEN h[j] ELSE h[j + 1]
    <2>1. r[j] = IF j <= Len(a) THEN a[j] ELSE b[j - Len(a)]
      BY Zenon, <1>0, <1>4, <1>5
    <2>2. CASE j < i
      <3>1. j \in 1 .. (i - 1) - 1 + 1 /\ j <= Len(a) /\ 1 + j - 1 = j
        BY <1>0, <1>5, <2>2
      <3>2. a[j] = h[j]
        BY Zenon, <1>1, <3>1
      <3>. QED  BY Zenon, <2>1, <2>2, <3>1, <3>2
    <2>3. CASE j >= i
      <3>0. PICK l : l = j - Len(a)
        OBVIOUS
      <3>1. l \in 1 .. Len(h) - (i + 1) + 1 /\ ~ (j <= Len(a)) /\ (i + 1) + l - 1 = j + 1
        BY <1>0, <1>5, <2>3, <3>0
      <3>2. b[l] = h[j + 1]
        BY Zenon, <1>2, <3>1
      <3>3. ~ (j < i)
        BY <1>0, <2>3
      <3>. QED  BY Zenon, <2>1, <3>0, <3>1, <3>2, <3>3
    <2>4. j < i \/ j >= i
      BY <1>0
    <2>. QED  BY Zenon, <2>2, <2>3, <2>4
  <1>. QED  BY Zenon, <1>3, <1>4, <1>5, <1>6

(* release passes its test, and gives up lk->cpu.                          *)
LEMMA Releases ==
  ASSUME Apart, IInv, NEW c \in CPU, NEW i \in DOMAIN Now(c).held, release(c, i)
  PROVE  IInv'
  <1>. DEFINE held == Now(c).held
              g == [Now(c) EXCEPT !.pc = "nocpu", !.lk = held[i], !.held = Without(held, i)]
  <1>0. TypeOK /\ Locked
    BY Zenon DEF IInv
  <1>1. PICK f \in FrameType : f = Now(c)
    BY Zenon, Running
  <1>2. f.held \in Seq(Locks) /\ i \in 1 .. Len(f.held) /\ Len(f.held) \in Nat
    BY <1>1 DEF FrameType
  <1>3. PICK k \in Locks : k = f.held[i]
    BY Zenon, <1>2, Element
  <1>4. InOrder(f) /\ Counts(f, Depth(c), IF_[c], ncli[c], intena[c])
    BY Zenon, <1>1, Running
  <1>5. Owns(f, k) /\ Has(f, k)
    BY Zenon, <1>2, <1>3 DEF Owns, Has
  <1>6. holding(c, Now(c).held[i])
    BY Zenon, <1>0, <1>1, <1>3, <1>5 DEF Locked, holding
  <1>7. /\ f.pc = "run" /\ UNCHANGED <<locked, IF_, ncli, intena, panicked>>
        /\ cpu' = [cpu EXCEPT ![k] = NoCpu]
    BY Zenon, <1>1, <1>3, <1>6 DEF release, At
  <1>8. stack' = [stack EXCEPT ![c] = [stack[c] EXCEPT ![Len(stack[c])] = g]]
    <2>1. stack' = [stack EXCEPT ![c][Depth(c)].pc = "nocpu", ![c][Depth(c)].lk = held[i],
                                 ![c][Depth(c)].held = Without(held, i)]
      BY Zenon, <1>6 DEF release
    <2>2. PICK r, k0 : r = Without(held, i) /\ k0 = held[i]
      OBVIOUS
    <2>3. stack' = [stack EXCEPT ![c][Depth(c)].pc = "nocpu", ![c][Depth(c)].lk = k0,
                                 ![c][Depth(c)].held = r]
      BY Zenon, <2>1, <2>2
    <2>4. g = [Now(c) EXCEPT !.pc = "nocpu", !.lk = k0, !.held = r]
      BY Zenon, <2>2
    <2>. HIDE DEF g
    <2>. QED  BY Zenon, <2>3, <2>4 DEF Now, Depth
  <1>9. PICK r : r = Without(held, i)
    OBVIOUS
  <1>10. /\ r \in Seq(Locks) /\ Len(r) = Len(f.held) - 1
         /\ \A j \in 1 .. Len(f.held) - 1 : r[j] = IF j < i THEN f.held[j] ELSE f.held[j + 1]
    <2>1. PICK h : h = f.held
      OBVIOUS
    <2>2. h \in Seq(Locks) /\ i \in 1 .. Len(h) /\ r = Without(h, i)
      BY Zenon, <1>1, <1>2, <1>9, <2>1
    <2>3. /\ r \in Seq(Locks) /\ Len(r) = Len(h) - 1
          /\ \A j \in 1 .. Len(h) - 1 : r[j] = IF j < i THEN h[j] ELSE h[j + 1]
      BY ONLY Zenon, <2>2, Removed
    <2>. QED  BY Zenon, <2>1, <2>3
  <1>11. /\ g \in FrameType /\ g.pc = "nocpu" /\ g.lk = k /\ g.held = r
    <2>1. g = [f EXCEPT !.pc = "nocpu", !.lk = k, !.held = r]
      BY Zenon, <1>1, <1>3, <1>9 DEF FrameType
    <2>. QED  BY Zenon, <1>10, <2>1 DEF FrameType, Off
  <1>. HIDE DEF g, held
  <1>12. \A j, l \in 1 .. Len(f.held) : j < l => Before(f.held[j], f.held[l])
    BY Zenon, <1>4 DEF InOrder
  <1>13. /\ \A j \in 1 .. Len(f.held) : f.held[j] = k <=> j = i
         /\ \A j \in 1 .. Len(f.held) - 1 : r[j] # k
    <2>1. \A j \in 1 .. Len(f.held) : f.held[j] = k <=> j = i
      BY <1>2, <1>3, <1>12, NotItself
    <2>. QED  BY <1>2, <1>10, <2>1
  <1>14. \A j, l \in 1 .. Len(f.held) - 1 : j < l => Before(r[j], r[l])
    BY SMTT(30), <1>2, <1>10, <1>12
  <1>15. InOrder(g)
    BY Zenon, <1>10, <1>11, <1>13, <1>14 DEF InOrder
  <1>16. Counts(g, Depth(c), IF_'[c], ncli'[c], intena'[c])
    BY <1>2, <1>4, <1>7, <1>10, <1>11 DEF Counts, Off
  <1>17. \A j \in Locks : Owns(g, j) <=> Owns(f, j) /\ j # k
    <2>1. ASSUME NEW j \in Locks, Owns(g, j)
          PROVE  Owns(f, j) /\ j # k
      <3>1. PICK l \in 1 .. Len(f.held) - 1 : r[l] = j
        BY Zenon, <1>10, <1>11, <2>1 DEF Owns
      <3>2. r[l] # k
        BY Zenon, <1>13
      <3>3. r[l] = IF l < i THEN f.held[l] ELSE f.held[l + 1]
        BY Zenon, <1>10
      <3>4. l \in 1 .. Len(f.held) /\ l + 1 \in 1 .. Len(f.held)
        BY <1>2
      <3>. QED  BY Zenon, <3>1, <3>2, <3>3, <3>4 DEF Owns
    <2>2. ASSUME NEW j \in Locks, Owns(f, j), j # k
          PROVE  Owns(g, j)
      <3>1. PICK l \in 1 .. Len(f.held) : f.held[l] = j
        BY Zenon, <2>2 DEF Owns
      <3>2. l # i
        BY Zenon, <1>3, <2>2, <3>1
      <3>3. CASE l < i
        BY SMTT(30), <1>2, <1>10, <1>11, <3>1, <3>3 DEF Owns
      <3>4. CASE l > i
        <4>1. l - 1 \in 1 .. Len(f.held) - 1 /\ ~ (l - 1 < i) /\ (l - 1) + 1 = l
          BY <1>2, <3>4
        <4>2. r[l - 1] = j
          BY Zenon, <1>10, <3>1, <4>1
        <4>. QED  BY Zenon, <1>10, <1>11, <4>1, <4>2 DEF Owns
      <3>. QED  BY <1>2, <3>2, <3>3, <3>4
    <2>. QED  BY Zenon, <2>1, <2>2
  <1>18. \A j \in Locks : Has(g, j) <=> Has(f, j)
    BY Zenon, <1>5, <1>7, <1>11, <1>17 DEF Has
  <1>19. Now(c)' = g /\ \A d \in CPU : d # c => Now(d)' = Now(d)
    BY Zenon, <1>0, <1>8, <1>11, OneFrame
  <1>20. /\ cpu' \in [Locks -> CPU \cup {NoCpu}] /\ cpu'[k] = NoCpu
         /\ \A j \in Locks : j # k => cpu'[j] = cpu[j]
    BY Zenon, <1>0, <1>7 DEF TypeOK
  <1>21. Locked'
    <2>1. \A j \in Locks : j # k => /\ Has(g, j) <=> Has(Now(c), j)
                                    /\ Owns(g, j) <=> Owns(Now(c), j)
                                    /\ locked'[j] = locked[j] /\ cpu'[j] = cpu[j]
      BY Zenon, <1>1, <1>7, <1>17, <1>18, <1>20
    <2>2. (Has(g, k) <=> Has(Now(c), k)) /\ locked'[k] = locked[k]
      BY Zenon, <1>1, <1>7, <1>18
    <2>3. ~ Owns(g, k) /\ Owns(Now(c), k) /\ cpu'[k] = NoCpu
      BY Zenon, <1>1, <1>5, <1>17, <1>20
    <2>4. NoCpu \notin CPU /\ Now(c)' = g /\ \A d \in CPU : d # c => Now(d)' = Now(d)
      BY Zenon, <1>19 DEF Apart
    <2>. QED  BY ONLY Zenon, IInv, c \in CPU, k \in Locks, <2>1, <2>2, <2>3, <2>4, Agree
  <1>. QED  BY Zenon, <1>0, <1>7, <1>8, <1>11, <1>15, <1>16, <1>20, <1>21, Steps DEF TypeOK

(* release writes lk->locked.                                              *)
LEMMA Unlocks ==
  ASSUME Apart, IInv, NEW c \in CPU, unlock(c)
  PROVE  IInv'
  <1>. DEFINE g == [Now(c) EXCEPT !.pc = "popcli"]
  <1>0. TypeOK /\ Locked
    BY Zenon DEF IInv
  <1>1. PICK f \in FrameType : f = Now(c)
    BY Zenon, Running
  <1>2. /\ g \in FrameType /\ g.pc = "popcli" /\ g.lk = f.lk /\ g.held = f.held
    BY Zenon, <1>0, <1>1 DEF FrameType, Off
  <1>3. /\ f.pc = "nocpu" /\ UNCHANGED <<cpu, IF_, ncli, intena, panicked>>
        /\ locked' = [locked EXCEPT ![f.lk] = 0]
    BY Zenon, <1>1 DEF unlock, At
  <1>4. InOrder(f) /\ Counts(f, Depth(c), IF_[c], ncli[c], intena[c])
    BY Zenon, <1>1, Running
  <1>5. f.lk \in Locks /\ \A i \in 1 .. Len(f.held) : f.held[i] # f.lk
    BY Zenon, <1>3, <1>4 DEF InOrder
  <1>6. stack' = [stack EXCEPT ![c] = [stack[c] EXCEPT ![Len(stack[c])] = g]]
    BY Zenon DEF unlock, Goto, Now, Depth
  <1>. HIDE DEF g
  <1>7. InOrder(g) /\ Counts(g, Depth(c), IF_'[c], ncli'[c], intena'[c])
    BY Zenon, <1>2, <1>3, <1>4 DEF InOrder, Counts, Off
  <1>8. /\ \A j \in Locks : Owns(g, j) <=> Owns(f, j)
        /\ \A j \in Locks : j # f.lk => (Has(g, j) <=> Has(f, j))
        /\ ~ Has(g, f.lk) /\ Has(f, f.lk)
    BY Zenon, <1>2, <1>3, <1>5 DEF Has, Owns
  <1>9. Now(c)' = g /\ \A d \in CPU : d # c => Now(d)' = Now(d)
    BY Zenon, <1>0, <1>2, <1>6, OneFrame
  <1>10. /\ locked' \in [Locks -> {0, 1}] /\ locked'[f.lk] = 0
         /\ \A j \in Locks : j # f.lk => locked'[j] = locked[j]
    BY Zenon, <1>0, <1>3, <1>5 DEF TypeOK
  <1>11. Locked'
    <2>0. PICK k \in Locks : k = f.lk
      BY Zenon, <1>5
    <2>1. \A j \in Locks : j # k => /\ Has(g, j) <=> Has(Now(c), j)
                                    /\ Owns(g, j) <=> Owns(Now(c), j)
                                    /\ locked'[j] = locked[j] /\ cpu'[j] = cpu[j]
      BY Zenon, <1>1, <1>3, <1>8, <1>10, <2>0
    <2>2. ~ Has(g, k) /\ Has(Now(c), k) /\ locked'[k] = 0
      BY Zenon, <1>1, <1>8, <1>10, <2>0
    <2>3. (Owns(g, k) <=> Owns(Now(c), k)) /\ cpu'[k] = cpu[k]
      BY Zenon, <1>1, <1>3, <1>8, <2>0
    <2>4. NoCpu \notin CPU /\ Now(c)' = g /\ \A d \in CPU : d # c => Now(d)' = Now(d)
      BY Zenon, <1>9 DEF Apart
    <2>. QED  BY ONLY Zenon, IInv, c \in CPU, k \in Locks, <2>1, <2>2, <2>3, <2>4, Agree
  <1>. QED  BY Zenon, <1>0, <1>2, <1>3, <1>6, <1>7, <1>10, <1>11, Steps DEF TypeOK

(* popcli passes its test, and turns interrupts on where pushcli found     *)
(* them on.                                                                *)
LEMMA Pops ==
  ASSUME Apart, IInv, NEW c \in CPU, popcli(c)
  PROVE  IInv'
  <1>. DEFINE g == [Now(c) EXCEPT !.pc = "run"]
  <1>0. TypeOK
    BY Zenon DEF IInv
  <1>1. PICK f \in FrameType : f = Now(c)
    BY Zenon, Running
  <1>2. /\ g \in FrameType /\ g.pc = "run" /\ g.lk = f.lk /\ g.held = f.held
    BY Zenon, <1>0, <1>1 DEF FrameType
  <1>3. f.pc = "popcli" /\ UNCHANGED <<locked, cpu, intena>>
    BY Zenon, <1>1 DEF popcli, At
  <1>4. InOrder(f) /\ Counts(f, Depth(c), IF_[c], ncli[c], intena[c])
    BY Zenon, <1>1, Running
  <1>5. /\ ncli[c] \in Nat /\ Len(f.held) \in Nat /\ ncli[c] = Len(f.held) + 1
        /\ IF_[c] = FALSE /\ (intena[c] <=> Depth(c) = 1)
    <2>1. ncli[c] \in Nat /\ f.held \in Seq(Locks) /\ IF_[c] \in BOOLEAN
      BY Zenon, <1>0 DEF TypeOK, FrameType
    <2>2. Len(f.held) \in Nat
      BY <2>1
    <2>3. ncli[c] = Len(f.held) + 1
      BY Zenon, <1>3, <1>4 DEF Counts, Off
    <2>. QED  BY <1>4, <2>1, <2>2, <2>3 DEF Counts
  <1>6. panicked' = FALSE /\ stack' = [stack EXCEPT ![c] = [stack[c] EXCEPT ![Len(stack[c])] = g]]
    <2>1. ~ IF_[c] /\ ncli[c] > 0
      BY <1>5
    <2>. QED  BY Zenon, <1>0, <2>1 DEF popcli, Check, Goto, Now, Depth, TypeOK
  <1>7. /\ ncli' \in [CPU -> Nat] /\ ncli'[c] = Len(f.held)
        /\ \A d \in CPU : d # c => ncli'[d] = ncli[d]
    <2>1. ncli' = [ncli EXCEPT ![c] = Len(f.held)]
      BY <1>5 DEF popcli
    <2>. QED  BY Zenon, <1>0, <1>5, <2>1 DEF TypeOK
  <1>8. /\ IF_' \in [CPU -> BOOLEAN] /\ (IF_'[c] <=> Len(f.held) = 0 /\ Depth(c) = 1)
        /\ \A d \in CPU : d # c => IF_'[d] = IF_[d]
    <2>1. IF_' = IF Len(f.held) = 0 /\ Depth(c) = 1 THEN [IF_ EXCEPT ![c] = TRUE] ELSE IF_
      <3>1. (ncli[c] = 1 /\ intena[c]) <=> (Len(f.held) = 0 /\ Depth(c) = 1)
        BY <1>5
      <3>. QED  BY Zenon, <3>1 DEF popcli
    <2>. QED  BY Zenon, <1>0, <1>5, <2>1 DEF TypeOK
  <1>. HIDE DEF g
  <1>9. InOrder(g)
    BY Zenon, <1>2, <1>3, <1>4 DEF InOrder
  <1>10. Counts(g, Depth(c), IF_'[c], ncli'[c], intena'[c])
    BY Zenon, <1>2, <1>3, <1>5, <1>7, <1>8 DEF Counts, Off
  <1>11. \A j \in Locks : (Has(g, j) <=> Has(f, j)) /\ (Owns(g, j) <=> Owns(f, j))
    BY Zenon, <1>2, <1>3 DEF Has, Owns
  <1>12. Now(c)' = g /\ \A d \in CPU : d # c => Now(d)' = Now(d)
    BY Zenon, <1>0, <1>2, <1>6, OneFrame
  <1>13. Locked'
    BY Zenon, <1>1, <1>3, <1>11, <1>12, Unmoved
  <1>. QED  BY Zenon, <1>0, <1>2, <1>3, <1>6, <1>7, <1>8, <1>9, <1>10, <1>13, Steps DEF TypeOK

(* An interrupt comes: the code it interrupts has no lock.                 *)
LEMMA Interrupts ==
  ASSUME Apart, IInv, NEW c \in CPU, Interrupt(c)
  PROVE  IInv'
  <1>0. TypeOK
    BY Zenon DEF IInv
  <1>1. PICK f \in FrameType : f = Now(c)
    BY Zenon, Running
  <1>2. InOrder(f) /\ Counts(f, Depth(c), IF_[c], ncli[c], intena[c])
    BY Zenon, <1>1, Running
  <1>3. Depth(c) = 1 /\ ncli[c] = 0
    BY Zenon, <1>0, <1>2 DEF Interrupt, Handling, Depth, TypeOK, Counts
  <1>4. f.held = <<>> /\ f.pc \in {"run", "cli"} /\ (f.pc = "cli" => f.eflags /\ f.lk \in Locks)
    <2>1. f.held \in Seq(Locks) /\ Len(f.held) \in Nat /\ f.pc \in Off \cup {"run", "cli"}
      BY DEF FrameType
    <2>2. Len(f.held) = 0 /\ f.pc \notin Off
      BY <1>2, <1>3, <2>1 DEF Counts
    <2>3. f.held = <<>>
      BY <2>1, <2>2
    <2>. QED  BY Zenon, <1>2, <1>3, <2>1, <2>2, <2>3 DEF Counts, InOrder
  <1>5. PICK s \in Seq(FrameType) : s = stack[c]
    BY Zenon, Running
  <1>6. Len(s) = 1 /\ s[1] = f
    BY Zenon, <1>1, <1>3, <1>5 DEF Now, Depth
  <1>7. Frame \in FrameType
    BY DEF Frame, FrameType
  <1>8. PICK t : t = Append(s, Frame)
    BY Zenon
  <1>21. t \in Seq(FrameType)
    BY Zenon, <1>7, <1>8, Longer
  <1>9. Len(t) = 2 /\ t[1] = f /\ t[2] = Frame
    <2>1. PICK g \in FrameType : g = Frame
      BY Zenon, <1>7
    <2>2. t = Append(s, g)
      BY Zenon, <1>8, <2>1
    <2>3. /\ Len(t) = Len(s) + 1 /\ t[Len(s) + 1] = g
          /\ \A i \in 1 .. Len(s) : t[i] = s[i]
      BY ONLY s \in Seq(FrameType), g \in FrameType, <2>2, Longer
    <2>. QED  BY <1>6, <2>1, <2>3
  <1>10. stack' = [stack EXCEPT ![c] = t]
    BY Zenon, <1>5, <1>8 DEF Interrupt
  <1>11. /\ stack' \in [CPU -> Seq(FrameType)] /\ stack'[c] = t
         /\ \A d \in CPU : d # c => stack'[d] = stack[d]
    BY Zenon, <1>0, <1>10, <1>21 DEF TypeOK
  <1>12. /\ IF_' \in [CPU -> BOOLEAN] /\ IF_'[c] = FALSE
         /\ \A d \in CPU : d # c => IF_'[d] = IF_[d]
    BY Zenon, <1>0 DEF Interrupt, TypeOK
  <1>13. UNCHANGED <<locked, cpu, ncli, intena, panicked>>
    BY Zenon DEF Interrupt
  <1>14. Now(c)' = Frame /\ Depth(c)' = 2 /\ \A d \in CPU : d # c => Now(d)' = Now(d)
    BY Zenon, <1>9, <1>11 DEF Now, Depth
  <1>15. TypeOK'
    <2>1. \A d \in CPU : Len(stack'[d]) \in 1 .. 2
      <3>1. Len(stack'[c]) \in 1 .. 2
        BY <1>9, <1>11
      <3>2. \A d \in CPU : Len(stack[d]) \in 1 .. 2
        BY Zenon, <1>0 DEF TypeOK
      <3>. QED  BY Zenon, <1>11, <3>1, <3>2
    <2>. QED  BY Zenon, <1>0, <1>11, <1>12, <1>13, <2>1 DEF TypeOK
  <1>16. Counts(Now(c), Depth(c), IF_[c], ncli[c], intena[c])'
    BY <1>3, <1>12, <1>13, <1>14 DEF Counts, Frame, Off
  <1>17. InOrder(Now(c))'
    BY <1>14 DEF InOrder, Frame
  <1>18. Interrupted(stack'[c][1])
    BY Zenon, <1>4, <1>9, <1>11 DEF Interrupted
  <1>19. \A j \in Locks : /\ Has(Frame, j) <=> Has(Now(c), j)
                          /\ Owns(Frame, j) <=> Owns(Now(c), j)
    <2>1. \A j \in Locks : ~ Has(Frame, j) /\ ~ Owns(Frame, j)
      BY DEF Has, Owns, Frame
    <2>2. \A j \in Locks : ~ Has(f, j) /\ ~ Owns(f, j)
      BY <1>4 DEF Has, Owns
    <2>. QED  BY Zenon, <1>1, <2>1, <2>2
  <1>20. Locked'
    BY Zenon, <1>13, <1>14, <1>19, Unmoved
  <1>. QED  BY Zenon, <1>11, <1>12, <1>13, <1>15, <1>16, <1>17, <1>18, <1>20, Kept

(* The handler returns to the code it interrupted.                         *)
LEMMA Irets ==
  ASSUME Apart, IInv, NEW c \in CPU, iret(c)
  PROVE  IInv'
  <1>0. TypeOK
    BY Zenon DEF IInv
  <1>1. PICK f \in FrameType : f = Now(c)
    BY Zenon, Running
  <1>2. Counts(f, Depth(c), IF_[c], ncli[c], intena[c])
    BY Zenon, <1>1, Running
  <1>3. Depth(c) = 2
    BY <1>0 DEF iret, Handling, Depth, TypeOK
  <1>4. f.held = <<>> /\ f.pc = "run" /\ ncli[c] = 0
    BY Zenon, <1>1, <1>2 DEF iret, At, Counts, Off
  <1>5. PICK s \in Seq(FrameType) : s = stack[c]
    BY Zenon, Running
  <1>6. Len(s) = 2 /\ Interrupted(s[1])
    BY Zenon, <1>3, <1>5, Running DEF Depth
  <1>7. PICK e \in FrameType : e = s[1]
    BY <1>6, Element
  <1>8. PICK t \in Seq(FrameType) : t = SubSeq(s, 1, 1)
    <2>1. 1 \in Int /\ 1 <= 1 + 1 /\ \A i \in 1 .. 1 : s[i] \in FrameType
      BY <1>7
    <2>2. SubSeq(s, 1, 1) \in Seq(FrameType)
      BY <2>1, Part, Zenon
    <2>. QED  BY Zenon, <2>2
  <1>9. Len(t) = 1 /\ t[1] = e
    BY <1>6, <1>7, <1>8
  <1>10. stack' = [stack EXCEPT ![c] = t]
    BY <1>3, <1>5, <1>8 DEF iret
  <1>11. /\ stack' \in [CPU -> Seq(FrameType)] /\ stack'[c] = t
         /\ \A d \in CPU : d # c => stack'[d] = stack[d]
    BY Zenon, <1>0, <1>10 DEF TypeOK
  <1>12. /\ IF_' \in [CPU -> BOOLEAN] /\ IF_'[c] = TRUE
         /\ \A d \in CPU : d # c => IF_'[d] = IF_[d]
    BY Zenon, <1>0 DEF iret, TypeOK
  <1>13. UNCHANGED <<locked, cpu, ncli, intena, panicked>>
    BY Zenon DEF iret
  <1>14. Now(c)' = e /\ Depth(c)' = 1 /\ \A d \in CPU : d # c => Now(d)' = Now(d)
    BY Zenon, <1>9, <1>11 DEF Now, Depth
  <1>15. TypeOK'
    <2>1. \A d \in CPU : Len(stack'[d]) \in 1 .. 2
      <3>1. Len(stack'[c]) \in 1 .. 2
        BY <1>9, <1>11
      <3>2. \A d \in CPU : Len(stack[d]) \in 1 .. 2
        BY Zenon, <1>0 DEF TypeOK
      <3>. QED  BY Zenon, <1>11, <3>1, <3>2
    <2>. QED  BY Zenon, <1>0, <1>11, <1>12, <1>13, <2>1 DEF TypeOK
  <1>16. /\ e.held = <<>> /\ e.pc \in {"run", "cli"}
         /\ e.pc = "cli" => e.eflags /\ e.lk \in Locks
    BY Zenon, <1>6, <1>7 DEF Interrupted
  <1>17. Counts(Now(c), Depth(c), IF_[c], ncli[c], intena[c])'
    <2>1. Counts(e, 1, TRUE, 0, intena[c])
      BY <1>16 DEF Counts, Off
    <2>. QED  BY Zenon, <1>4, <1>12, <1>13, <1>14, <2>1
  <1>18. InOrder(Now(c))'
    <2>1. InOrder(e)
      BY <1>16 DEF InOrder
    <2>. QED  BY Zenon, <1>14, <2>1
  <1>19. \A j \in Locks : (Has(e, j) <=> Has(Now(c), j)) /\ (Owns(e, j) <=> Owns(Now(c), j))
    <2>1. \A j \in Locks : ~ Has(e, j) /\ ~ Owns(e, j)
      BY <1>16 DEF Has, Owns
    <2>2. \A j \in Locks : ~ Has(f, j) /\ ~ Owns(f, j)
      BY <1>4 DEF Has, Owns
    <2>. QED  BY Zenon, <1>1, <2>1, <2>2
  <1>20. Locked'
    BY Zenon, <1>13, <1>14, <1>19, Unmoved
  <1>21. Len(stack'[c]) # 2
    <2>1. Len(stack'[c]) = 1
      BY Zenon, <1>9, <1>11
    <2>. QED  BY <2>1
  <1>. QED  BY Zenon, <1>11, <1>12, <1>13, <1>15, <1>17, <1>18, <1>20, <1>21, Kept
-----------------------------------------------------------------------------
(* Every reachable state of spinlock.c satisfies the invariant.            *)
THEOREM Invariant == ASSUME Apart PROVE Spec => []IInv
  <1>1. Init => IInv
    <2>. SUFFICES ASSUME Init PROVE IInv
      OBVIOUS
    <2>1. Frame \in FrameType
      BY DEF Frame, FrameType
    <2>2. \A c \in CPU : stack[c] = <<Frame>> /\ Len(stack[c]) = 1 /\ Now(c) = Frame /\ Depth(c) = 1
      BY Zenon DEF Init, Now, Depth
    <2>3. TypeOK
      <3>1. <<Frame>> \in Seq(FrameType)
        BY <2>1
      <3>2. stack \in [CPU -> Seq(FrameType)]
        BY Zenon, <3>1 DEF Init
      <3>3. \A c \in CPU : Len(stack[c]) \in 1 .. 2
        <4>1. \A c \in CPU : Len(stack[c]) = 1
          BY Zenon, <2>2
        <4>2. 1 \in 1 .. 2
          OBVIOUS
        <4>. QED  BY <4>1, <4>2, Zenon
      <3>. QED  BY Zenon, <3>2, <3>3 DEF Init, TypeOK
    <2>4. \A c \in CPU, k \in Locks : ~ Has(Now(c), k) /\ ~ Owns(Now(c), k)
      <3>1. \A k \in Locks : ~ Has(Frame, k) /\ ~ Owns(Frame, k)
        BY DEF Has, Owns, Frame
      <3>. QED  BY Zenon, <2>2, <3>1
    <2>5. Locked
      BY <2>4 DEF Init, Locked, Apart
    <2>6. \A c \in CPU : Counts(Now(c), Depth(c), IF_[c], ncli[c], intena[c]) /\ InOrder(Now(c))
      <3>1. InOrder(Frame) /\ Counts(Frame, 1, TRUE, 0, FALSE)
        BY DEF InOrder, Counts, Frame, Off
      <3>. QED  BY Zenon, <2>2, <3>1 DEF Init
    <2>7. \A c \in CPU : Len(stack[c]) # 2
      <3>1. \A c \in CPU : Len(stack[c]) = 1
        BY Zenon, <2>2
      <3>2. 1 # 2
        OBVIOUS
      <3>. QED  BY <3>1, <3>2, Zenon
    <2>. QED  BY Zenon, <2>3, <2>5, <2>6, <2>7 DEF IInv
  <1>2. IInv /\ [Next]_vars => IInv'
    <2>. SUFFICES ASSUME IInv, [Next]_vars PROVE IInv'
      OBVIOUS
    <2>1. CASE Next
      <3>1. PICK c \in CPU :
              \/ pushcli(c) \/ acquire_holding(c) \/ xchg(c) \/ acquired(c) \/ unlock(c) \/ popcli(c)
              \/ Interrupt(c) \/ iret(c)
              \/ \E k \in Locks : acquire(c, k)
              \/ \E i \in DOMAIN Now(c).held : release(c, i)
        BY Zenon, <2>1 DEF Next
      <3>. QED
        BY Zenon, <3>1, Pushes, Tests, Takes, Returns, Unlocks, Pops, Interrupts, Irets, Acquires, Releases
    <2>2. CASE UNCHANGED vars
      <3>1. /\ UNCHANGED <<locked, cpu, IF_, ncli, intena, stack, panicked>>
            /\ \A c \in CPU : Now(c)' = Now(c) /\ Depth(c)' = Depth(c)
        BY Zenon, <2>2 DEF vars, Now, Depth
      <3>2. TypeOK'
        BY Zenon, <3>1 DEF IInv, TypeOK
      <3>3. Locked'
        BY <3>1 DEF IInv, Locked, Has, Owns
      <3>4. ASSUME NEW c \in CPU
            PROVE  /\ Counts(Now(c), Depth(c), IF_[c], ncli[c], intena[c])' /\ InOrder(Now(c))'
                   /\ Len(stack'[c]) = 2 => Interrupted(stack'[c][1])
        BY Zenon, <3>1, Running
      <3>. QED  BY Zenon, <3>2, <3>3, <3>4 DEF IInv
    <2>. QED  BY Zenon, <2>1, <2>2
  <1>. QED  BY <1>1, <1>2, PTL DEF Spec

(* What a frame is inside of, in the words of the properties.              *)
LEMMA Insides ==
  ASSUME IInv, NEW c \in CPU
  PROVE  /\ \A k \in Locks : Holds(c, k) <=> Has(Now(c), k)
         /\ \A k \in Locks : (\E f \in Frames(c) : Inside(f, k)) <=> Has(Now(c), k)
  <1>1. PICK s \in Seq(FrameType) : s = stack[c]
    BY Zenon, Running
  <1>2. Len(s) = 1 \/ Len(s) = 2
    <2>1. Len(s) \in 1 .. 2
      BY Zenon, <1>1, Running
    <2>. QED  BY <2>1
  <1>3. Now(c) = s[Len(s)] /\ Frames(c) = {s[d] : d \in 1 .. Len(s)}
    BY Zenon, <1>1 DEF Now, Depth, Frames
  <1>4. \A f \in FrameType, k \in Locks : Inside(f, k) <=> Has(f, k)
    <2>1. \A f \in FrameType : DOMAIN f.held = 1 .. Len(f.held)
      BY DEF FrameType
    <2>. QED  BY Zenon, <2>1 DEF Inside, Has, Owns
  <1>5. \A d \in 1 .. Len(s) : s[d] \in FrameType
    BY Zenon, <1>1, Element
  <1>6. CASE Len(s) = 1
    BY <1>3, <1>4, <1>5, <1>6 DEF Holds
  <1>7. CASE Len(s) = 2
    <2>1. Interrupted(s[1]) /\ 1 \in 1 .. Len(s) /\ 2 \in 1 .. Len(s)
      BY <1>1, <1>7, Running
    <2>2. \A k \in Locks : ~ Has(s[1], k)
      BY <2>1 DEF Interrupted, Has, Owns
    <2>3. Frames(c) = {s[1], s[2]}
      BY <1>3, <1>7
    <2>. QED  BY Zenon, <1>3, <1>4, <1>5, <1>7, <2>1, <2>2, <2>3 DEF Holds
  <1>. QED  BY Zenon, <1>2, <1>6, <1>7

(* acquire and release give a lock to one CPU at a time, no test of theirs *)
(* fails, and interrupts come back as they were, for any number of CPUs    *)
(* and locks.                                                              *)
THEOREM LocksExcludeAlways == ASSUME Apart PROVE Spec => []LocksExclude
  <1>1. IInv => LocksExclude
    <2>. SUFFICES ASSUME IInv PROVE LocksExclude
      OBVIOUS
    <2>1. ~ panicked
      BY Zenon DEF IInv, TypeOK
    <2>2. \A c, d \in CPU, k \in Locks : 
            (\E f \in Frames(c) : Inside(f, k)) /\ (\E f \in Frames(d) : Inside(f, k)) => c = d
      BY Zenon, Insides DEF IInv, Locked
    <2>3. ASSUME NEW c \in CPU, Now(c).pc = "run"
          PROVE  IF_[c] <=> ~ Handling(c) /\ Now(c).held = <<>>
      <3>1. PICK f \in FrameType : f = Now(c)
        BY Zenon, Running
      <3>2. ncli[c] = Len(f.held) /\ (IF_[c] <=> ncli[c] = 0 /\ Depth(c) = 1)
        BY Zenon, <2>3, <3>1, Running DEF Counts, Off
      <3>3. f.held = <<>> <=> Len(f.held) = 0
        <4>1. f.held \in Seq(Locks)
          BY Zenon DEF FrameType
        <4>. QED  BY <4>1
      <3>4. Handling(c) <=> Depth(c) # 1
        <4>1. Depth(c) \in 1 .. 2
          BY Zenon DEF IInv, TypeOK, Depth
        <4>. QED  BY <4>1 DEF Handling
      <3>. QED  BY Zenon, <3>1, <3>2, <3>3, <3>4
    <2>. QED  BY Zenon, <2>1, <2>2, <2>3 DEF LocksExclude
  <1>. QED  BY <1>1, Invariant, PTL

(* What a CPU waits for is taken inside all that it has.                   *)
LEMMA WaitsInside ==
  ASSUME IInv, NEW c \in CPU, NEW k \in Waits(c)
  PROVE  k \in Locks /\ \A j \in Locks : Holds(c, j) => Before(j, k)
  <1>1. PICK f \in FrameType : f = Now(c)
    BY Zenon, Running
  <1>2. f.pc = "xchg" /\ k = f.lk
    BY Zenon, <1>1 DEF Waits
  <1>3. f.lk \in Locks /\ \A i \in 1 .. Len(f.held) : Before(f.held[i], f.lk)
    BY Zenon, <1>1, <1>2, Running DEF InOrder
  <1>4. \A j \in Locks : Holds(c, j) => Owns(f, j)
    BY Zenon, <1>1, <1>2, Insides DEF Has
  <1>. QED  BY Zenon, <1>2, <1>3, <1>4 DEF Owns

(* Of any CPUs, one waits in acquire for no lock that one of them has: no  *)
(* handler for a lock of the code it interrupted, and no CPUs in a ring,   *)
(* since a waiting CPU's lock is taken inside those it has, and not even   *)
(* four of the kernel's locks are ever taken one inside another.           *)
THEOREM NoSpinForEverAlways == ASSUME Apart PROVE Spec => []NoSpinForEver
  <1>1. IInv => NoSpinForEver
    <2>. SUFFICES ASSUME IInv, NEW D \in SUBSET CPU, D # {},
                         \A c \in D : \E k \in Waits(c), d \in D : Holds(d, k)
                  PROVE  FALSE
      BY Zenon DEF NoSpinForEver
    <2>1. PICK c0 \in D : TRUE
      OBVIOUS
    <2>2. PICK k0 \in Waits(c0), c1 \in D : Holds(c1, k0)
      BY Zenon
    <2>3. PICK k1 \in Waits(c1), c2 \in D : Holds(c2, k1)
      BY Zenon
    <2>4. PICK k2 \in Waits(c2), c3 \in D : Holds(c3, k2)
      BY Zenon
    <2>5. PICK k3 \in Waits(c3) : TRUE
      BY Zenon
    <2>6. c0 \in CPU /\ c1 \in CPU /\ c2 \in CPU /\ c3 \in CPU
      OBVIOUS
    <2>7. k0 \in Locks /\ k1 \in Locks /\ k2 \in Locks
      BY Zenon, <2>6, WaitsInside
    <2>8. Before(k0, k1) /\ Before(k1, k2) /\ Before(k2, k3)
      BY Zenon, <2>2, <2>3, <2>4, <2>6, <2>7, WaitsInside
    <2>. QED  BY Zenon, <2>8, Nestings DEF Before
  <1>. QED  BY <1>1, Invariant, PTL
=============================================================================
