------------------------------ MODULE LogInvariant -----------------------------
(***************************************************************************)
(* The inductive invariant of the log, for any processes, blocks, contents *)
(* and sizes, and however many calls and crashes there are.                *)
(*                                                                         *)
(* That a commit is atomic takes three things at once.  Nobody is in a     *)
(* call while a commit runs, because outstanding counts the calls and      *)
(* begin_op waits for the commit (Calls).  A block of the log stays in the *)
(* cache until it is home, because it is dirty (Contents, Pinned).  And at *)
(* every point the copies that the header selects agree with the buffers   *)
(* that calls read, which a crash in the middle of install_trans, and a    *)
(* crash in the recovery from that, need as well (Progress, Contents).     *)
(* Room is about begin_op's reservation: a block counts once for the log   *)
(* and, until its call ends, once for the call, and the difference is the  *)
(* set of pairs of a call and a block that it has written.                 *)
(***************************************************************************)
EXTENDS Log, FiniteSetTheorems, FunctionTheorems, TLAPS

(* The log has no block twice.                                             *)
Distinct(s) == \A i, j \in 1 .. Len(s) : s[i] = s[j] => i = j

(* Who is where.                                                           *)
Calls ==
  /\ IsFiniteSet(InCall) /\ outstanding = Cardinality(InCall)
  /\ \A p \in Proc : buf[p] # NoBlock <=> pc[p] = "log_write"
  /\ \A p, q \in Proc : buf[p] = buf[q] /\ buf[p] # NoBlock => p = q
  /\ \A p, q \in Proc : pc[p] = "commit" /\ pc[q] = "commit" => p = q
  /\ committing <=> \E p \in Proc : pc[p] = "commit"
  /\ committing => InCall = {}
  /\ mode = "up" => (committing <=> step # "none") /\ step # "read_head"
  /\ mode = "recover" => /\ pc = [p \in Proc |-> "user"]
                         /\ step \in {"read_head", "install_trans", "erase"}
  /\ mode = "panic" => step = "none" /\ ~ committing

(* The blocks that the calls in progress have logged.                      *)
Written == {x \in InCall \X Block : x[2] \in wrote[x[1]]}

(* What is logged and what is reserved fit the log, because a block that   *)
(* a call has logged counts against its own reservation.                   *)
Room ==
  /\ \A p \in InCall : /\ wrote[p] \subseteq Logged(lh) /\ IsFiniteSet(wrote[p])
                       /\ Cardinality(wrote[p]) <= OpBlocks
  /\ \A p \in Proc : pc[p] = "log_write" => Cardinality(wrote[p] \cup {buf[p]}) <= OpBlocks
  /\ IsFiniteSet(Written)
  /\ Len(lh) + outstanding * MAXOPBLOCKS <= LOGSIZE + Cardinality(Written)
  /\ step = "none" /\ InCall = {} => lh = <<>>

(* Where a commit or a recovery is, and which log the header describes.    *)
Progress ==
  /\ step \in {"write_log", "install_trans"} => tail < Len(lh)
  /\ step \in {"write_head", "read_head"} => tail = 0
  /\ step = "write_head" => Len(lh) > 0
  /\ step \in {"done", "read_head"} => lh = <<>>
  /\ mode # "recover" => head = IF step \in {"install_trans", "erase"} THEN lh ELSE <<>>
  /\ mode = "recover" /\ step # "read_head" => lh = head
  /\ Distinct(lh) /\ Distinct(head)

(* The blocks that only the log keeps from being recycled.                 *)
Pinned ==
  IF mode = "recover" \/ step \in {"erase", "done"} THEN {}
  ELSE IF step = "install_trans" THEN {lh[i] : i \in tail + 1 .. Len(lh)} ELSE Logged(lh)

(* Which copies of a block agree, of its buffer, its home and its place    *)
(* in the log: at every point of a commit, the copies that the header      *)
(* selects are those that system calls see.                                *)
Contents ==
  /\ dirty = Pinned
  /\ \A b \in Block : b \in dirty \/ Locked(b) => cache[b] # NoData
  /\ \A b \in Block : b \notin dirty /\ ~ Locked(b) => cache[b] \in {NoData, home[b]}
  /\ step = "write_log" => \A i \in 1 .. tail : logblock[i] = cache[lh[i]]
  /\ step = "write_head" => \A i \in 1 .. Len(lh) : logblock[i] = cache[lh[i]]
  /\ step = "install_trans" /\ mode # "recover"
       => \A i \in tail + 1 .. Len(lh) : logblock[i] = cache[lh[i]]
  /\ step = "install_trans" => \A i \in 1 .. tail : home[lh[i]] = logblock[i]
  /\ step = "erase" => \A i \in 1 .. Len(lh) : home[lh[i]] = logblock[i]

IInv == TypeOK /\ Calls /\ Room /\ Progress /\ Contents

-----------------------------------------------------------------------------
(* Sets of at most n elements, one for each member of a set.               *)
LEMMA Fits ==
  ASSUME NEW S, IsFiniteSet(S), NEW T, NEW f, NEW n \in Nat,
         \A p \in S : f[p] \subseteq T /\ IsFiniteSet(f[p]) /\ Cardinality(f[p]) <= n
  PROVE  LET W == {x \in S \X T : x[2] \in f[x[1]]}
         IN  IsFiniteSet(W) /\ Cardinality(W) <= Cardinality(S) * n
<1>. DEFINE W == {x \in S \X T : x[2] \in f[x[1]]}
            g == [p \in S |-> CHOOSE h : h \in Injection(f[p], 1 .. n)]
            F == [x \in W |-> <<x[1], g[x[1]][x[2]]>>]
<1>1. ASSUME NEW p \in S
      PROVE  g[p] \in Injection(f[p], 1 .. n)
  <2>1. /\ Cardinality(f[p]) \in Nat /\ Cardinality(f[p]) <= n
        /\ ExistsBijection(f[p], 1 .. Cardinality(f[p]))
    BY Zenon, FS_CardinalityType, Fun_ExistsBijSymmetric
  <2>2. PICK h : h \in Bijection(f[p], 1 .. Cardinality(f[p]))
    BY Zenon, <2>1, Fun_ExistsBij
  <2>3. h \in [f[p] -> 1 .. Cardinality(f[p])] /\ \A a, b \in f[p] : h[a] = h[b] => a = b
    BY Zenon, <2>2 DEF Bijection, Injection, IsInjective
  <2>4. h \in [f[p] -> 1 .. n]
    BY <2>1, <2>3
  <2>5. h \in Injection(f[p], 1 .. n)
    BY Zenon, <2>3, <2>4, Fun_IsInj
  <2>. QED BY Zenon, <2>5
<1>. HIDE DEF g
<1>2. ASSUME NEW x \in W
      PROVE  x = <<x[1], x[2]>> /\ x[1] \in S /\ g[x[1]][x[2]] \in 1 .. n
  <2>1. x \in S \X T /\ x[2] \in f[x[1]]
    OBVIOUS
  <2>2. x = <<x[1], x[2]>> /\ x[1] \in S
    BY <2>1
  <2>. QED BY <2>1, <2>2, <1>1, Fun_InjectionProperties
<1>3. ASSUME NEW x \in W, NEW y \in W, F[x] = F[y]
      PROVE  x = y
  <2>1. x[1] = y[1] /\ g[x[1]][x[2]] = g[y[1]][y[2]]
    BY Zenon, <1>3
  <2>2. x[2] \in f[x[1]] /\ y[2] \in f[x[1]] /\ x[1] \in S
    BY Zenon, <2>1, <1>2
  <2>3. x[2] = y[2]
    BY <2>1, <2>2, <1>1, Fun_InjectionProperties
  <2>. QED BY Zenon, <2>1, <2>3, <1>2
<1>4. F \in [W -> S \X (1 .. n)]
  BY Zenon, <1>2
<1>5. F \in Injection(W, S \X (1 .. n))
  BY Zenon, <1>3, <1>4, Fun_IsInj
<1>6. /\ IsFiniteSet(S \X (1 .. n))
      /\ Cardinality(S \X (1 .. n)) = Cardinality(S) * n
  <2>1. IsFiniteSet(1 .. n) /\ Cardinality(1 .. n) = IF 1 > n THEN 0 ELSE n - 1 + 1
    BY FS_Interval
  <2>2. Cardinality(1 .. n) = n
    BY <2>1
  <2>. QED BY Zenon, <2>1, <2>2, FS_Product
<1>7. IsFiniteSet(W) /\ Cardinality(W) <= Cardinality(S) * n
  BY <1>5, <1>6, FS_Injection
<1>. QED BY Zenon, <1>7

(* A sequence of blocks, and one block more.                               *)
LEMMA Listed ==
  ASSUME NEW s \in Seq(Block)
  PROVE  /\ Len(s) \in Nat /\ DOMAIN s = 1 .. Len(s)
         /\ Logged(s) \subseteq Block /\ (s = <<>> <=> Len(s) = 0)
         /\ \A i \in 1 .. Len(s) : s[i] \in Logged(s)
         /\ \A b \in Logged(s) : \E i \in 1 .. Len(s) : s[i] = b
         /\ Logged(<<>>) = {} /\ Distinct(<<>>) /\ <<>> \in Seq(Block) /\ Len(<<>>) = 0
  BY DEF Logged, Distinct

(* One block more in a log.                                                *)
LEMMA Appended ==
  ASSUME NEW s \in Seq(Block), NEW b \in Block
  PROVE  /\ Append(s, b) \in Seq(Block) /\ Len(Append(s, b)) = Len(s) + 1
         /\ \A i \in 1 .. Len(s) : Append(s, b)[i] = s[i]
         /\ Append(s, b)[Len(s) + 1] = b
         /\ Logged(Append(s, b)) = Logged(s) \cup {b}
         /\ Distinct(s) /\ b \notin Logged(s) => Distinct(Append(s, b))
<1>1. /\ Append(s, b) \in Seq(Block) /\ Len(Append(s, b)) = Len(s) + 1
      /\ \A i \in 1 .. Len(s) : Append(s, b)[i] = s[i]
      /\ Append(s, b)[Len(s) + 1] = b
  OBVIOUS
<1>2. Logged(Append(s, b)) = Logged(s) \cup {b}
  <2>1. DOMAIN Append(s, b) = 1 .. Len(s) + 1 /\ DOMAIN s = 1 .. Len(s)
    BY <1>1
  <2>2. \A i \in 1 .. Len(s) + 1 : i \in 1 .. Len(s) \/ i = Len(s) + 1
    OBVIOUS
  <2>3. Len(s) + 1 \in 1 .. Len(s) + 1 /\ 1 .. Len(s) \subseteq 1 .. Len(s) + 1
    OBVIOUS
  <2>. QED BY Zenon, <1>1, <2>1, <2>2, <2>3 DEF Logged
<1>3. Distinct(s) /\ b \notin Logged(s) => Distinct(Append(s, b))
  <2>1. \A i \in 1 .. Len(s) + 1 : i \in 1 .. Len(s) \/ i = Len(s) + 1
    OBVIOUS
  <2>. QED BY <1>1, <2>1 DEF Logged, Distinct
<1>. QED BY Zenon, <1>1, <1>2, <1>3

(* The position that recovery finds for a block of the header.             *)
LEMMA Chosen ==
  ASSUME NEW s \in Seq(Block), Distinct(s), NEW i \in 1 .. Len(s)
  PROVE  (CHOOSE j \in DOMAIN s : s[j] = s[i]) = i
<1>1. DOMAIN s = 1 .. Len(s)
  OBVIOUS
<1>. QED BY Zenon, <1>1 DEF Distinct

(* What recovery makes of a block that the header names, and of the others.*)
LEMMA Recovered ==
  ASSUME TypeOK, Distinct(head)
  PROVE  /\ \A i \in 1 .. Len(head) : Durable[head[i]] = logblock[i]
         /\ \A b \in Block \ Logged(head) : Durable[b] = home[b]
<1>. DOMAIN head = 1 .. Len(head) /\ head \in Seq(Block)
  BY DEF TypeOK
<1>1. ASSUME NEW i \in 1 .. Len(head)
      PROVE  Durable[head[i]] = logblock[i]
  <2>1. head[i] \in Block /\ head[i] \in Logged(head)
    BY DEF Logged
  <2>2. (CHOOSE j \in DOMAIN head : head[j] = head[i]) = i
    BY Zenon, Chosen
  <2>. QED BY Zenon, <2>1, <2>2 DEF Durable
<1>. QED BY Zenon, <1>1 DEF Durable

(* Steps after which the same calls are in progress.                       *)
LEMMA SameCalls ==
  ASSUME Room, InCall' = InCall, UNCHANGED <<wrote, outstanding, lh, buf>>,
         \A p \in Proc : pc'[p] = "log_write" => pc[p] = "log_write",
         step' = "none" => step = "none" \/ lh = <<>>
  PROVE  Room'
<1>1. Written' = Written
  BY Zenon DEF Written
<1>. QED BY Zenon, <1>1 DEF Room

(* Steps that leave the buffers, the log and the disk as they are.         *)
LEMMA SameContents ==
  ASSUME Contents, Pinned' = Pinned, UNCHANGED <<step, lh, buf, cache, dirty, logblock, home>>,
         step \in {"write_log", "install_trans"} => tail' = tail,
         mode' # "recover" => mode # "recover"
  PROVE  Contents'
<1>1. \A b \in Block : Locked(b)' <=> Locked(b)
  BY Zenon DEF Locked
<1>. QED BY Zenon, <1>1 DEF Contents

(* A process that makes a call is not yet in it.                           *)
LEMMA Called ==
  ASSUME IInv, NEW p \in Proc, Call(p)
  PROVE  IInv'
<1>. TypeOK /\ Calls /\ Room /\ Progress /\ Contents
  BY Zenon DEF IInv
<1>1. /\ mode = "up" /\ pc[p] = "user" /\ calls < MaxCalls
      /\ pc' = [pc EXCEPT ![p] = "begin_op"] /\ calls' = calls + 1
      /\ UNCHANGED <<mode, buf, wrote, outstanding, committing, lh, step, tail, cache, dirty,
                     head, logblock, home, crashes>>
  BY Zenon DEF Call, logvars, buffers, disk
<1>2. \A q \in Proc : q # p => pc'[q] = pc[q]
  BY Zenon, <1>1 DEF TypeOK
<1>3. pc'[p] = "begin_op"
  BY Zenon, <1>1 DEF TypeOK
<1>4. InCall' = InCall
  BY Zenon, <1>1, <1>2, <1>3 DEF InCall
<1>5. TypeOK'
  BY <1>1, LogAssumption DEF TypeOK
<1>6. Calls'
  BY <1>1, <1>2, <1>3, <1>4 DEF Calls
<1>7. Room'
  BY Zenon, <1>1, <1>2, <1>3, <1>4, SameCalls
<1>8. Progress'
  BY <1>1 DEF Progress, Distinct
<1>9. Contents'
  BY Zenon, <1>1, SameContents DEF Pinned, Logged
<1>. QED BY Zenon, <1>5, <1>6, <1>7, <1>8, <1>9 DEF IInv

(* begin_op lets a call in only when MAXOPBLOCKS more blocks fit.          *)
LEMMA Begins ==
  ASSUME IInv, NEW p \in Proc, begin_op(p)
  PROVE  IInv'
<1>. TypeOK /\ Calls /\ Room /\ Progress /\ Contents
  BY Zenon DEF IInv
<1>1. /\ mode = "up" /\ pc[p] = "begin_op"
      /\ UNCHANGED <<mode, buf, committing, lh, step, tail, cache, dirty, head, logblock, home,
                     calls, crashes>>
  BY Zenon DEF begin_op, buffers, disk, bounds
<1>2. Progress'
  BY <1>1 DEF Progress, Distinct
<1>3. Contents'
  BY Zenon, <1>1, SameContents DEF Pinned, Logged
<1>4. CASE committing \/ Len(lh) + (outstanding + 1) * MAXOPBLOCKS > LOGSIZE
  <2>1. pc' = [pc EXCEPT ![p] = "sleep"] /\ UNCHANGED <<outstanding, wrote>>
    BY Zenon, <1>4 DEF begin_op
  <2>2. pc'[p] = "sleep" /\ \A q \in Proc : q # p => pc'[q] = pc[q]
    BY Zenon, <2>1 DEF TypeOK
  <2>3. InCall' = InCall
    BY Zenon, <2>2, <1>1 DEF InCall
  <2>4. TypeOK'
    BY Zenon, <2>1, <1>1 DEF TypeOK
  <2>5. Calls'
    BY <2>1, <2>2, <2>3, <1>1 DEF Calls
  <2>6. Room'
    BY Zenon, <2>1, <2>2, <2>3, <1>1, SameCalls
  <2>. QED BY Zenon, <2>4, <2>5, <2>6, <1>2, <1>3 DEF IInv
<1>5. CASE ~ (committing \/ Len(lh) + (outstanding + 1) * MAXOPBLOCKS > LOGSIZE)
  <2>1. /\ outstanding' = outstanding + 1
        /\ pc' = [pc EXCEPT ![p] = "call"] /\ wrote' = [wrote EXCEPT ![p] = {}]
    BY Zenon, <1>5 DEF begin_op
  <2>2. /\ pc'[p] = "call" /\ \A q \in Proc : q # p => pc'[q] = pc[q]
        /\ wrote'[p] = {} /\ \A q \in Proc : q # p => wrote'[q] = wrote[q]
    BY Zenon, <2>1 DEF TypeOK
  <2>3. InCall' = InCall \cup {p} /\ p \notin InCall
    BY Zenon, <2>2, <1>1 DEF InCall
  <2>4. IsFiniteSet(InCall') /\ Cardinality(InCall') = outstanding'
    BY Zenon, <2>1, <2>3, FS_AddElement DEF Calls
  <2>5. TypeOK'
    BY <2>1, <1>1 DEF TypeOK
  <2>6. Calls'
    BY <2>2, <2>3, <2>4, <1>1, <1>5 DEF Calls
  <2>7. Written' = Written
    <3>1. InCall \subseteq Proc
      BY Zenon DEF InCall
    <3>2. \A x \in InCall' \X Block : x[2] \in wrote'[x[1]] => x[1] # p /\ x[1] \in InCall
      BY Zenon, <2>2, <2>3
    <3>3. \A x \in InCall' \X Block : x[1] \in InCall => wrote'[x[1]] = wrote[x[1]]
      BY Zenon, <3>1, <2>2, <2>3
    <3>4. Written' \subseteq Written
      BY Zenon, <3>2, <3>3 DEF Written
    <3>5. Written \subseteq Written'
      BY Zenon, <3>3, <2>3 DEF Written
    <3>. QED BY Zenon, <3>4, <3>5
  <2>8. Cardinality(Written) \in Nat
    BY Zenon, FS_CardinalityType DEF Room
  <2>9. Len(lh) + outstanding' * MAXOPBLOCKS <= LOGSIZE + Cardinality(Written)
    BY <2>1, <2>8, <1>5, LogAssumption DEF TypeOK
  <2>10. \A q \in InCall' : /\ wrote'[q] \subseteq Logged(lh) /\ IsFiniteSet(wrote'[q])
                            /\ Cardinality(wrote'[q]) <= OpBlocks
    <3>1. Cardinality({}) <= OpBlocks /\ IsFiniteSet({})
      BY FS_EmptySet, LogAssumption
    <3>. QED BY Zenon, <3>1, <2>2, <2>3 DEF Room, InCall
  <2>11. \A q \in Proc : pc'[q] = "log_write" => Cardinality(wrote'[q] \cup {buf[q]}) <= OpBlocks
    BY Zenon, <2>2 DEF Room
  <2>12. Room'
    BY Zenon, <2>3, <2>7, <2>9, <2>10, <2>11, <1>1 DEF Room
  <2>. QED BY Zenon, <2>5, <2>6, <2>12, <1>2, <1>3 DEF IInv
<1>. QED BY Zenon, <1>4, <1>5

(* A call may change a block that is logged already: the blocks of the     *)
(* log and their buffers stay the same until the commit.                   *)
LEMMA Modifies ==
  ASSUME IInv, NEW p \in Proc, NEW b \in Block, NEW d \in Data, Modify(p, b, d)
  PROVE  IInv'
<1>. TypeOK /\ Calls /\ Room /\ Progress /\ Contents
  BY Zenon DEF IInv
<1>1. /\ mode = "up" /\ pc[p] = "call" /\ ~ Locked(b)
      /\ Cardinality(wrote[p] \cup {b}) <= OpBlocks
  BY Zenon DEF Modify
<1>2. p \in InCall /\ ~ committing /\ step = "none"
  BY Zenon, <1>1 DEF InCall, Calls
<1>3. CASE panic
  <2>1. /\ mode' = "panic"
        /\ UNCHANGED <<pc, buf, wrote, outstanding, committing, lh, step, tail, cache, dirty,
                       head, logblock, home, calls, crashes>>
    BY Zenon, <1>3 DEF panic, procs, logvars, buffers, disk, bounds
  <2>2. InCall' = InCall
    BY Zenon, <2>1 DEF InCall
  <2>3. TypeOK'
    BY Zenon, <2>1 DEF TypeOK
  <2>4. Calls'
    BY Zenon, <2>1, <2>2, <1>2 DEF Calls
  <2>5. Room'
    BY Zenon, <2>1, <2>2, SameCalls
  <2>6. Progress'
    BY <2>1, <1>1 DEF Progress, Distinct
  <2>7. Contents'
    BY Zenon, <2>1, <1>1, SameContents DEF Pinned, Logged
  <2>. QED BY Zenon, <2>3, <2>4, <2>5, <2>6, <2>7 DEF IInv
<1>4. CASE /\ pc' = [pc EXCEPT ![p] = "log_write"]
           /\ buf' = [buf EXCEPT ![p] = b]
           /\ cache' = [cache EXCEPT ![b] = d]
           /\ UNCHANGED <<mode, wrote, logvars, step, tail, dirty, disk, bounds>>
  <2>1. UNCHANGED <<mode, wrote, outstanding, committing, lh, step, tail, dirty,
                    head, logblock, home, calls, crashes>>
    BY Zenon, <1>4 DEF logvars, disk, bounds
  <2>2. /\ pc'[p] = "log_write" /\ \A q \in Proc : q # p => pc'[q] = pc[q]
        /\ buf'[p] = b /\ \A q \in Proc : q # p => buf'[q] = buf[q]
        /\ cache'[b] = d /\ \A c \in Block : c # b => cache'[c] = cache[c]
    BY Zenon, <1>4 DEF TypeOK
  <2>3. InCall' = InCall
    BY Zenon, <2>2, <1>1 DEF InCall
  <2>4. TypeOK'
    BY Zenon, <2>1, <1>4 DEF TypeOK
  <2>5. Calls'
    <3>1. b # NoBlock /\ \A q \in Proc : buf[q] # b
      BY Zenon, <1>1, LogAssumption DEF Locked
    <3>2. \A q \in Proc : buf'[q] # NoBlock <=> pc'[q] = "log_write"
      BY <3>1, <2>2 DEF Calls
    <3>3. \A q, r \in Proc : buf'[q] = buf'[r] /\ buf'[q] # NoBlock => q = r
      BY <3>1, <2>2 DEF Calls
    <3>4. \A q \in Proc : pc'[q] = "commit" <=> pc[q] = "commit"
      BY Zenon, <2>2, <1>1
    <3>. QED BY Zenon, <3>2, <3>3, <3>4, <2>1, <2>3, <1>1 DEF Calls
  <2>6. Room'
    <3>1. Written' = Written
      BY Zenon, <2>1, <2>3 DEF Written
    <3>2. \A q \in Proc : pc'[q] = "log_write" => Cardinality(wrote[q] \cup {buf'[q]}) <= OpBlocks
      BY Zenon, <2>2, <1>1 DEF Room
    <3>. QED BY Zenon, <3>1, <3>2, <2>1, <2>3 DEF Room
  <2>7. Progress'
    BY <2>1 DEF Progress, Distinct
  <2>8. Contents'
    <3>1. Pinned' = Pinned
      BY Zenon, <2>1 DEF Pinned, Logged
    <3>2. \A c \in Block : Locked(c)' <=> Locked(c) \/ c = b
      <4>1. buf[p] = NoBlock
        BY Zenon, <1>1 DEF Calls
      <4>. QED BY Zenon, <4>1, <2>2, LogAssumption DEF Locked
    <3>3. cache'[b] # NoData
      BY Zenon, <2>2, LogAssumption
    <3>. QED BY Zenon, <3>1, <3>2, <3>3, <2>1, <2>2, <1>2 DEF Contents
  <2>. QED BY Zenon, <2>4, <2>5, <2>6, <2>7, <2>8 DEF IInv
<1>. QED BY Zenon, <1>3, <1>4 DEF Modify

(* bget recycles the buffer of a block that is neither dirty nor locked:   *)
(* its home block has the same contents.                                   *)
LEMMA Recycles ==
  ASSUME IInv, NEW b \in Block, Recycle(b)
  PROVE  IInv'
<1>. TypeOK /\ Calls /\ Room /\ Progress /\ Contents
  BY Zenon DEF IInv
<1>1. /\ mode = "up" /\ b \notin dirty /\ ~ Locked(b)
      /\ cache' = [cache EXCEPT ![b] = NoData]
      /\ UNCHANGED <<mode, pc, buf, wrote, outstanding, committing, lh, step, tail, dirty,
                     head, logblock, home, calls, crashes>>
  BY Zenon DEF Recycle, procs, logvars, disk, bounds
<1>2. cache'[b] = NoData /\ \A c \in Block : c # b => cache'[c] = cache[c]
  BY Zenon, <1>1 DEF TypeOK
<1>3. InCall' = InCall
  BY Zenon, <1>1 DEF InCall
<1>4. TypeOK'
  BY Zenon, <1>1 DEF TypeOK
<1>5. Calls'
  BY Zenon, <1>1, <1>3 DEF Calls
<1>6. Room'
  BY Zenon, <1>1, <1>3, SameCalls
<1>7. Progress'
  BY <1>1 DEF Progress, Distinct
<1>8. Contents'
  <2>1. Pinned' = Pinned
    BY Zenon, <1>1 DEF Pinned, Logged
  <2>2. \A c \in Block : Locked(c)' <=> Locked(c)
    BY Zenon, <1>1 DEF Locked
  <2>3. \A i \in 1 .. Len(lh) : lh[i] \in Block /\ lh[i] \in Logged(lh)
    BY Zenon, Listed DEF TypeOK
  <2>4. step \in {"write_log", "write_head"} => \A i \in 1 .. Len(lh) : lh[i] # b
    BY Zenon, <2>3, <1>1 DEF Contents, Pinned
  <2>5. step = "install_trans" => \A i \in tail + 1 .. Len(lh) : lh[i] # b
    BY <1>1 DEF Contents, Pinned
  <2>6. step = "write_log" => \A i \in 1 .. tail : logblock'[i] = cache'[lh'[i]]
    BY <2>3, <2>4, <1>1, <1>2 DEF Contents, Progress, TypeOK
  <2>7. step = "write_head" => \A i \in 1 .. Len(lh) : logblock'[i] = cache'[lh'[i]]
    BY <2>3, <2>4, <1>1, <1>2 DEF Contents
  <2>8. step = "install_trans" => \A i \in tail + 1 .. Len(lh) : logblock'[i] = cache'[lh'[i]]
    BY <2>3, <2>5, <1>1, <1>2 DEF Contents, TypeOK
  <2>9. \A c \in Block : c \in dirty \/ Locked(c) => cache'[c] # NoData
    BY Zenon, <1>1, <1>2 DEF Contents
  <2>10. \A c \in Block : c \notin dirty /\ ~ Locked(c) => cache'[c] \in {NoData, home[c]}
    BY Zenon, <1>1, <1>2 DEF Contents
  <2>. QED BY Zenon, <2>1, <2>2, <2>6, <2>7, <2>8, <2>9, <2>10, <1>1 DEF Contents
<1>. QED BY Zenon, <1>4, <1>5, <1>6, <1>7, <1>8 DEF IInv

(* log_write adds one to what the calls in progress have logged, unless    *)
(* the log holds the block already.                                        *)
LEMMA OneMore ==
  ASSUME TypeOK, Room, NEW p \in InCall, NEW b \in Block, InCall' = InCall,
         wrote' = [wrote EXCEPT ![p] = @ \cup {b}]
  PROVE  /\ IsFiniteSet(Written') /\ Cardinality(Written) \in Nat
         /\ Cardinality(Written') \in Nat /\ Cardinality(Written') >= Cardinality(Written)
         /\ b \notin Logged(lh) => Cardinality(Written') = Cardinality(Written) + 1
<1>1. /\ InCall \subseteq Proc /\ wrote'[p] = wrote[p] \cup {b}
      /\ \A q \in Proc : q # p => wrote'[q] = wrote[q]
  BY Zenon DEF InCall, TypeOK
<1>2. Written' = Written \cup {<<p, b>>}
  <2>1. \A x \in InCall \X Block : x = <<x[1], x[2]>> /\ x[1] \in InCall /\ x[2] \in Block
    OBVIOUS
  <2>2. \A x \in InCall \X Block : x[2] \in wrote'[x[1]] <=> x[2] \in wrote[x[1]] \/ x = <<p, b>>
    BY <2>1, <1>1
  <2>. QED BY <2>2, <1>1 DEF Written
<1>3. b \notin Logged(lh) => <<p, b>> \notin Written
  BY Zenon DEF Written, Room
<1>4. IsFiniteSet(Written)
  BY Zenon DEF Room
<1>5. /\ IsFiniteSet(Written')
      /\ Cardinality(Written') = IF <<p, b>> \in Written THEN Cardinality(Written)
                                 ELSE Cardinality(Written) + 1
  BY Zenon, <1>2, <1>4, FS_AddElement
<1>6. Cardinality(Written) \in Nat
  BY Zenon, <1>4, FS_CardinalityType
<1>. QED BY <1>3, <1>5, <1>6

(* end_op of one call takes no more than OpBlocks from it.                 *)
LEMMA OneCallLess ==
  ASSUME TypeOK, Room, NEW p \in InCall, InCall' = InCall \ {p}, wrote' = wrote
  PROVE  /\ IsFiniteSet(Written') /\ Cardinality(Written) \in Nat /\ Cardinality(Written') \in Nat
         /\ Cardinality(Written) <= Cardinality(Written') + OpBlocks
<1>. DEFINE Z == {p} \X wrote[p]
<1>1. IsFiniteSet(wrote[p]) /\ Cardinality(wrote[p]) <= OpBlocks
  BY Zenon DEF Room
<1>2. Cardinality(wrote[p]) \in Nat
  BY Zenon, <1>1, FS_CardinalityType
<1>3. IsFiniteSet(Z) /\ Cardinality(Z) = 1 * Cardinality(wrote[p])
  <2>1. IsFiniteSet({p}) /\ Cardinality({p}) = 1
    BY Zenon, FS_Singleton
  <2>. QED BY Zenon, <2>1, <1>1, FS_Product
<1>4. Written' \subseteq Written
  BY Zenon DEF Written
<1>5. Written \subseteq Written' \cup Z
  <2>1. \A x \in InCall \X Block : x = <<x[1], x[2]>>
    OBVIOUS
  <2>2. \A x \in Written : x[1] = p => x \in Z
    BY Zenon, <2>1 DEF Written
  <2>3. \A x \in Written : x[1] # p => x \in Written'
    BY Zenon DEF Written
  <2>. QED BY Zenon, <2>2, <2>3
<1>. HIDE DEF Z
<1>6. IsFiniteSet(Written') /\ IsFiniteSet(Written)
  BY Zenon, <1>4, FS_Subset DEF Room
<1>7. /\ Cardinality(Written) \in Nat /\ Cardinality(Written') \in Nat
      /\ Cardinality(Written' \cap Z) \in Nat
  BY Zenon, <1>6, FS_CardinalityType, FS_Intersection
<1>8. /\ IsFiniteSet(Written' \cup Z)
      /\ Cardinality(Written' \cup Z)
           = Cardinality(Written') + Cardinality(Z) - Cardinality(Written' \cap Z)
  BY Zenon, <1>3, <1>6, FS_Union
<1>9. Cardinality(Written) <= Cardinality(Written' \cup Z)
  BY Zenon, <1>5, <1>8, FS_Subset
<1>. QED BY <1>1, <1>2, <1>3, <1>6, <1>7, <1>8, <1>9, LogAssumption

(* log_write takes a block from the reservation of its call, unless the    *)
(* block is absorbed.                                                      *)
LEMMA Logs ==
  ASSUME IInv, NEW p \in Proc, log_write(p)
  PROVE  IInv'
<1>. TypeOK /\ Calls /\ Room /\ Progress /\ Contents
  BY Zenon DEF IInv
<1>. DEFINE b == buf[p]
<1>1. /\ mode = "up" /\ pc[p] = "log_write"
      /\ lh' = IF b \in Logged(lh) THEN lh ELSE Append(lh, b)
      /\ dirty' = dirty \cup {b}
      /\ wrote' = [wrote EXCEPT ![p] = @ \cup {b}] /\ buf' = [buf EXCEPT ![p] = NoBlock]
      /\ pc' = [pc EXCEPT ![p] = "call"]
      /\ UNCHANGED <<mode, outstanding, committing, step, tail, cache, head, logblock, home,
                     calls, crashes>>
  BY Zenon DEF log_write, disk, bounds
<1>2. b \in Block /\ p \in InCall /\ ~ committing /\ step = "none"
  BY Zenon, <1>1 DEF Calls, TypeOK, InCall
<1>3. /\ pc'[p] = "call" /\ \A q \in Proc : q # p => pc'[q] = pc[q]
      /\ buf'[p] = NoBlock /\ \A q \in Proc : q # p => buf'[q] = buf[q]
      /\ wrote'[p] = wrote[p] \cup {b} /\ \A q \in Proc : q # p => wrote'[q] = wrote[q]
  BY Zenon, <1>1 DEF TypeOK
<1>4. InCall' = InCall /\ InCall \subseteq Proc
  BY Zenon, <1>1, <1>3 DEF InCall
<1>5. /\ lh' \in Seq(Block) /\ Logged(lh') = Logged(lh) \cup {b} /\ Distinct(lh')
      /\ Len(lh') = IF b \in Logged(lh) THEN Len(lh) ELSE Len(lh) + 1
  BY <1>1, <1>2, Appended DEF TypeOK, Progress
<1>. HIDE DEF b
<1>6. Calls'
  <2>1. \A q \in Proc : buf'[q] # NoBlock <=> pc'[q] = "log_write"
    BY <1>3 DEF Calls
  <2>2. \A q, r \in Proc : buf'[q] = buf'[r] /\ buf'[q] # NoBlock => q = r
    BY <1>3 DEF Calls
  <2>3. \A q \in Proc : pc'[q] = "commit" <=> pc[q] = "commit"
    BY Zenon, <1>1, <1>3
  <2>. QED BY Zenon, <2>1, <2>2, <2>3, <1>1, <1>4 DEF Calls
<1>7. Room' /\ Len(lh') <= LOGSIZE
  <2>1. \A q \in InCall : /\ wrote'[q] \subseteq Logged(lh') /\ IsFiniteSet(wrote'[q])
                          /\ Cardinality(wrote'[q]) <= OpBlocks
    <3>1. /\ wrote'[p] \subseteq Logged(lh') /\ IsFiniteSet(wrote'[p])
          /\ Cardinality(wrote'[p]) <= OpBlocks
      <4>1. IsFiniteSet(wrote[p]) /\ wrote[p] \subseteq Logged(lh)
        BY Zenon, <1>2 DEF Room
      <4>2. IsFiniteSet(wrote[p] \cup {b})
        BY Zenon, <4>1, FS_AddElement
      <4>3. Cardinality(wrote[p] \cup {b}) <= OpBlocks
        BY Zenon, <1>1 DEF Room, b
      <4>. QED BY Zenon, <4>1, <4>2, <4>3, <1>3, <1>5
    <3>. QED BY Zenon, <3>1, <1>3, <1>4, <1>5 DEF Room
  <2>2. \A q \in Proc : pc'[q] = "log_write" => Cardinality(wrote'[q] \cup {buf'[q]}) <= OpBlocks
    BY Zenon, <1>3 DEF Room
  <2>5. /\ IsFiniteSet(Written') /\ Cardinality(Written) \in Nat
        /\ Cardinality(Written') \in Nat /\ Cardinality(Written') >= Cardinality(Written)
        /\ b \notin Logged(lh) => Cardinality(Written') = Cardinality(Written) + 1
    BY Zenon, <1>1, <1>2, <1>4, OneMore
  <2>6. outstanding * MAXOPBLOCKS \in Nat /\ Len(lh) \in Nat
    BY LogAssumption DEF TypeOK
  <2>7. Len(lh') + outstanding * MAXOPBLOCKS <= LOGSIZE + Cardinality(Written')
    BY SMTT(30), <2>5, <2>6, <1>5, LogAssumption DEF Room
  <2>8. Room'
    BY Zenon, <2>1, <2>2, <2>5, <2>7, <1>1, <1>2, <1>4 DEF Room
  <2>9. Cardinality(Written') <= outstanding * MAXOPBLOCKS
    <3>1. \A q \in InCall : wrote'[q] \subseteq Block
      BY Zenon, <1>2, <1>3, <1>4 DEF TypeOK
    <3>2. \A q \in InCall : Cardinality(wrote'[q]) <= MAXOPBLOCKS
      BY <2>1, FS_CardinalityType, LogAssumption
    <3>3. Written' = {x \in InCall \X Block : x[2] \in wrote'[x[1]]}
      BY Zenon, <1>4 DEF Written
    <3>4. IsFiniteSet(InCall) /\ MAXOPBLOCKS \in Nat /\ outstanding = Cardinality(InCall)
      BY LogAssumption DEF Calls
    <3>. QED BY Zenon, <3>1, <3>2, <3>3, <3>4, <2>1, Fits
  <2>10. Len(lh') \in Nat
    BY <1>5
  <2>11. Len(lh') <= LOGSIZE
    BY <2>5, <2>6, <2>7, <2>9, <2>10, LogAssumption
  <2>. QED BY Zenon, <2>8, <2>11
<1>8. TypeOK'
  BY Zenon, <1>1, <1>2, <1>5, <1>7 DEF TypeOK
<1>9. Progress'
  BY Zenon, <1>1, <1>2, <1>5 DEF Progress
<1>10. Contents'
  <2>1. Pinned = Logged(lh) /\ Pinned' = Logged(lh')
    BY Zenon, <1>1, <1>2 DEF Pinned, Logged
  <2>2. dirty' = Pinned'
    BY Zenon, <2>1, <1>1, <1>5 DEF Contents
  <2>3. \A c \in Block : Locked(c) <=> Locked(c)' \/ c = b
    <3>1. \A c \in Block : c # NoBlock
      BY Zenon, LogAssumption
    <3>. QED BY Zenon, <3>1, <1>3 DEF Locked, b
  <2>. QED BY Zenon, <2>2, <2>3, <1>1, <1>2 DEF Contents
<1>. QED BY Zenon, <1>6, <1>7, <1>8, <1>9, <1>10 DEF IInv

(* end_op gives up the reservation of its call; the last one finds nobody  *)
(* in a call and nothing but the log dirty.                                *)
LEMMA Ends ==
  ASSUME IInv, NEW p \in Proc, end_op(p)
  PROVE  IInv'
<1>. TypeOK /\ Calls /\ Room /\ Progress /\ Contents
  BY Zenon DEF IInv
<1>1. mode = "up" /\ pc[p] = "call"
  BY Zenon DEF end_op
<1>2. p \in InCall /\ ~ committing /\ step = "none" /\ InCall \subseteq Proc
  BY Zenon, <1>1 DEF InCall, Calls
<1>3. /\ outstanding' = outstanding - 1 /\ tail' = 0
      /\ UNCHANGED <<mode, buf, wrote, lh, cache, dirty, head, logblock, home, calls, crashes>>
  BY Zenon, <1>2 DEF end_op, buffers, disk, bounds
<1>4. /\ IsFiniteSet(InCall \ {p}) /\ Cardinality(InCall \ {p}) = outstanding - 1
      /\ outstanding \in Nat \ {0} /\ (outstanding = 1 <=> InCall \ {p} = {})
  <2>1. IsFiniteSet(InCall) /\ outstanding = Cardinality(InCall)
    BY Zenon DEF Calls
  <2>2. IsFiniteSet(InCall \ {p}) /\ Cardinality(InCall \ {p}) = outstanding - 1
    BY Zenon, <2>1, <1>2, FS_RemoveElement
  <2>3. outstanding \in Nat /\ outstanding - 1 \in Nat
    BY Zenon, <2>1, <2>2, FS_CardinalityType
  <2>4. outstanding - 1 = 0 <=> InCall \ {p} = {}
    BY Zenon, <2>2, FS_EmptySet
  <2>. QED BY <2>2, <2>3, <2>4
<1>5. \A c \in Block : Locked(c)' <=> Locked(c)
  BY Zenon, <1>3 DEF Locked
<1>6. head = <<>> /\ Distinct(lh)
  BY Zenon, <1>1, <1>2 DEF Progress
<1>7. CASE outstanding = 1
  <2>1. /\ committing' = TRUE /\ pc' = [pc EXCEPT ![p] = "commit"]
        /\ step' = IF Len(lh) > 0 THEN "write_log" ELSE "done"
    BY Zenon, <1>2, <1>7 DEF end_op
  <2>2. pc'[p] = "commit" /\ \A q \in Proc : q # p => pc'[q] = pc[q] /\ q \notin InCall
    BY Zenon, <2>1, <1>4, <1>7 DEF TypeOK
  <2>3. InCall' = {}
    BY Zenon, <2>2 DEF InCall
  <2>4. TypeOK'
    <3>1. outstanding' \in Nat /\ 0 \in 0 .. LOGSIZE
      BY <1>3, <1>4, LogAssumption
    <3>. QED BY Zenon, <3>1, <2>1, <1>3 DEF TypeOK
  <2>5. Calls'
    <3>1. outstanding' = 0 /\ IsFiniteSet(InCall') /\ Cardinality(InCall') = 0
      BY <2>3, <1>3, <1>7, FS_EmptySet
    <3>2. \A q \in Proc : pc'[q] = "commit" <=> q = p
      BY Zenon, <2>2, <1>2 DEF Calls
    <3>3. \A q \in Proc : buf'[q] # NoBlock <=> pc'[q] = "log_write"
      BY Zenon, <2>2, <1>1, <1>3 DEF Calls
    <3>4. step' # "none" /\ step' # "read_head"
      BY Zenon, <2>1
    <3>. QED BY <3>1, <3>2, <3>3, <3>4, <2>1, <2>3, <1>1, <1>3 DEF Calls
  <2>6. Room'
    <3>1. Written' = {}
      BY Zenon, <2>3 DEF Written
    <3>2. IsFiniteSet(Written') /\ Cardinality(Written') = 0
      BY Zenon, <3>1, FS_EmptySet
    <3>3. \A q \in Proc : pc'[q] # "log_write"
      BY Zenon, <2>3 DEF InCall
    <3>4. Len(lh') + outstanding' * MAXOPBLOCKS <= LOGSIZE + Cardinality(Written')
      BY <3>2, <1>3, <1>7, LogAssumption DEF TypeOK
    <3>. QED BY Zenon, <3>2, <3>3, <3>4, <2>1, <2>3 DEF Room
  <2>7. Len(lh) \in Nat /\ (lh = <<>> <=> Len(lh) = 0) /\ Logged(<<>>) = {}
    BY Zenon, Listed DEF TypeOK
  <2>8. Progress'
    BY <2>1, <2>7, <1>1, <1>3, <1>6 DEF Progress, Distinct
  <2>9. Contents'
    <3>1. dirty' = Pinned'
      BY <2>1, <2>7, <1>1, <1>2, <1>3 DEF Contents, Pinned, Logged
    <3>. QED BY <3>1, <2>1, <1>3, <1>5 DEF Contents
  <2>. QED BY Zenon, <2>4, <2>5, <2>6, <2>8, <2>9 DEF IInv
<1>8. CASE outstanding # 1
  <2>1. WakeupAnd(p, "user") /\ UNCHANGED <<committing, step>>
    BY Zenon, <1>2, <1>8 DEF end_op
  <2>2. /\ pc'[p] = "user"
        /\ \A q \in Proc : q # p => pc'[q] = IF pc[q] = "sleep" THEN "begin_op" ELSE pc[q]
    BY Zenon, <2>1 DEF WakeupAnd
  <2>3. InCall' = InCall \ {p}
    BY Zenon, <2>2, <1>1 DEF InCall
  <2>4. TypeOK'
    <3>1. outstanding' \in Nat /\ 0 \in 0 .. LOGSIZE
      BY <1>3, <1>4, LogAssumption
    <3>2. pc' \in [Proc -> {"user", "begin_op", "sleep", "call", "log_write", "commit"}]
      BY Zenon, <2>1 DEF TypeOK, WakeupAnd
    <3>. QED BY Zenon, <3>1, <3>2, <2>1, <1>3 DEF TypeOK
  <2>5. Calls'
    <3>1. \A q \in Proc : pc'[q] = "commit" <=> pc[q] = "commit"
      BY Zenon, <2>2, <1>1
    <3>2. \A q \in Proc : pc'[q] = "log_write" <=> pc[q] = "log_write"
      BY Zenon, <2>2, <1>1
    <3>. QED BY Zenon, <3>1, <3>2, <2>1, <2>3, <1>1, <1>2, <1>3, <1>4 DEF Calls
  <2>6. Room'
    <3>6. IsFiniteSet(Written')
      BY Zenon, <2>3, <1>2, <1>3, OneCallLess
    <3>7. Cardinality(Written) \in Nat /\ Cardinality(Written') \in Nat
      BY Zenon, <2>3, <1>2, <1>3, OneCallLess
    <3>10. Cardinality(Written) <= Cardinality(Written') + MAXOPBLOCKS
      BY <3>7, <2>3, <1>2, <1>3, OneCallLess, LogAssumption
    <3>11. outstanding * MAXOPBLOCKS = outstanding' * MAXOPBLOCKS + MAXOPBLOCKS
      BY <1>3, <1>4, LogAssumption
    <3>12. Len(lh) \in Nat /\ outstanding' * MAXOPBLOCKS \in Nat
      BY <1>3, <1>4, LogAssumption DEF TypeOK
    <3>13. Len(lh') + outstanding' * MAXOPBLOCKS <= LOGSIZE + Cardinality(Written')
      BY SMTT(30), <3>7, <3>10, <3>11, <3>12, <1>3, LogAssumption DEF Room
    <3>14. InCall' # {}
      BY Zenon, <2>3, <1>4, <1>8
    <3>15. \A q \in Proc : pc'[q] = "log_write" => pc[q] = "log_write"
      BY Zenon, <2>2
    <3>16. \A q \in InCall' : /\ wrote'[q] \subseteq Logged(lh') /\ IsFiniteSet(wrote'[q])
                              /\ Cardinality(wrote'[q]) <= OpBlocks
      BY Zenon, <2>3, <1>3 DEF Room
    <3>. QED BY Zenon, <3>6, <3>13, <3>14, <3>15, <3>16, <1>3 DEF Room
  <2>7. Progress'
    BY <2>1, <1>2, <1>3 DEF Progress, Distinct
  <2>8. Contents'
    BY Zenon, <2>1, <1>2, <1>3, SameContents DEF Pinned, Logged
  <2>. QED BY Zenon, <2>4, <2>5, <2>6, <2>7, <2>8 DEF IInv
<1>. QED BY Zenon, <1>7, <1>8

(* While the log is committed or recovered nobody holds a block.           *)
LEMMA Quiet ==
  ASSUME TypeOK, Calls, step # "none", mode # "panic"
  PROVE  InCall = {} /\ (\A p \in Proc : buf[p] = NoBlock) /\ \A b \in Block : ~ Locked(b)
<1>1. InCall = {}
  <2>1. CASE mode = "up"
    BY Zenon, <2>1 DEF Calls
  <2>2. CASE mode = "recover"
    BY Zenon, <2>2 DEF Calls, InCall
  <2>. QED BY Zenon, <2>1, <2>2 DEF TypeOK
<1>2. \A p \in Proc : buf[p] = NoBlock
  BY Zenon, <1>1 DEF Calls, InCall
<1>. QED BY Zenon, <1>1, <1>2, LogAssumption DEF Locked

(* The end of a commit, with an empty log.                                 *)
LEMMA DoneWith ==
  ASSUME IInv, NEW p \in Proc, done(p)
  PROVE  IInv'
<1>. TypeOK /\ Calls /\ Room /\ Progress /\ Contents
  BY Zenon DEF IInv
<1>1. /\ mode = "up" /\ pc[p] = "commit" /\ step = "done"
      /\ committing' = FALSE /\ step' = "none" /\ WakeupAnd(p, "user")
      /\ UNCHANGED <<mode, buf, wrote, outstanding, lh, tail, cache, dirty, head, logblock, home,
                     calls, crashes>>
  BY Zenon DEF done, buffers, disk, bounds
<1>2. /\ pc'[p] = "user"
      /\ \A q \in Proc : q # p => pc'[q] = IF pc[q] = "sleep" THEN "begin_op" ELSE pc[q]
  BY Zenon, <1>1 DEF WakeupAnd
<1>3. InCall' = InCall
  BY Zenon, <1>1, <1>2 DEF InCall
<1>4. lh = <<>> /\ head = <<>> /\ dirty = {} /\ Logged(<<>>) = {}
  BY Zenon, <1>1, Listed DEF Progress, Contents, Pinned, TypeOK
<1>5. TypeOK'
  <2>1. pc' \in [Proc -> {"user", "begin_op", "sleep", "call", "log_write", "commit"}]
    BY Zenon, <1>1 DEF TypeOK, WakeupAnd
  <2>. QED BY Zenon, <2>1, <1>1 DEF TypeOK
<1>6. Calls'
  <2>1. \A q \in Proc : pc'[q] # "commit"
    BY Zenon, <1>1, <1>2 DEF Calls
  <2>2. \A q \in Proc : pc'[q] = "log_write" <=> pc[q] = "log_write"
    BY Zenon, <1>1, <1>2
  <2>. QED BY Zenon, <2>1, <2>2, <1>1, <1>3 DEF Calls
<1>7. Room'
  BY Zenon, <1>1, <1>2, <1>3, <1>4, SameCalls
<1>8. Progress'
  BY <1>1, <1>4 DEF Progress, Distinct
<1>9. Contents'
  <2>1. \A b \in Block : Locked(b)' <=> Locked(b)
    BY Zenon, <1>1 DEF Locked
  <2>2. Pinned' = {}
    BY Zenon, <1>1, <1>4 DEF Pinned, Logged
  <2>. QED BY Zenon, <2>1, <2>2, <1>1, <1>4 DEF Contents
<1>. QED BY Zenon, <1>5, <1>6, <1>7, <1>8, <1>9 DEF IInv

(* write_log copies one buffer to its log block.                           *)
LEMMA WritesLog ==
  ASSUME IInv, write_log
  PROVE  IInv'
<1>. TypeOK /\ Calls /\ Room /\ Progress /\ Contents
  BY Zenon DEF IInv
<1>1. /\ mode = "up" /\ step = "write_log"
      /\ logblock' = [logblock EXCEPT ![tail + 1] = bread(lh[tail + 1])]
      /\ UNCHANGED <<mode, pc, buf, wrote, outstanding, committing, lh, cache, dirty, head, home,
                     calls, crashes>>
  BY Zenon DEF write_log, procs, logvars, buffers, bounds
<1>2. \/ tail + 1 < Len(lh) /\ tail' = tail + 1 /\ step' = "write_log"
      \/ tail + 1 >= Len(lh) /\ tail' = 0 /\ step' = "write_head"
  BY <1>1 DEF write_log, TypeOK
<1>3. tail \in Nat /\ Len(lh) \in Nat /\ tail < Len(lh) /\ Len(lh) <= LOGSIZE
  BY <1>1 DEF Progress, TypeOK
<1>4. InCall' = InCall
  BY Zenon, <1>1 DEF InCall
<1>5. \A i \in 1 .. Len(lh) : lh[i] \in Block /\ lh[i] \in Logged(lh)
  BY Zenon, Listed DEF TypeOK
<1>6. tail + 1 \in 1 .. Len(lh) /\ tail + 1 \in 1 .. LOGSIZE
  BY <1>3, LogAssumption
<1>7. bread(lh[tail + 1]) = cache[lh[tail + 1]] /\ cache[lh[tail + 1]] \in Data
  BY <1>1, <1>5, <1>6 DEF Contents, Pinned, bread, TypeOK
<1>8. /\ logblock'[tail + 1] = cache[lh[tail + 1]]
      /\ \A i \in 1 .. LOGSIZE : i # tail + 1 => logblock'[i] = logblock[i]
  BY Zenon, <1>1, <1>6, <1>7 DEF TypeOK
<1>9. TypeOK'
  <2>1. tail' \in 0 .. LOGSIZE /\ logblock' \in [1 .. LOGSIZE -> Data]
    BY <1>1, <1>2, <1>3, <1>7, LogAssumption DEF TypeOK
  <2>. QED BY Zenon, <2>1, <1>1, <1>2 DEF TypeOK
<1>10. Calls'
  BY Zenon, <1>1, <1>2, <1>4 DEF Calls
<1>11. Room'
  BY Zenon, <1>1, <1>2, <1>4, SameCalls
<1>12. Progress'
  BY <1>1, <1>2, <1>3 DEF Progress, Distinct
<1>13. Contents'
  <2>1. \A b \in Block : Locked(b)' <=> Locked(b)
    BY Zenon, <1>1 DEF Locked
  <2>2. Pinned' = Pinned
    BY Zenon, <1>1, <1>2 DEF Pinned, Logged
  <2>3. \A i \in 1 .. tail + 1 : logblock'[i] = cache[lh[i]]
    <3>1. \A i \in 1 .. tail + 1 : i \in 1 .. tail \/ i = tail + 1
      BY <1>3
    <3>2. \A i \in 1 .. tail : i \in 1 .. LOGSIZE /\ i # tail + 1
      BY <1>3, LogAssumption
    <3>. QED BY Zenon, <3>1, <3>2, <1>1, <1>8 DEF Contents
  <2>4. CASE step' = "write_log"
    <3>1. tail' = tail + 1
      BY Zenon, <2>4, <1>2
    <3>. QED BY <3>1, <2>1, <2>2, <2>3, <2>4, <1>1 DEF Contents
  <2>5. CASE step' = "write_head"
    <3>1. Len(lh) = tail + 1
      BY <2>5, <1>2, <1>3
    <3>. QED BY <3>1, <2>1, <2>2, <2>3, <2>5, <1>1 DEF Contents
  <2>. QED BY Zenon, <2>4, <2>5, <1>2
<1>. QED BY Zenon, <1>9, <1>10, <1>11, <1>12, <1>13 DEF IInv

(* The header is written when all log blocks hold what the buffers hold.   *)
LEMMA WritesHead ==
  ASSUME IInv, write_head
  PROVE  IInv'
<1>. TypeOK /\ Calls /\ Room /\ Progress /\ Contents
  BY Zenon DEF IInv
<1>1. /\ mode = "up" /\ step = "write_head" /\ head' = lh /\ step' = "install_trans"
      /\ UNCHANGED <<mode, pc, buf, wrote, outstanding, committing, lh, tail, cache, dirty,
                     logblock, home, calls, crashes>>
  BY Zenon DEF write_head, procs, logvars, buffers, bounds
<1>2. InCall' = InCall
  BY Zenon, <1>1 DEF InCall
<1>3. TypeOK'
  BY Zenon, <1>1 DEF TypeOK
<1>4. Calls'
  BY Zenon, <1>1, <1>2 DEF Calls
<1>5. Room'
  BY Zenon, <1>1, <1>2, SameCalls
<1>6. Progress'
  BY <1>1 DEF Progress, Distinct
<1>7. Contents'
  <2>1. \A b \in Block : Locked(b)' <=> Locked(b)
    BY Zenon, <1>1 DEF Locked
  <2>2. tail = 0 /\ DOMAIN lh = 1 .. Len(lh)
    BY Zenon, <1>1, Listed DEF Progress, TypeOK
  <2>3. Pinned' = Pinned
    BY <2>2, <1>1 DEF Pinned, Logged
  <2>. QED BY <2>1, <2>2, <2>3, <1>1 DEF Contents
<1>. QED BY Zenon, <1>3, <1>4, <1>5, <1>6, <1>7 DEF IInv

(* install_trans brings one block home, in a commit or in a recovery.      *)
LEMMA Installs ==
  ASSUME IInv, install_trans
  PROVE  IInv'
<1>. TypeOK /\ Calls /\ Room /\ Progress /\ Contents
  BY Zenon DEF IInv
<1>. DEFINE b == lh[tail + 1]
<1>1. /\ step = "install_trans"
      /\ home' = [home EXCEPT ![b] = logblock[tail + 1]]
      /\ cache' = [cache EXCEPT ![b] = logblock[tail + 1]]
      /\ dirty' = dirty \ {b}
      /\ UNCHANGED <<mode, pc, buf, wrote, outstanding, committing, lh, head, logblock,
                     calls, crashes>>
  BY Zenon DEF install_trans, procs, logvars, bounds
<1>2. \/ tail + 1 < Len(lh) /\ tail' = tail + 1 /\ step' = "install_trans"
      \/ tail + 1 >= Len(lh) /\ tail' = 0 /\ step' = "erase"
  BY <1>1 DEF install_trans, TypeOK
<1>3. tail \in Nat /\ Len(lh) \in Nat /\ tail < Len(lh) /\ Len(lh) <= LOGSIZE
  BY <1>1 DEF Progress, TypeOK
<1>4. InCall' = InCall
  BY Zenon, <1>1 DEF InCall
<1>5. \A i \in 1 .. Len(lh) : lh[i] \in Block
  BY Zenon, Listed DEF TypeOK
<1>6. tail + 1 \in 1 .. Len(lh) /\ tail + 1 \in 1 .. LOGSIZE
  BY <1>3, LogAssumption
<1>7. b \in Block /\ logblock[tail + 1] \in Data /\ logblock[tail + 1] # NoData
  BY <1>5, <1>6, LogAssumption DEF TypeOK
<1>8. /\ home'[b] = logblock[tail + 1] /\ cache'[b] = logblock[tail + 1]
      /\ \A c \in Block : c # b => home'[c] = home[c] /\ cache'[c] = cache[c]
  BY Zenon, <1>1, <1>7 DEF TypeOK
<1>9. \A i \in 1 .. Len(lh) : lh[i] = b => i = tail + 1
  BY Zenon, <1>6 DEF Progress, Distinct
<1>. HIDE DEF b
<1>10. mode # "panic" /\ (\A c \in Block : ~ Locked(c)) /\ \A c \in Block : ~ Locked(c)'
  BY Zenon, <1>1, Quiet DEF Calls, Locked
<1>11. TypeOK'
  <2>1. tail' \in 0 .. LOGSIZE
    BY <1>2, <1>3, LogAssumption
  <2>2. home' \in [Block -> Data] /\ cache' \in [Block -> Data \cup {NoData}]
        /\ dirty' \in SUBSET Block
    BY Zenon, <1>1, <1>7 DEF TypeOK
  <2>. QED BY Zenon, <2>1, <2>2, <1>1, <1>2 DEF TypeOK
<1>12. Calls'
  BY Zenon, <1>1, <1>2, <1>4, <1>10 DEF Calls
<1>13. Room'
  BY Zenon, <1>1, <1>2, <1>4, SameCalls
<1>14. Progress'
  BY <1>1, <1>2, <1>3 DEF Progress, Distinct
<1>15. Contents'
  <2>1. dirty' = Pinned'
    <3>1. CASE mode = "recover"
      BY Zenon, <3>1, <1>1 DEF Contents, Pinned
    <3>2. CASE mode # "recover" /\ step' = "install_trans"
      <4>1. tail' = tail + 1
        BY Zenon, <3>2, <1>2
      <4>2. dirty = {lh[i] : i \in tail + 1 .. Len(lh)}
        BY Zenon, <3>2, <1>1 DEF Contents, Pinned
      <4>3. Pinned' = {lh[i] : i \in tail + 1 + 1 .. Len(lh)}
        BY Zenon, <4>1, <3>2, <1>1 DEF Pinned
      <4>4. \A i \in tail + 1 .. Len(lh) : i \in 1 .. Len(lh) /\ (i \in tail + 1 + 1 .. Len(lh) <=> i # tail + 1)
        BY <1>3
      <4>5. tail + 1 + 1 .. Len(lh) \subseteq tail + 1 .. Len(lh)
        BY <1>3
      <4>6. \A i \in tail + 1 .. Len(lh) : i \in tail + 1 + 1 .. Len(lh) <=> lh[i] # b
        BY Zenon, <4>4, <1>9 DEF b
      <4>7. dirty \ {b} = {lh[i] : i \in tail + 1 + 1 .. Len(lh)}
        BY Zenon, <4>2, <4>5, <4>6
      <4>. QED BY Zenon, <4>3, <4>7, <1>1
    <3>3. CASE mode # "recover" /\ step' = "erase"
      <4>1. Len(lh) = tail + 1
        BY <3>3, <1>2, <1>3
      <4>2. dirty = {lh[i] : i \in tail + 1 .. Len(lh)}
        BY Zenon, <3>3, <1>1 DEF Contents, Pinned
      <4>3. \A i \in tail + 1 .. Len(lh) : i = tail + 1
        BY <4>1, <1>3
      <4>4. dirty' = {}
        BY Zenon, <4>2, <4>3, <1>1 DEF b
      <4>. QED BY Zenon, <4>4, <3>3 DEF Pinned
    <3>. QED BY Zenon, <3>1, <3>2, <3>3, <1>2
  <2>2. \A c \in Block : c \in dirty' => cache'[c] # NoData
    BY Zenon, <1>1, <1>8 DEF Contents
  <2>3. \A c \in Block : c \notin dirty' => cache'[c] \in {NoData, home'[c]}
    BY Zenon, <1>1, <1>8, <1>10 DEF Contents
  <2>4. \A i \in 1 .. tail + 1 : home'[lh[i]] = logblock[i]
    <3>1. \A i \in 1 .. tail + 1 : i \in 1 .. tail \/ i = tail + 1
      BY <1>3
    <3>2. \A i \in 1 .. tail : i \in 1 .. Len(lh) /\ i # tail + 1
      BY <1>3
    <3>3. \A i \in 1 .. tail : home'[lh[i]] = home[lh[i]]
      BY Zenon, <3>2, <1>5, <1>8, <1>9
    <3>. QED BY Zenon, <3>1, <3>3, <1>1, <1>8 DEF Contents, b
  <2>5. CASE step' = "install_trans"
    <3>1. tail' = tail + 1
      BY Zenon, <2>5, <1>2
    <3>2. mode # "recover" => \A i \in tail + 1 + 1 .. Len(lh) : logblock[i] = cache'[lh[i]]
      <4>1. \A i \in tail + 1 + 1 .. Len(lh) : i \in tail + 1 .. Len(lh) /\ i \in 1 .. Len(lh) /\ i # tail + 1
        BY <1>3
      <4>. QED BY Zenon, <4>1, <1>1, <1>5, <1>8, <1>9 DEF Contents
    <3>. QED BY SMTT(30), <3>1, <3>2, <2>1, <2>2, <2>3, <2>4, <2>5, <1>1, <1>10 DEF Contents
  <2>6. CASE step' = "erase"
    <3>1. Len(lh) = tail + 1
      BY <2>6, <1>2, <1>3
    <3>. QED BY <3>1, <2>1, <2>2, <2>3, <2>4, <2>6, <1>1, <1>10 DEF Contents
  <2>. QED BY Zenon, <2>5, <2>6, <1>2
<1>. QED BY Zenon, <1>11, <1>12, <1>13, <1>14, <1>15 DEF IInv

(* The header is erased when every block of the log is home.               *)
LEMMA Erases ==
  ASSUME IInv, erase
  PROVE  IInv'
<1>. TypeOK /\ Calls /\ Room /\ Progress /\ Contents
  BY Zenon DEF IInv
<1>1. /\ step = "erase" /\ lh' = <<>> /\ head' = <<>>
      /\ UNCHANGED <<pc, buf, wrote, outstanding, committing, tail, cache, dirty, logblock, home,
                     calls, crashes>>
  BY Zenon DEF erase, procs, buffers, bounds
<1>2. mode # "panic" /\ InCall = {} /\ \A c \in Block : ~ Locked(c)
  BY Zenon, <1>1, Quiet DEF Calls
<1>3. \/ mode = "recover" /\ mode' = "up" /\ step' = "none"
      \/ mode = "up" /\ mode' = "up" /\ step' = "done"
  BY Zenon, <1>2 DEF erase, TypeOK
<1>4. InCall' = {} /\ \A c \in Block : ~ Locked(c)'
  BY Zenon, <1>1, <1>2 DEF InCall, Locked
<1>5. /\ <<>> \in Seq(Block) /\ Len(<<>>) = 0 /\ Distinct(<<>>) /\ Logged(<<>>) = {}
  BY Zenon, Listed DEF TypeOK
<1>6. TypeOK'
  BY <1>1, <1>3, <1>5, LogAssumption DEF TypeOK
<1>7. Calls'
  <2>1. mode = "recover" => ~ committing
    BY Zenon DEF Calls
  <2>2. mode = "up" => committing
    BY Zenon, <1>1 DEF Calls
  <2>. QED BY Zenon, <2>1, <2>2, <1>1, <1>2, <1>3, <1>4 DEF Calls
<1>8. Room'
  <2>1. Written = {} /\ Written' = {}
    BY Zenon, <1>2, <1>4 DEF Written
  <2>2. IsFiniteSet({}) /\ Cardinality({}) = 0 /\ outstanding = 0
    BY Zenon, <1>2, FS_EmptySet DEF Calls
  <2>3. Len(lh') + outstanding' * MAXOPBLOCKS <= LOGSIZE + Cardinality(Written')
    BY <2>1, <2>2, <1>1, <1>5, LogAssumption
  <2>4. \A p \in Proc : pc'[p] # "log_write"
    BY Zenon, <1>4 DEF InCall
  <2>. QED BY Zenon, <2>1, <2>2, <2>3, <2>4, <1>1, <1>4 DEF Room
<1>9. Progress'
  BY Zenon, <1>1, <1>3, <1>5 DEF Progress
<1>10. Contents'
  <2>1. dirty' = {} /\ Pinned' = {}
    BY Zenon, <1>1, <1>3, <1>5 DEF Contents, Pinned
  <2>. QED BY Zenon, <2>1, <1>1, <1>2, <1>3, <1>4 DEF Contents
<1>. QED BY Zenon, <1>6, <1>7, <1>8, <1>9, <1>10 DEF IInv

(* Recovery starts from the header on disk.                                *)
LEMMA ReadsHead ==
  ASSUME IInv, read_head
  PROVE  IInv'
<1>. TypeOK /\ Calls /\ Room /\ Progress /\ Contents
  BY Zenon DEF IInv
<1>1. /\ mode = "recover" /\ step = "read_head" /\ lh' = head
      /\ step' = IF head = <<>> THEN "erase" ELSE "install_trans"
      /\ UNCHANGED <<mode, pc, buf, wrote, outstanding, committing, tail, cache, dirty, head,
                     logblock, home, calls, crashes>>
  BY Zenon DEF read_head, procs, buffers, disk, bounds
<1>2. InCall = {} /\ InCall' = {} /\ (\A c \in Block : ~ Locked(c)) /\ \A c \in Block : ~ Locked(c)'
  BY Zenon, <1>1, Quiet DEF InCall, Locked
<1>3. Len(head) \in Nat /\ (head = <<>> <=> Len(head) = 0) /\ Len(head) <= LOGSIZE
  BY Zenon, Listed DEF TypeOK
<1>4. TypeOK'
  BY Zenon, <1>1 DEF TypeOK
<1>5. Calls'
  BY Zenon, <1>1, <1>2 DEF Calls
<1>6. Room'
  <2>1. Written' = {}
    BY Zenon, <1>2 DEF Written
  <2>2. IsFiniteSet({}) /\ Cardinality({}) = 0 /\ outstanding = 0
    BY Zenon, <1>2, FS_EmptySet DEF Calls
  <2>3. Len(lh') + outstanding' * MAXOPBLOCKS <= LOGSIZE + Cardinality(Written')
    BY <2>1, <2>2, <1>1, <1>3, LogAssumption
  <2>4. \A p \in Proc : pc'[p] # "log_write"
    BY Zenon, <1>2 DEF InCall
  <2>. QED BY Zenon, <2>1, <2>2, <2>3, <2>4, <1>1, <1>2 DEF Room
<1>7. Progress'
  BY <1>1, <1>3 DEF Progress, Distinct
<1>8. Contents'
  <2>1. tail = 0 /\ Pinned = {} /\ Pinned' = {}
    BY Zenon, <1>1 DEF Progress, Pinned
  <2>2. step' = "erase" => Len(lh') = 0
    BY Zenon, <1>1, <1>3
  <2>. QED BY <2>1, <2>2, <1>1, <1>2 DEF Contents
<1>. QED BY Zenon, <1>4, <1>5, <1>6, <1>7, <1>8 DEF IInv

(* A crash forgets everything but the disk.                                *)
LEMMA Crashed ==
  ASSUME IInv, Crash
  PROVE  IInv'
<1>. TypeOK /\ Calls /\ Room /\ Progress /\ Contents
  BY Zenon DEF IInv
<1>1. /\ crashes < MaxCrashes /\ crashes' = crashes + 1
      /\ mode' = "recover" /\ step' = "read_head" /\ tail' = 0
      /\ pc' = [p \in Proc |-> "user"]
      /\ buf' = [p \in Proc |-> NoBlock] /\ wrote' = [p \in Proc |-> {}]
      /\ outstanding' = 0 /\ committing' = FALSE /\ lh' = <<>>
      /\ cache' = [b \in Block |-> NoData] /\ dirty' = {}
      /\ UNCHANGED <<head, logblock, home, calls>>
  BY Zenon DEF Crash, disk
<1>2. InCall' = {} /\ Written' = {} /\ \A c \in Block : ~ Locked(c)'
  BY Zenon, <1>1, LogAssumption DEF InCall, Written, Locked
<1>3. IsFiniteSet({}) /\ Cardinality({}) = 0
  BY Zenon, FS_EmptySet
<1>4. <<>> \in Seq(Block) /\ Len(<<>>) = 0 /\ Distinct(<<>>)
  BY Zenon, Listed DEF TypeOK
<1>5. TypeOK'
  <2>1. /\ pc' \in [Proc -> {"user", "begin_op", "sleep", "call", "log_write", "commit"}]
        /\ buf' \in [Proc -> Block \cup {NoBlock}] /\ wrote' \in [Proc -> SUBSET Block]
        /\ cache' \in [Block -> Data \cup {NoData}]
    BY Zenon, <1>1
  <2>2. /\ outstanding' \in Nat /\ Len(lh') <= LOGSIZE /\ tail' \in 0 .. LOGSIZE
        /\ crashes' \in 0 .. MaxCrashes
    BY <1>1, <1>4, LogAssumption DEF TypeOK
  <2>. QED BY Zenon, <2>1, <2>2, <1>1, <1>4 DEF TypeOK
<1>6. Calls'
  BY Zenon, <1>1, <1>2, <1>3 DEF Calls
<1>7. Room'
  BY <1>1, <1>2, <1>3, <1>4, LogAssumption DEF Room
<1>8. Progress'
  BY <1>1, <1>4 DEF Progress, Distinct
<1>9. Contents'
  BY Zenon, <1>1, <1>2 DEF Contents, Pinned
<1>. QED BY Zenon, <1>5, <1>6, <1>7, <1>8, <1>9 DEF IInv

(* What mkfs and initlog leave.                                            *)
LEMMA Starts == Init => IInv
<1>. SUFFICES ASSUME Init PROVE IInv
  OBVIOUS
<1>1. InCall = {} /\ Written = {} /\ \A c \in Block : ~ Locked(c)
  BY Zenon, LogAssumption DEF Init, InCall, Written, Locked
<1>2. IsFiniteSet({}) /\ Cardinality({}) = 0
  BY Zenon, FS_EmptySet
<1>3. <<>> \in Seq(Block) /\ Len(<<>>) = 0 /\ Distinct(<<>>) /\ Logged(<<>>) = {}
  BY DEF Distinct, Logged
<1>4. TypeOK
  <2>1. /\ pc \in [Proc -> {"user", "begin_op", "sleep", "call", "log_write", "commit"}]
        /\ buf \in [Proc -> Block \cup {NoBlock}] /\ wrote \in [Proc -> SUBSET Block]
        /\ cache \in [Block -> Data \cup {NoData}]
    BY Zenon DEF Init
  <2>2. logblock \in [1 .. LOGSIZE -> Data] /\ home \in [Block -> Data]
    BY Zenon, LogAssumption DEF Init
  <2>3. /\ outstanding \in Nat /\ Len(lh) <= LOGSIZE /\ Len(head) <= LOGSIZE
        /\ tail \in 0 .. LOGSIZE /\ calls \in 0 .. MaxCalls /\ crashes \in 0 .. MaxCrashes
    BY <1>3, LogAssumption DEF Init
  <2>. QED BY Zenon, <2>1, <2>2, <2>3, <1>3 DEF Init, TypeOK
<1>5. Calls
  BY Zenon, <1>1, <1>2 DEF Init, Calls
<1>6. Room
  BY <1>1, <1>2, <1>3, LogAssumption DEF Init, Room
<1>7. Progress
  BY Zenon, <1>3 DEF Init, Progress
<1>8. Contents
  BY Zenon, <1>1, <1>3 DEF Init, Contents, Pinned
<1>. QED BY Zenon, <1>4, <1>5, <1>6, <1>7, <1>8 DEF IInv

-----------------------------------------------------------------------------
(* The invariant holds, for every number of processes, blocks, calls and   *)
(* crashes: in particular the log never outgrows LOGSIZE (TypeOK), however *)
(* the calls that begin_op lets in are interleaved.                        *)
THEOREM Invariant == Spec => []IInv
<1>1. IInv /\ [Next]_vars => IInv'
  <2>. SUFFICES ASSUME IInv, [Next]_vars PROVE IInv'
    OBVIOUS
  <2>1. CASE UNCHANGED vars
    <3>. TypeOK /\ Calls /\ Room /\ Progress /\ Contents
      BY Zenon DEF IInv
    <3>1. UNCHANGED <<mode, pc, buf, wrote, outstanding, committing, lh, step, tail, cache, dirty,
                      head, logblock, home, calls, crashes>>
      BY Zenon, <2>1 DEF vars, procs, logvars, buffers, disk, bounds
    <3>2. InCall' = InCall
      BY Zenon, <3>1 DEF InCall
    <3>3. TypeOK'
      BY Zenon, <3>1 DEF TypeOK
    <3>4. Calls'
      BY Zenon, <3>1, <3>2 DEF Calls
    <3>5. Room'
      BY Zenon, <3>1, <3>2, SameCalls
    <3>6. Progress'
      BY <3>1 DEF Progress, Distinct
    <3>7. Contents'
      BY Zenon, <3>1, SameContents DEF Pinned, Logged
    <3>. QED BY Zenon, <3>3, <3>4, <3>5, <3>6, <3>7 DEF IInv
  <2>2. ASSUME NEW p \in Proc, Call(p) \/ begin_op(p) \/ log_write(p) \/ end_op(p) \/ done(p)
        PROVE  IInv'
    BY Zenon, <2>2, Called, Begins, Logs, Ends, DoneWith
  <2>3. ASSUME NEW p \in Proc, NEW b \in Block, NEW d \in Data, Modify(p, b, d)
        PROVE  IInv'
    BY Zenon, <2>3, Modifies
  <2>4. ASSUME NEW b \in Block, Recycle(b)
        PROVE  IInv'
    BY Zenon, <2>4, Recycles
  <2>5. CASE System
    BY Zenon, <2>5, WritesLog, WritesHead, Installs, Erases, ReadsHead DEF System
  <2>6. CASE Crash
    BY Zenon, <2>6, Crashed
  <2>. QED BY Zenon, <2>1, <2>2, <2>3, <2>4, <2>5, <2>6 DEF Next
<1>. QED BY <1>1, Starts, PTL DEF Spec
=============================================================================
