------------------------------ MODULE LogProofs -----------------------------
(***************************************************************************)
(* What is proved of the log from its inductive invariant.                 *)
(***************************************************************************)
EXTENDS LogInvariant

(* When a call writes at most MAXOPBLOCKS - 1 blocks, all that is logged   *)
(* and all that the calls in progress may still log leave two blocks of    *)
(* LOGSIZE free: one for the header, and one more, which is why log_write  *)
(* never finds the log full.                                               *)
Slack ==
  /\ mode # "panic" /\ Len(head) <= LOGSIZE - 2
  /\ Len(lh) + outstanding * OpBlocks <= LOGSIZE - 2 + Cardinality(Written)
-----------------------------------------------------------------------------
(* "commits if this was the last outstanding operation" (log.c:144): when  *)
(* no call is in progress, whatever calls have written survives a crash.   *)
THEOREM QuietDurableAlways == Spec => []QuietDurable
<1>1. IInv => QuietDurable
  <2>. SUFFICES ASSUME IInv, mode = "up", outstanding = 0, ~ committing
                PROVE  Durable = Current
    BY Zenon DEF QuietDurable
  <2>. TypeOK /\ Calls /\ Room /\ Progress /\ Contents
    BY Zenon DEF IInv
  <2>1. InCall = {} /\ step = "none"
    BY Zenon, FS_EmptySet DEF Calls
  <2>2. lh = <<>> /\ head = <<>> /\ Logged(<<>>) = {}
    BY Zenon, <2>1, Listed DEF Room, Progress, TypeOK
  <2>3. dirty = {} /\ \A b \in Block : ~ Locked(b)
    BY <2>1, <2>2, LogAssumption DEF Contents, Pinned, Calls, InCall, Locked
  <2>4. \A b \in Block : bread(b) = home[b]
    BY Zenon, <2>3 DEF Contents, bread
  <2>. QED BY Zenon, <2>2, <2>4 DEF Durable, Current
<1>. QED BY <1>1, Invariant, PTL

(* A process sleeps in begin_op only while a call or a commit is under way *)
(* that will wake it, provided one call fits into the log at all.          *)
THEOREM NoLostWakeupAlways ==
  ASSUME MAXOPBLOCKS <= LOGSIZE
  PROVE  Spec => []NoLostWakeup
<1>1. Init => NoLostWakeup
  BY Zenon DEF Init, NoLostWakeup
<1>2. IInv /\ NoLostWakeup /\ [Next]_vars => NoLostWakeup'
  <2>. SUFFICES ASSUME IInv, NoLostWakeup, [Next]_vars, mode' = "up",
                       NEW q \in Proc, pc'[q] = "sleep"
                PROVE  outstanding' > 0 \/ committing'
    BY Zenon DEF NoLostWakeup
  <2>. TypeOK /\ Calls /\ Room /\ Progress
    BY Zenon DEF IInv
  <2>1. CASE UNCHANGED vars
    BY Zenon, <2>1 DEF vars, procs, logvars, NoLostWakeup
  <2>2. ASSUME NEW p \in Proc, Call(p)
        PROVE  outstanding' > 0 \/ committing'
    BY Zenon, <2>2 DEF Call, logvars, NoLostWakeup, TypeOK
  <2>3. ASSUME NEW p \in Proc, begin_op(p)
        PROVE  outstanding' > 0 \/ committing'
    <3>1. CASE q = p
      <4>1. committing \/ Len(lh) + (outstanding + 1) * MAXOPBLOCKS > LOGSIZE
        BY Zenon, <2>3, <3>1 DEF begin_op, TypeOK
      <4>2. UNCHANGED <<outstanding, committing>>
        BY Zenon, <2>3, <4>1 DEF begin_op
      <4>3. CASE outstanding = 0 /\ ~ committing
        <5>1. InCall = {} /\ step = "none"
          BY Zenon, <4>3, <2>3, FS_EmptySet DEF Calls, begin_op
        <5>2. Len(lh) = 0
          BY Zenon, <5>1, Listed DEF Room, TypeOK
        <5>. QED BY <5>2, <4>1, <4>3, LogAssumption
      <4>. QED BY <4>2, <4>3 DEF TypeOK
    <3>2. CASE q # p
      <4>1. pc[q] = "sleep" /\ mode = "up"
        BY Zenon, <2>3, <3>2 DEF begin_op, TypeOK
      <4>. QED BY <4>1, <2>3 DEF begin_op, NoLostWakeup, TypeOK
    <3>. QED BY Zenon, <3>1, <3>2
  <2>4. ASSUME NEW p \in Proc, log_write(p)
        PROVE  outstanding' > 0 \/ committing'
    BY Zenon, <2>4 DEF log_write, NoLostWakeup, TypeOK
  <2>5. ASSUME NEW p \in Proc, end_op(p)
        PROVE  outstanding' > 0 \/ committing'
    <3>1. p \in InCall /\ ~ committing
      BY Zenon, <2>5 DEF end_op, InCall, Calls
    <3>2. committing' = TRUE \/ WakeupAnd(p, "user")
      BY Zenon, <2>5, <3>1 DEF end_op
    <3>. QED BY Zenon, <3>2 DEF WakeupAnd
  <2>6. ASSUME NEW p \in Proc, done(p)
        PROVE  outstanding' > 0 \/ committing'
    BY Zenon, <2>6 DEF done, WakeupAnd
  <2>7. ASSUME NEW p \in Proc, NEW b \in Block, NEW d \in Data, Modify(p, b, d)
        PROVE  outstanding' > 0 \/ committing'
    BY Zenon, <2>7 DEF Modify, panic, procs, logvars, NoLostWakeup, TypeOK
  <2>8. ASSUME NEW b \in Block, Recycle(b)
        PROVE  outstanding' > 0 \/ committing'
    BY Zenon, <2>8 DEF Recycle, procs, logvars, NoLostWakeup
  <2>9. CASE System \/ Crash
    <3>1. mode = "recover" => FALSE
      <4>1. mode = "recover" => pc'[q] = "user"
        BY Zenon, <2>9 DEF Calls, System, write_log, write_head, install_trans, erase, read_head, Crash,
                    procs
      <4>. QED BY Zenon, <4>1
    <3>2. ~ Crash
      BY Zenon DEF Crash
    <3>3. UNCHANGED <<pc, outstanding, committing>> /\ mode = "up"
      BY Zenon, <2>9, <3>1, <3>2 DEF System, write_log, write_head, install_trans, erase, read_head, procs,
                              logvars, TypeOK
    <3>. QED BY Zenon, <3>3 DEF NoLostWakeup
  <2>. QED BY Zenon, <2>1, <2>2, <2>3, <2>4, <2>5, <2>6, <2>7, <2>8, <2>9 DEF Next
<1>. QED BY <1>1, <1>2, Invariant, PTL DEF Spec
-----------------------------------------------------------------------------
(* Steps that leave buffers and home blocks alone change no call's view.   *)
LEMMA SameView ==
  ASSUME mode # "recover", mode' # "recover", UNCHANGED <<cache, home>>
  PROVE  Current' = Current
  BY Zenon DEF Current, bread

(* Steps that do not write to the disk change nothing of what a crash      *)
(* leaves.                                                                 *)
LEMMA SameDisk ==
  ASSUME UNCHANGED <<head, logblock, home>>
  PROVE  Durable' = Durable
  BY DEF Durable, Logged

(* The log is an atomic disk: the abstract commit is the write of the      *)
(* header, the abstract crash is the crash, and a boot that recovers, or   *)
(* crashes again while it does, changes nothing that anyone will read.     *)
THEOREM ImplementsDisk == Spec => ImplementsAtomicDisk
<1>1. Init => A!Init
  <2>. SUFFICES ASSUME Init PROVE A!Init
    OBVIOUS
  <2>1. head = <<>> /\ Logged(<<>>) = {}
    BY DEF Init, Logged
  <2>2. Durable = [b \in Block |-> Initial]
    BY Zenon, <2>1 DEF Init, Durable
  <2>3. Current = [b \in Block |-> Initial]
    BY Zenon DEF Init, Current, bread
  <2>4. InCall = {}
    BY Zenon DEF Init, InCall
  <2>. QED BY Zenon, <2>2, <2>3, <2>4 DEF A!Init
<1>2. IInv /\ IInv' /\ [Next]_vars => [A!Next]_(A!vars)
  <2>. SUFFICES ASSUME IInv, IInv', [Next]_vars
                PROVE  A!Next \/ UNCHANGED <<Current, Durable, InCall>>
    BY Zenon DEF A!vars
  <2>. /\ TypeOK /\ Calls /\ Room /\ Progress /\ Contents
       /\ TypeOK' /\ Progress'
    BY Zenon DEF IInv
  <2>1. CASE UNCHANGED vars
    BY <2>1 DEF vars, procs, buffers, disk, Current, Durable, InCall, bread, Logged
  <2>2. ASSUME NEW p \in Proc, Call(p)
        PROVE  UNCHANGED <<Current, Durable, InCall>>
    <3>1. InCall' = InCall
      BY Zenon, <2>2 DEF Call, InCall, TypeOK
    <3>. QED BY Zenon, <3>1, <2>2, SameView, SameDisk DEF Call, buffers, disk
  <2>3. ASSUME NEW p \in Proc, begin_op(p)
        PROVE  A!Next \/ UNCHANGED <<Current, Durable, InCall>>
    <3>1. UNCHANGED <<Current, Durable>>
      BY Zenon, <2>3, SameView, SameDisk DEF begin_op, buffers, disk
    <3>2. pc'[p] \in {"sleep", "call"} /\ pc[p] = "begin_op" /\ \A q \in Proc : q # p => pc'[q] = pc[q]
      BY Zenon, <2>3 DEF begin_op, TypeOK
    <3>3. InCall' = InCall \/ InCall' = InCall \cup {p}
      BY Zenon, <3>2 DEF InCall
    <3>. QED BY Zenon, <3>1, <3>3 DEF A!Next, A!Begin
  <2>4. ASSUME NEW p \in Proc, log_write(p)
        PROVE  UNCHANGED <<Current, Durable, InCall>>
    <3>1. InCall' = InCall
      BY Zenon, <2>4 DEF log_write, InCall, TypeOK
    <3>. QED BY Zenon, <3>1, <2>4, SameView, SameDisk DEF log_write, disk
  <2>5. ASSUME NEW p \in Proc, end_op(p)
        PROVE  A!Next
    <3>1. pc[p] = "call" /\ p \in InCall /\ ~ committing
      BY Zenon, <2>5 DEF end_op, InCall, Calls
    <3>2. UNCHANGED <<Current, Durable>>
      BY Zenon, <2>5, <3>1, SameView, SameDisk DEF end_op, buffers, disk
    <3>3. /\ pc'[p] \in {"user", "commit"}
          /\ \A q \in Proc : q # p => pc'[q] = pc[q] \/ (pc[q] = "sleep" /\ pc'[q] = "begin_op")
      <4>1. CASE outstanding = 1
        BY Zenon, <4>1, <2>5, <3>1 DEF end_op, TypeOK
      <4>2. CASE outstanding # 1
        <5>1. WakeupAnd(p, "user")
          BY Zenon, <4>2, <2>5, <3>1 DEF end_op
        <5>. QED BY Zenon, <5>1 DEF WakeupAnd
      <4>. QED BY Zenon, <4>1, <4>2
    <3>4. InCall' = InCall \ {p}
      BY Zenon, <3>3 DEF InCall
    <3>. QED BY Zenon, <3>2, <3>4 DEF A!Next, A!End
  <2>6. ASSUME NEW p \in Proc, done(p)
        PROVE  UNCHANGED <<Current, Durable, InCall>>
    <3>1. InCall' = InCall
      BY Zenon, <2>6 DEF done, WakeupAnd, InCall
    <3>. QED BY Zenon, <3>1, <2>6, SameView, SameDisk DEF done, buffers, disk
  <2>7. ASSUME NEW p \in Proc, NEW b \in Block, NEW d \in Data, Modify(p, b, d)
        PROVE  A!Next \/ UNCHANGED <<Current, Durable, InCall>>
    <3>1. CASE panic
      <4>1. UNCHANGED <<pc, cache, head, logblock, home>> /\ mode = "up" /\ mode' = "panic"
        BY Zenon, <2>7, <3>1 DEF panic, Modify, procs, buffers, disk
      <4>. QED BY Zenon, <4>1, SameView, SameDisk DEF InCall
    <3>2. CASE ~ panic
      <4>1. /\ mode = "up" /\ pc[p] = "call" /\ pc' = [pc EXCEPT ![p] = "log_write"]
            /\ cache' = [cache EXCEPT ![b] = d] /\ UNCHANGED <<mode, head, logblock, home>>
        BY Zenon, <2>7, <3>2 DEF Modify, disk
      <4>2. InCall' = InCall /\ p \in InCall
        BY Zenon, <4>1 DEF InCall, TypeOK
      <4>3. d # NoData
        BY Zenon, LogAssumption
      <4>4. \A c \in Block : cache'[c] = IF c = b THEN d ELSE cache[c]
        BY Zenon, <4>1 DEF TypeOK
      <4>5. Current = [c \in Block |-> bread(c)]
            /\ Current' = [c \in Block |-> IF c = b THEN d ELSE bread(c)]
        BY Zenon, <4>1, <4>3, <4>4 DEF Current, bread
      <4>6. Current' = [Current EXCEPT ![b] = d]
        BY Zenon, <4>5
      <4>. QED BY Zenon, <4>1, <4>2, <4>6, SameDisk DEF A!Next, A!Write
    <3>. QED BY Zenon, <3>1, <3>2
  <2>8. ASSUME NEW b \in Block, Recycle(b)
        PROVE  UNCHANGED <<Current, Durable, InCall>>
    <3>1. /\ mode = "up" /\ b \notin dirty /\ ~ Locked(b) /\ cache[b] # NoData
          /\ cache' = [cache EXCEPT ![b] = NoData] /\ UNCHANGED <<mode, pc, head, logblock, home>>
      BY Zenon, <2>8 DEF Recycle, procs, disk
    <3>2. cache[b] = home[b] /\ \A c \in Block : cache'[c] = IF c = b THEN NoData ELSE cache[c]
      BY Zenon, <3>1 DEF Contents, TypeOK
    <3>3. Current' = Current
      BY Zenon, <3>1, <3>2 DEF Current, bread
    <3>. QED BY Zenon, <3>1, <3>3, SameDisk DEF InCall
  <2>9. CASE write_log
    <3>1. /\ mode = "up" /\ step = "write_log" /\ UNCHANGED <<mode, pc, cache, head, home>>
      BY Zenon, <2>9 DEF write_log, procs, buffers
    <3>2. head = <<>> /\ Logged(<<>>) = {}
      BY <3>1 DEF Progress, Logged
    <3>3. Durable' = Durable
      BY Zenon, <3>1, <3>2 DEF Durable
    <3>. QED BY Zenon, <3>1, <3>3, SameView DEF InCall
  <2>10. CASE write_head
    <3>1. /\ mode = "up" /\ step = "write_head" /\ head' = lh
          /\ UNCHANGED <<mode, pc, lh, cache, logblock, home>>
      BY Zenon, <2>10 DEF write_head, procs, logvars, buffers
    <3>2. InCall = {} /\ (\A c \in Block : ~ Locked(c)) /\ dirty = Logged(lh)
      BY Zenon, <3>1, Quiet DEF Contents, Pinned
    <3>3. Distinct(lh) /\ Distinct(head')
      BY Zenon, <3>1 DEF Progress
    <3>4. /\ \A i \in 1 .. Len(lh) : Durable'[lh[i]] = logblock[i]
          /\ \A c \in Block \ Logged(lh) : Durable'[c] = home[c]
      <4>1. Durable' = [c \in Block |-> IF c \in Logged(lh)
                                         THEN logblock[CHOOSE i \in DOMAIN lh : lh[i] = c]
                                         ELSE home[c]]
        BY <3>1 DEF Durable, Logged
      <4>2. \A i \in 1 .. Len(lh) : lh[i] \in Block /\ lh[i] \in Logged(lh)
        BY Zenon, Listed DEF TypeOK
      <4>3. \A i \in 1 .. Len(lh) : (CHOOSE j \in DOMAIN lh : lh[j] = lh[i]) = i
        BY Zenon, <3>3, Chosen DEF TypeOK
      <4>. QED BY Zenon, <4>1, <4>2, <4>3
    <3>5. \A i \in 1 .. Len(lh) : logblock[i] = bread(lh[i])
      <4>1. \A i \in 1 .. Len(lh) : logblock[i] = cache[lh[i]]
        BY Zenon, <3>1 DEF Contents
      <4>2. \A i \in 1 .. Len(lh) : i \in 1 .. LOGSIZE
        BY LogAssumption DEF TypeOK
      <4>3. \A i \in 1 .. LOGSIZE : logblock[i] # NoData
        BY LogAssumption DEF TypeOK
      <4>. QED BY Zenon, <4>1, <4>2, <4>3 DEF bread
    <3>6. \A c \in Block \ Logged(lh) : bread(c) = home[c]
      BY Zenon, <3>2 DEF Contents, bread
    <3>7. \A c \in Block : Durable'[c] = bread(c)
      <4>1. \A c \in Logged(lh) : \E i \in 1 .. Len(lh) : lh[i] = c
        BY Zenon, Listed DEF TypeOK
      <4>. QED BY SMTT(30), <4>1, <3>4, <3>5, <3>6
    <3>8. Durable' = Current
      BY Zenon, <3>1, <3>7 DEF Durable, Current
    <3>9. Current' = Current /\ InCall' = InCall
      BY Zenon, <3>1, SameView DEF InCall
    <3>. QED BY Zenon, <3>2, <3>8, <3>9 DEF A!Next, A!Commit
  <2>11. CASE install_trans
    <3>. DEFINE b == lh[tail + 1]
    <3>1. /\ step = "install_trans"
          /\ home' = [home EXCEPT ![b] = logblock[tail + 1]]
          /\ cache' = [cache EXCEPT ![b] = logblock[tail + 1]]
          /\ UNCHANGED <<mode, pc, lh, head, logblock>>
      BY Zenon, <2>11 DEF install_trans, procs, logvars
    <3>2. lh = head /\ Distinct(head) /\ Distinct(head')
      BY Zenon, <3>1 DEF Progress
    <3>3. tail + 1 \in 1 .. Len(lh) /\ tail + 1 \in 1 .. LOGSIZE
      BY SMTT(30), <3>1, LogAssumption DEF Progress, TypeOK
    <3>4. b \in Block /\ b \in Logged(head) /\ logblock[tail + 1] # NoData
      BY SMTT(30), <3>2, <3>3, Listed, LogAssumption DEF TypeOK
    <3>5. /\ cache'[b] = logblock[tail + 1]
          /\ \A c \in Block : c # b => home'[c] = home[c] /\ cache'[c] = cache[c]
      BY Zenon, <3>1, <3>4 DEF TypeOK
    <3>. HIDE DEF b
    <3>6. \A c \in Block \ Logged(head) : home'[c] = home[c]
      BY Zenon, <3>4, <3>5
    <3>7. Durable' = Durable
      BY <3>1, <3>6 DEF Durable, Logged
    <3>8. mode # "recover" => Current' = Current
      <4>. SUFFICES ASSUME mode # "recover" PROVE Current' = Current
        OBVIOUS
      <4>1. tail + 1 \in tail + 1 .. Len(lh)
        BY <3>3
      <4>2. cache[b] = logblock[tail + 1]
        BY Zenon, <4>1, <3>1 DEF Contents, b
      <4>3. \A c \in Block : bread(c)' = bread(c)
        BY Zenon, <4>2, <3>4, <3>5 DEF bread
      <4>. QED BY Zenon, <4>3, <3>1 DEF Current
    <3>. QED BY Zenon, <3>1, <3>7, <3>8 DEF Current, InCall
  <2>12. CASE erase
    <3>1. /\ step = "erase" /\ head' = <<>> /\ UNCHANGED <<pc, cache, logblock, home>>
      BY Zenon, <2>12 DEF erase, procs, buffers
    <3>2. mode \in {"up", "recover"} /\ mode' = "up" /\ \A c \in Block : ~ Locked(c)
      BY Zenon, <2>12, <3>1, Quiet DEF erase, Calls, TypeOK
    <3>3. lh = head /\ Distinct(head) /\ dirty = {} /\ Logged(<<>>) = {}
      BY SMTT(30), <3>1, <3>2 DEF Progress, Contents, Pinned, Logged
    <3>4. \A c \in Block : Durable[c] = home[c]
      BY SMTT(30), <3>1, <3>3, Recovered, Listed DEF Contents, TypeOK
    <3>5. Durable = [c \in Block |-> home[c]]
      BY Zenon, <3>4 DEF Durable
    <3>6. Durable' = [c \in Block |-> home[c]]
      BY Zenon, <3>1, <3>3 DEF Durable
    <3>7. \A c \in Block : bread(c) = home[c]
      BY Zenon, <3>2, <3>3 DEF Contents, bread
    <3>8. Current' = [c \in Block |-> home[c]] /\ Current = [c \in Block |-> home[c]]
      BY Zenon, <3>1, <3>2, <3>5, <3>7 DEF Current, bread
    <3>. QED BY Zenon, <3>1, <3>5, <3>6, <3>8 DEF InCall
  <2>13. CASE read_head
    <3>1. UNCHANGED <<mode, pc, head, logblock, home>> /\ mode = "recover"
      BY Zenon, <2>13 DEF read_head, procs, disk
    <3>. QED BY Zenon, <3>1, SameDisk DEF Current, InCall
  <2>14. CASE Crash
    <3>1. UNCHANGED <<head, logblock, home>> /\ mode' = "recover" /\ pc' = [p \in Proc |-> "user"]
      BY Zenon, <2>14 DEF Crash, disk
    <3>2. InCall' = {} /\ Durable' = Durable /\ Current' = Durable
      BY Zenon, <3>1, SameDisk DEF InCall, Current
    <3>. QED BY Zenon, <3>2 DEF A!Next, A!Crash
  <2>. QED BY ZenonT(40), <2>1, <2>2, <2>3, <2>4, <2>5, <2>6, <2>7, <2>8, <2>9, <2>10, <2>11, <2>12, <2>13,
              <2>14 DEF Next, System
<1>. QED BY <1>1, <1>2, Invariant, PTL DEF Spec, ImplementsAtomicDisk, A!Spec

(* The calls in progress have logged no more than their share.             *)
LEMMA HasRoom ==
  ASSUME IInv, Slack
  PROVE  Len(lh) <= LOGSIZE - 2
<1>1. Cardinality(Written) <= Cardinality(InCall) * OpBlocks
  <2>1. \A p \in InCall : wrote[p] \subseteq Block
    BY Zenon DEF IInv, TypeOK, InCall
  <2>2. IsFiniteSet(InCall) /\ OpBlocks \in Nat
    BY LogAssumption DEF IInv, Calls
  <2>3. \A p \in InCall : IsFiniteSet(wrote[p]) /\ Cardinality(wrote[p]) <= OpBlocks
    BY Zenon DEF IInv, Room
  <2>. QED BY Zenon, <2>1, <2>2, <2>3, Fits DEF Written
<1>2. Cardinality(Written) \in Nat
  BY Zenon, FS_CardinalityType DEF IInv, Room
<1>3. Len(lh) \in Nat /\ outstanding * OpBlocks \in Nat /\ outstanding = Cardinality(InCall)
  BY LogAssumption DEF IInv, TypeOK, Calls
<1>. QED BY <1>1, <1>2, <1>3, LogAssumption DEF Slack

(* With at most MAXOPBLOCKS - 1 blocks for each call, and a log on disk of *)
(* LOGSIZE blocks with its header, the log has room for all that the calls *)
(* in progress may still write, and log_write finds room for one more      *)
(* block though it looks before it takes the lock.                         *)
THEOREM NoPanicAlways ==
  ASSUME OpBlocks < MAXOPBLOCKS, MAXOPBLOCKS < LOGSIZE, nlog = LOGSIZE
  PROVE  Spec => []NoPanic
<1>. USE DEF Slack
<1>1. Init => Slack
  <2>. SUFFICES ASSUME Init PROVE Slack
    OBVIOUS
  <2>1. Written = {} /\ Cardinality({}) = 0
    BY Zenon, FS_EmptySet DEF Init, InCall, Written
  <2>. QED BY <2>1, LogAssumption DEF Init
<1>2. IInv /\ Slack /\ IInv' /\ [Next]_vars => Slack'
  <2>. SUFFICES ASSUME IInv, Slack, IInv', [Next]_vars PROVE Slack'
    OBVIOUS
  <2>. TypeOK /\ Calls /\ Room /\ Progress /\ TypeOK' /\ Calls' /\ Room'
    BY Zenon DEF IInv
  <2>. HIDE DEF Slack
  <2>1. Len(lh) \in Nat /\ outstanding \in Nat /\ Len(lh) <= LOGSIZE - 2
    BY HasRoom DEF TypeOK
  <2>2. Cardinality(Written) \in Nat /\ Cardinality(Written') \in Nat
    <3>1. IsFiniteSet(Written) /\ IsFiniteSet(Written')
      BY Zenon DEF Room
    <3>. QED BY Zenon, <3>1, FS_CardinalityType
  <2>3. ASSUME UNCHANGED <<mode, head, lh, outstanding>>, InCall' = InCall, UNCHANGED wrote
        PROVE  Slack'
    BY Zenon, <2>3 DEF Slack, Written
  <2>4. CASE UNCHANGED vars
    BY Zenon, <2>3, <2>4 DEF vars, procs, logvars, disk, InCall
  <2>5. ASSUME NEW p \in Proc, Call(p)
        PROVE  Slack'
    BY Zenon, <2>3, <2>5 DEF Call, logvars, disk, InCall, TypeOK
  <2>6. ASSUME NEW p \in Proc, begin_op(p)
        PROVE  Slack'
    <3>1. CASE committing \/ Len(lh) + (outstanding + 1) * MAXOPBLOCKS > LOGSIZE
      <4>1. /\ pc' = [pc EXCEPT ![p] = "sleep"] /\ UNCHANGED <<outstanding, wrote>>
            /\ pc[p] = "begin_op" /\ UNCHANGED <<mode, lh, head>>
        BY Zenon, <3>1, <2>6 DEF begin_op, disk
      <4>2. InCall' = InCall
        BY Zenon, <4>1 DEF InCall, TypeOK
      <4>. QED BY Zenon, <4>1, <4>2, <2>3
    <3>2. CASE ~ (committing \/ Len(lh) + (outstanding + 1) * MAXOPBLOCKS > LOGSIZE)
      <4>1. outstanding' = outstanding + 1 /\ UNCHANGED <<mode, lh, head>> /\ mode = "up"
        BY Zenon, <3>2, <2>6 DEF begin_op, disk
      <4>2. Len(lh) + (outstanding + 1) * OpBlocks <= LOGSIZE - 2
        <5>1. CASE outstanding = 0
          <6>1. InCall = {} /\ step = "none"
            BY Zenon, <5>1, <3>2, <4>1, FS_EmptySet DEF Calls
          <6>2. Len(lh) = 0
            BY Zenon, <6>1, Listed DEF Room, TypeOK
          <6>. QED BY <6>2, <5>1, LogAssumption
        <5>2. CASE outstanding # 0
          <6>1. (outstanding + 1) * (MAXOPBLOCKS - OpBlocks) >= outstanding + 1
            BY <2>1, LogAssumption
          <6>2. (outstanding + 1) * (MAXOPBLOCKS - OpBlocks)
                  = (outstanding + 1) * MAXOPBLOCKS - (outstanding + 1) * OpBlocks
            BY <2>1, LogAssumption
          <6>3. (outstanding + 1) * MAXOPBLOCKS \in Nat /\ (outstanding + 1) * OpBlocks \in Nat
            BY <2>1, LogAssumption
          <6>. QED BY SMTT(30), <6>1, <6>2, <6>3, <5>2, <3>2, <2>1, LogAssumption
        <5>. QED BY Zenon, <5>1, <5>2
      <4>3. (outstanding + 1) * OpBlocks \in Nat
        BY <2>1, LogAssumption
      <4>4. Len(lh') + outstanding' * OpBlocks <= LOGSIZE - 2 + Cardinality(Written')
        BY SMTT(30), <4>1, <4>2, <4>3, <2>1, <2>2, LogAssumption
      <4>. QED BY Zenon, <4>1, <4>4 DEF Slack
    <3>. QED BY Zenon, <3>1, <3>2
  <2>7. ASSUME NEW p \in Proc, log_write(p)
        PROVE  Slack'
    <3>1. /\ pc[p] = "log_write" /\ lh' = IF buf[p] \in Logged(lh) THEN lh ELSE Append(lh, buf[p])
          /\ wrote' = [wrote EXCEPT ![p] = @ \cup {buf[p]}]
          /\ pc' = [pc EXCEPT ![p] = "call"] /\ UNCHANGED <<mode, outstanding, head>>
      BY Zenon, <2>7 DEF log_write, disk
    <3>2. InCall' = InCall /\ p \in InCall /\ buf[p] \in Block
      BY ZenonT(40), <3>1 DEF InCall, TypeOK, Calls
    <3>3. Len(lh') = IF buf[p] \in Logged(lh) THEN Len(lh) ELSE Len(lh) + 1
      BY Zenon, <3>1, <3>2, Appended DEF TypeOK
    <3>4. /\ Cardinality(Written') >= Cardinality(Written)
          /\ buf[p] \notin Logged(lh) => Cardinality(Written') = Cardinality(Written) + 1
      BY Zenon, <3>1, <3>2, OneMore
    <3>5. outstanding * OpBlocks \in Nat
      BY <2>1, LogAssumption
    <3>6. Len(lh') + outstanding * OpBlocks <= LOGSIZE - 2 + Cardinality(Written')
      <4>1. Len(lh) + outstanding * OpBlocks <= LOGSIZE - 2 + Cardinality(Written)
        BY Zenon DEF Slack
      <4>2. CASE buf[p] \in Logged(lh)
        BY SMTT(30), <4>1, <4>2, <3>3, <3>4, <3>5, <2>1, <2>2, LogAssumption
      <4>3. CASE buf[p] \notin Logged(lh)
        BY SMTT(30), <4>1, <4>3, <3>3, <3>4, <3>5, <2>1, <2>2, LogAssumption
      <4>. QED BY Zenon, <4>2, <4>3
    <3>. QED BY Zenon, <3>1, <3>6 DEF Slack
  <2>8. ASSUME NEW p \in Proc, end_op(p)
        PROVE  Slack'
    <3>1. pc[p] = "call" /\ p \in InCall /\ ~ committing /\ outstanding \in Nat
      BY Zenon, <2>8 DEF end_op, InCall, Calls, TypeOK
    <3>2. outstanding' = outstanding - 1 /\ UNCHANGED <<mode, wrote, lh, head>>
      BY Zenon, <2>8, <3>1 DEF end_op, disk
    <3>3. InCall' = InCall \ {p}
      <4>1. CASE outstanding = 1
        BY Zenon, <4>1, <2>8, <3>1 DEF end_op, InCall, TypeOK
      <4>2. CASE outstanding # 1
        <5>1. WakeupAnd(p, "user")
          BY Zenon, <4>2, <2>8, <3>1 DEF end_op
        <5>. QED BY Zenon, <5>1 DEF WakeupAnd, InCall
      <4>. QED BY Zenon, <4>1, <4>2
    <3>4. Cardinality(Written) <= Cardinality(Written') + OpBlocks
      BY Zenon, <3>1, <3>2, <3>3, OneCallLess
    <3>5. outstanding * OpBlocks = outstanding' * OpBlocks + OpBlocks
      BY <3>1, <3>2, LogAssumption
    <3>6. outstanding' * OpBlocks \in Int /\ outstanding * OpBlocks \in Int
      BY <3>1, <3>2, LogAssumption
    <3>7. Len(lh') + outstanding' * OpBlocks <= LOGSIZE - 2 + Cardinality(Written')
      BY SMTT(30), <3>2, <3>4, <3>5, <3>6, <2>1, <2>2, LogAssumption DEF Slack
    <3>. QED BY Zenon, <3>2, <3>7 DEF Slack
  <2>9. ASSUME NEW p \in Proc, done(p)
        PROVE  Slack'
    <3>1. InCall' = InCall
      BY Zenon, <2>9 DEF done, WakeupAnd, InCall
    <3>. QED BY Zenon, <3>1, <2>3, <2>9 DEF done, disk
  <2>10. ASSUME NEW p \in Proc, NEW b \in Block, NEW d \in Data, Modify(p, b, d)
         PROVE  Slack'
    <3>1. pc[p] = "call" /\ mode = "up"
      BY Zenon, <2>10 DEF Modify
    <3>2. p \in InCall
      BY Zenon, <3>1 DEF InCall
    <3>3. ~ outstanding < 1
      BY <3>2, <2>1, FS_EmptySet DEF Calls
    <3>4. ~ (Len(lh) >= LOGSIZE \/ Len(lh) >= nlog - 1)
      BY <2>1, LogAssumption
    <3>5. pc' = [pc EXCEPT ![p] = "log_write"] /\ UNCHANGED <<mode, wrote, outstanding, lh, head>>
      BY Zenon, <2>10, <3>3, <3>4 DEF Modify, logvars, disk
    <3>6. InCall' = InCall
      BY Zenon, <3>1, <3>5 DEF InCall, TypeOK
    <3>. QED BY Zenon, <3>5, <3>6, <2>3
  <2>11. ASSUME NEW b \in Block, Recycle(b)
         PROVE  Slack'
    BY Zenon, <2>3, <2>11 DEF Recycle, procs, logvars, disk, InCall
  <2>12. CASE write_log \/ install_trans
    BY Zenon, <2>3, <2>12 DEF write_log, install_trans, procs, logvars, disk, InCall
  <2>13. CASE write_head
    <3>1. head' = lh /\ UNCHANGED <<mode, pc, wrote, outstanding, lh>>
      BY Zenon, <2>13 DEF write_head, procs, logvars
    <3>2. Written' = Written
      BY Zenon, <3>1 DEF Written, InCall
    <3>. QED BY Zenon, <3>1, <3>2, <2>1 DEF Slack
  <2>14. CASE erase \/ read_head \/ Crash
    <3>1. InCall' = {}
      <4>1. CASE erase
        BY Zenon, <4>1, Quiet DEF erase, procs, InCall, Slack
      <4>2. CASE read_head
        BY Zenon, <4>2, Quiet DEF read_head, procs, InCall
      <4>3. CASE Crash
        BY Zenon, <4>3 DEF Crash, InCall
      <4>. QED BY Zenon, <4>1, <4>2, <4>3, <2>14
    <3>2. outstanding' = 0
      BY Zenon, <3>1, FS_EmptySet DEF Calls
    <3>3. Len(lh') \in Nat /\ Len(lh') <= LOGSIZE - 2 /\ Len(head') <= LOGSIZE - 2
      <4>1. Len(<<>>) = 0 /\ 0 <= LOGSIZE - 2 /\ Len(head) \in Nat /\ Len(head) <= LOGSIZE - 2
        BY SMTT(30), LogAssumption DEF Slack, TypeOK
      <4>2. CASE erase
        BY Zenon, <4>1, <4>2 DEF erase
      <4>3. CASE read_head
        BY Zenon, <4>1, <4>3 DEF read_head, disk
      <4>4. CASE Crash
        BY Zenon, <4>1, <4>4 DEF Crash, disk
      <4>. QED BY ZenonT(40), <4>2, <4>3, <4>4, <2>14
    <3>4. mode' # "panic"
      BY Zenon, <2>14 DEF erase, read_head, Crash, Slack
    <3>5. Len(lh') + outstanding' * OpBlocks <= LOGSIZE - 2 + Cardinality(Written')
      BY SMTT(30), <3>2, <3>3, <2>2, LogAssumption
    <3>. QED BY Zenon, <3>3, <3>4, <3>5 DEF Slack
  <2>. QED BY ZenonT(40), <2>4, <2>5, <2>6, <2>7, <2>8, <2>9, <2>10, <2>11, <2>12, <2>13, <2>14 DEF Next, System
<1>3. IInv /\ Slack => NoPanic
  <2>. SUFFICES ASSUME IInv, Slack PROVE NoPanic
    OBVIOUS
  <2>1. Len(lh) <= LOGSIZE - 2 /\ Len(lh) \in Nat
    BY HasRoom DEF IInv, TypeOK
  <2>. QED BY <2>1, LogAssumption DEF NoPanic
<1>. HIDE DEF Slack
<1>. QED BY <1>1, <1>2, <1>3, Invariant, PTL DEF Spec

=============================================================================
