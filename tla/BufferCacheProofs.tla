-------------------------- MODULE BufferCacheProofs -------------------------
(***************************************************************************)
(* The buffer cache gives a block to one process at a time, with what was  *)
(* last put into it, wakes whoever sleeps in it, and has a buffer for each *)
(* process that wants one, for any number of processes, buffers and        *)
(* blocks.                                                                 *)
(***************************************************************************)
EXTENDS BufferCache, FiniteSetTheorems, TLAPS

(* What the proofs need of the constants: a value that is no block, and    *)
(* finitely many processes.                                                *)
Ordinary ==
  /\ NoBlock \notin Block /\ IsFiniteSet(Proc)
  /\ NBUF \in Nat /\ MaxPinned \in Nat /\ Initial \in Data

(* Where a process has the sleep lock of its buffer, and where it may wait *)
(* for the disk.                                                           *)
Waiting == {"io", "io_asleep"}
Holding == Waiting \cup {"locked", "have", "bwrite"}

(* Every buffer is in the list.                                            *)
Listed == list \in [Buf -> Buf] /\ \A b \in Buf : \E i \in Buf : list[i] = b

(* The types of the other variables.                                       *)
TypeOK ==
  /\ blockno \in [Buf -> Block \cup {NoBlock}] /\ flags \in [Buf -> SUBSET {"V", "D"}]
  /\ refcnt \in [Buf -> Nat] /\ owner \in [Buf -> Hand \cup {NoOne}] /\ data \in [Buf -> Data]
  /\ idequeue \in Seq(Buf) /\ disk \in [Block -> Data]
  /\ pc \in [Hand -> Holding \cup {"user", "lock", "lock_asleep", "brelse"}]
  /\ buf \in [Hand -> Buf \cup {NoBuf}] /\ panicked \in BOOLEAN

(* No block is in two buffers.                                             *)
Once == \A b, c \in Buf : blockno[b] = blockno[c] /\ blockno[b] # NoBlock => b = c

(* refcnt counts the processes that have a buffer or wait for its lock.    *)
Users(b) == {p \in Hand : buf[p] = b}
Refs ==
  /\ \A b \in Buf : refcnt[b] = Cardinality(Users(b))
  /\ \A p \in Hand : pc[p] = "user" <=> buf[p] = NoBuf
  /\ \A p \in Hand : buf[p] # NoBuf => blockno[buf[p]] # NoBlock

(* The sleep locks.                                                        *)
Owners ==
  /\ \A b \in Buf : owner[b] # NoOne => buf[owner[b]] = b /\ pc[owner[b]] \in Holding
  /\ \A p \in Hand : pc[p] \in Holding => owner[buf[p]] = p
  /\ \A p \in Hand : pc[p] = "lock_asleep" => owner[buf[p]] # NoOne

(* The queue has no buffer twice, and a process for each, which waits.     *)
Queue ==
  /\ \A i, j \in 1 .. Len(idequeue) : idequeue[i] = idequeue[j] => i = j
  /\ \A b \in Queued : owner[b] # NoOne /\ pc[owner[b]] \in Waiting /\ flags[b] # {"V"}
  /\ \A p \in Hand : pc[p] \in Waiting => buf[p] \in Queued \/ flags[buf[p]] = {"V"}
  /\ \A p \in Hand : pc[p] = "io_asleep" => buf[p] \in Queued

(* The disk works on the first request.                                    *)
Told ==
  IF idequeue = <<>> THEN NoCommand
  ELSE IF "D" \in flags[Head(idequeue)]
  THEN <<"write", blockno[Head(idequeue)], data[Head(idequeue)]>>
  ELSE <<"read", blockno[Head(idequeue)]>>

(* What a buffer holds: what the disk has if it is valid and clean.        *)
Contents ==
  /\ \A b \in Buf : "D" \in flags[b] => "V" \in flags[b]
  /\ \A b \in Buf : "V" \in flags[b] => blockno[b] # NoBlock
  /\ \A b \in Buf : flags[b] = {"V"} => data[b] = disk[blockno[b]]
  /\ \A p \in Hand : pc[p] \in {"have", "bwrite"} => "V" \in flags[buf[p]]
  /\ \A p \in Hand : pc[p] = "bwrite" => "D" \in flags[buf[p]]

(* The bound on the blocks that the log has pinned.                        *)
Pins == Cardinality(Pinned) <= MaxPinned

(* The inductive invariant.                                                *)
IInv ==
  /\ Listed /\ TypeOK /\ Once /\ Refs /\ Owners /\ Queue /\ command = Told /\ Contents /\ Pins
  /\ BuffersSuffice
-----------------------------------------------------------------------------
(* A process has two hands.                                                *)
LEMMA Hands ==
  ASSUME Ordinary
  PROVE  /\ NoOne \notin Hand /\ IsFiniteSet(Hand)
         /\ Cardinality(Proc) \in Nat /\ Cardinality(Hand) = 2 * Cardinality(Proc)
<1>1. IsFiniteSet({1, 2}) /\ Cardinality({1, 2}) = 2
  <2>1. IsFiniteSet({1}) /\ Cardinality({1}) = 1
    BY Zenon, FS_Singleton
  <2>2. 2 \notin {1} /\ {1, 2} = {1} \cup {2} /\ 1 + 1 = 2
    OBVIOUS
  <2>3. IsFiniteSet({1} \cup {2}) /\ Cardinality({1} \cup {2}) = Cardinality({1}) + 1
    BY Zenon, <2>1, <2>2, FS_AddElement
  <2>. QED BY Zenon, <2>1, <2>2, <2>3
<1>2. IsFiniteSet(Hand) /\ Cardinality(Hand) = Cardinality(Proc) * Cardinality({1, 2})
  BY Zenon, <1>1, FS_Product DEF Hand, Ordinary
<1>3. Cardinality(Proc) \in Nat
  BY Zenon, FS_CardinalityType DEF Ordinary
<1>4. NoOne \notin Hand
  BY DEF NoOne, Hand
<1>. QED BY <1>1, <1>2, <1>3, <1>4

(* Buffers are finitely many, and so are the users of one.                 *)
LEMMA Finite ==
  ASSUME Ordinary
  PROVE  /\ IsFiniteSet(Buf) /\ Cardinality(Buf) = NBUF /\ NoBuf \notin Buf
         /\ \A b : IsFiniteSet(Users(b)) /\ Cardinality(Users(b)) \in Nat
<1>1. IsFiniteSet(Buf) /\ Cardinality(Buf) = IF 1 > NBUF THEN 0 ELSE NBUF - 1 + 1
  BY FS_Interval DEF Buf, Ordinary
<1>2. Cardinality(Buf) = NBUF /\ NoBuf \notin Buf
  BY <1>1 DEF Buf, NoBuf, Ordinary
<1>3. ASSUME NEW b PROVE IsFiniteSet(Users(b)) /\ Cardinality(Users(b)) \in Nat
  <2>1. Users(b) \subseteq Hand
    BY Zenon DEF Users
  <2>. QED BY Zenon, <2>1, FS_Subset, FS_CardinalityType, Hands
<1>. QED BY Zenon, <1>1, <1>2, <1>3

(* Steps after which no more buffers are pinned keep the bound.            *)
LEMMA FewerPinned ==
  ASSUME Ordinary, Pins, Pinned' \subseteq Pinned
  PROVE  Pins'
<1>1. IsFiniteSet(Pinned)
  BY Zenon, Finite, FS_Subset DEF Pinned
<1>2. Cardinality(Pinned') <= Cardinality(Pinned) /\ Cardinality(Pinned') \in Nat
      /\ Cardinality(Pinned) \in Nat
  BY Zenon, <1>1, FS_Subset, FS_CardinalityType
<1>. QED BY <1>2 DEF Pins, Ordinary

(* A process takes a buffer.                                               *)
LEMMA Taken ==
  ASSUME Ordinary, TypeOK, NEW p \in Hand, NEW b \in Buf, buf[p] = NoBuf,
         buf' = [buf EXCEPT ![p] = b]
  PROVE  /\ Cardinality(Users(b)') = Cardinality(Users(b)) + 1
         /\ \A c \in Buf : c # b => Cardinality(Users(c)') = Cardinality(Users(c))
<1>1. NoBuf # b /\ NoBuf \notin Buf
  BY Zenon, Finite
<1>2. Users(b)' = Users(b) \cup {p} /\ p \notin Users(b)
  BY <1>1 DEF Users, TypeOK
<1>3. ASSUME NEW c \in Buf, c # b PROVE Users(c)' = Users(c)
  BY <1>1, <1>3 DEF Users, TypeOK
<1>. QED BY Zenon, <1>2, <1>3, Finite, FS_AddElement

(* A process gives a buffer back.                                          *)
LEMMA Returned ==
  ASSUME Ordinary, TypeOK, NEW p \in Hand, NEW b \in Buf, buf[p] = b,
         buf' = [buf EXCEPT ![p] = NoBuf]
  PROVE  /\ Cardinality(Users(b)') = Cardinality(Users(b)) - 1
         /\ \A c \in Buf : c # b => Cardinality(Users(c)') = Cardinality(Users(c))
<1>1. NoBuf # b /\ NoBuf \notin Buf
  BY Zenon, Finite
<1>2. Users(b)' = Users(b) \ {p} /\ p \in Users(b)
  BY <1>1 DEF Users, TypeOK
<1>3. ASSUME NEW c \in Buf, c # b PROVE Users(c)' = Users(c)
  BY <1>1, <1>3 DEF Users, TypeOK
<1>. QED BY ZenonT(40), <1>2, <1>3, Finite, FS_RemoveElement

(* A buffer that nobody references is nobody's, not even in the queue.     *)
LEMMA Idle ==
  ASSUME Ordinary, TypeOK, Refs, Owners, Queue, NEW b \in Buf, refcnt[b] = 0
  PROVE  (\A p \in Hand : buf[p] # b) /\ owner[b] = NoOne /\ b \notin Queued
<1>1. Users(b) = {}
  <2>1. Cardinality(Users(b)) = 0 /\ IsFiniteSet(Users(b))
    BY Zenon, Finite DEF Refs
  <2>. QED BY Zenon, <2>1, FS_EmptySet
<1>2. \A p \in Hand : buf[p] # b
  BY Zenon, <1>1 DEF Users
<1>3. owner[b] = NoOne
  <2>1. owner[b] \in Hand \cup {NoOne}
    BY Zenon DEF TypeOK
  <2>2. owner[b] # NoOne => buf[owner[b]] = b
    BY Zenon DEF Owners
  <2>. QED BY Zenon, <1>2, <2>1, <2>2
<1>. QED BY Zenon, <1>2, <1>3 DEF Queue

(* A request at the end of the queue.                                      *)
LEMMA Appended ==
  ASSUME TypeOK, NEW b \in Buf, idequeue' = Append(idequeue, b)
  PROVE  /\ idequeue' \in Seq(Buf) /\ Queued' = Queued \cup {b} /\ idequeue' # <<>>
         /\ idequeue # <<>> => Head(idequeue') = Head(idequeue)
         /\ idequeue = <<>> => Head(idequeue') = b
         /\ (\A i, j \in 1 .. Len(idequeue) : idequeue[i] = idequeue[j] => i = j) /\ b \notin Queued
              => \A i, j \in 1 .. Len(idequeue') : idequeue'[i] = idequeue'[j] => i = j
<1>. DEFINE q == idequeue
            t == idequeue'
<1>0. q \in Seq(Buf) /\ t \in Seq(Buf) /\ Len(t) = Len(q) + 1 /\ Len(q) \in Nat
  BY DEF TypeOK
<1>1. /\ q \in Seq(Buf) /\ t \in Seq(Buf) /\ Len(t) = Len(q) + 1 /\ Len(q) \in Nat
      /\ t # <<>>
  BY <1>0
<1>2. t[Len(q) + 1] = b /\ \A i \in 1 .. Len(q) : t[i] = q[i]
  BY DEF TypeOK
<1>3. DOMAIN q = 1 .. Len(q) /\ DOMAIN t = 1 .. Len(q) + 1
  BY <1>1
<1>4. q # <<>> => Head(t) = Head(q)
  BY DEF TypeOK
<1>5. q = <<>> => Head(t) = b
  BY DEF TypeOK
<1>. HIDE DEF q, t
<1>6. \A i \in 1 .. Len(q) + 1 : i = Len(q) + 1 \/ i \in 1 .. Len(q)
  BY <1>1
<1>7. 1 .. Len(q) \subseteq 1 .. Len(q) + 1 /\ Len(q) + 1 \in 1 .. Len(q) + 1
  BY <1>1
<1>8. {t[i] : i \in DOMAIN t} = {q[i] : i \in DOMAIN q} \cup {b}
  <2>1. ASSUME NEW x \in {t[i] : i \in DOMAIN t} PROVE x \in {q[i] : i \in DOMAIN q} \cup {b}
    BY Zenon, <1>2, <1>3, <1>6
  <2>2. ASSUME NEW x \in {q[i] : i \in DOMAIN q} \cup {b} PROVE x \in {t[i] : i \in DOMAIN t}
    <3>1. CASE x = b
      BY Zenon, <3>1, <1>2, <1>3, <1>7
    <3>2. CASE x # b
      <4>1. PICK i \in DOMAIN q : x = q[i]
        BY Zenon, <3>2
      <4>2. i \in DOMAIN t /\ t[i] = x
        BY Zenon, <4>1, <1>2, <1>3, <1>7
      <4>. QED BY Zenon, <4>2
    <3>. QED BY Zenon, <3>1, <3>2
  <2>. QED BY Zenon, <2>1, <2>2
<1>9. ASSUME \A i, j \in 1 .. Len(q) : q[i] = q[j] => i = j, b \notin {q[i] : i \in DOMAIN q}
      PROVE  \A i, j \in 1 .. Len(t) : t[i] = t[j] => i = j
  <2>. SUFFICES ASSUME NEW i \in 1 .. Len(q) + 1, NEW j \in 1 .. Len(q) + 1, t[i] = t[j] PROVE i = j
    BY <1>1
  <2>1. CASE i \in 1 .. Len(q) /\ j \in 1 .. Len(q)
    BY Zenon, <2>1, <1>2, <1>9
  <2>2. CASE i = Len(q) + 1 /\ j \in 1 .. Len(q)
    BY Zenon, <2>2, <1>2, <1>3, <1>9
  <2>3. CASE j = Len(q) + 1 /\ i \in 1 .. Len(q)
    BY Zenon, <2>3, <1>2, <1>3, <1>9
  <2>. QED BY Zenon, <2>1, <2>2, <2>3, <1>6
<1>. QED BY SMTT(30), <1>1, <1>4, <1>5, <1>8, <1>9 DEF q, t, Queued

(* The first request is taken out of the queue.                            *)
LEMMA Popped ==
  ASSUME TypeOK, idequeue # <<>>, idequeue' = Tail(idequeue),
         \A i, j \in 1 .. Len(idequeue) : idequeue[i] = idequeue[j] => i = j
  PROVE  /\ idequeue' \in Seq(Buf) /\ Queued' = Queued \ {Head(idequeue)}
         /\ Head(idequeue) \in Queued /\ Queued \subseteq Buf
         /\ idequeue' # <<>> => Head(idequeue') \in Queued'
         /\ \A i, j \in 1 .. Len(idequeue') : idequeue'[i] = idequeue'[j] => i = j
<1>. DEFINE q == idequeue
            t == idequeue'
<1>1. /\ q \in Seq(Buf) /\ t \in Seq(Buf) /\ Len(t) = Len(q) - 1 /\ Len(q) \in Nat \ {0}
      /\ Head(q) = q[1]
  BY DEF TypeOK
<1>2. \A i \in 1 .. Len(t) : t[i] = q[i + 1]
  BY DEF TypeOK
<1>3. DOMAIN q = 1 .. Len(q) /\ DOMAIN t = 1 .. Len(t) /\ 1 \in 1 .. Len(q)
  BY <1>1
<1>4. t # <<>> => 1 \in 1 .. Len(t) /\ Head(t) = t[1]
  BY <1>1
<1>5. \A i \in 1 .. Len(q) : q[i] \in Buf
  BY <1>1
<1>. HIDE DEF q, t
<1>6. \A i \in 1 .. Len(t) : i + 1 \in 1 .. Len(q) /\ i + 1 # 1
  BY <1>1
<1>7. \A i \in 1 .. Len(q) : i # 1 => i - 1 \in 1 .. Len(t) /\ (i - 1) + 1 = i
  BY <1>1
<1>8. ASSUME NEW i \in 1 .. Len(t), NEW j \in 1 .. Len(t), t[i] = t[j] PROVE i = j
  <2>1. i + 1 = j + 1
    BY Zenon, <1>2, <1>6, <1>8 DEF q
  <2>. QED BY <2>1
<1>9. {t[i] : i \in DOMAIN t} = {q[i] : i \in DOMAIN q} \ {q[1]}
  <2>1. ASSUME NEW x \in {t[i] : i \in DOMAIN t} PROVE x \in {q[i] : i \in DOMAIN q} \ {q[1]}
    <3>1. PICK i \in 1 .. Len(t) : x = q[i + 1]
      BY Zenon, <1>2, <1>3
    <3>2. x # q[1]
      BY Zenon, <3>1, <1>3, <1>6 DEF q
    <3>. QED BY Zenon, <3>1, <3>2, <1>3, <1>6
  <2>2. ASSUME NEW x \in {q[i] : i \in DOMAIN q} \ {q[1]} PROVE x \in {t[i] : i \in DOMAIN t}
    <3>1. PICK i \in 1 .. Len(q) : x = q[i] /\ i # 1
      BY Zenon, <1>3
    <3>2. i - 1 \in 1 .. Len(t) /\ t[i - 1] = x
      BY Zenon, <3>1, <1>2, <1>7
    <3>. QED BY Zenon, <3>2, <1>3
  <2>. QED BY Zenon, <2>1, <2>2
<1>10. t # <<>> => Head(t) \in {t[i] : i \in DOMAIN t}
  BY Zenon, <1>3, <1>4
<1>11. q[1] \in {q[i] : i \in DOMAIN q} /\ {q[i] : i \in DOMAIN q} \subseteq Buf
  BY Zenon, <1>3, <1>5
<1>. QED BY Zenon, <1>1, <1>8, <1>9, <1>10, <1>11 DEF q, t, Queued
-----------------------------------------------------------------------------
(* What the functions of the state give.                                   *)
LEMMA Types ==
  ASSUME TypeOK
  PROVE  /\ \A c \in Buf : owner[c] \in Hand \cup {NoOne} /\ blockno[c] \in Block \cup {NoBlock}
         /\ \A q \in Hand : buf[q] \in Buf \cup {NoBuf}
BY Zenon DEF TypeOK

(* A process that is not in user code has a buffer, of some block.         *)
LEMMA HasBuffer ==
  ASSUME Ordinary, TypeOK, Refs, NEW p \in Hand, pc[p] # "user"
  PROVE  buf[p] \in Buf /\ blockno[buf[p]] \in Block
<1>1. buf[p] \in Buf
  BY Zenon DEF TypeOK, Refs
<1>2. blockno[buf[p]] # NoBlock
  BY Zenon, <1>1, Finite DEF Refs
<1>. QED BY Zenon, <1>1, <1>2 DEF TypeOK

(* acquiresleep gives a lock to one process at a time.                     *)
LEMMA Alone ==
  ASSUME Owners, NEW p \in Hand, NEW q \in Hand,
         pc[p] \in Holding, pc[q] \in Holding, buf[p] = buf[q]
  PROVE  p = q
BY Zenon DEF Owners

(* Steps that leave the requests alone leave the disk its command.         *)
LEMMA SameCommand ==
  ASSUME TypeOK, command = Told, UNCHANGED <<idequeue, command>>,
         \A b \in Queued : flags'[b] = flags[b] /\ blockno'[b] = blockno[b] /\ data'[b] = data[b]
  PROVE  command' = Told'
<1>1. ASSUME idequeue # <<>> PROVE Head(idequeue) \in Queued
  <2>1. 1 \in DOMAIN idequeue /\ Head(idequeue) = idequeue[1]
    BY <1>1 DEF TypeOK
  <2>. QED BY Zenon, <2>1 DEF Queued
<1>. QED BY Zenon, <1>1 DEF Told

(* Steps that only move processes which are not about to write keep the    *)
(* bound on the pinned buffers.                                            *)
LEMMA SamePins ==
  ASSUME Ordinary, Pins, UNCHANGED <<flags, idequeue>>,
         \A q \in Hand : pc[q] = "bwrite" => pc'[q] = "bwrite" /\ buf'[q] = buf[q]
  PROVE  Pins'
<1>1. Pinned' \subseteq Pinned
  BY Zenon DEF Pinned, Queued
<1>. QED BY Zenon, <1>1, FewerPinned
(* Who owns a lock, and who waits for a request, is a process.             *)
LEMMA Keepers ==
  ASSUME TypeOK, Owners, Queue
  PROVE  /\ \A c \in Buf : owner[c] # NoOne
              => owner[c] \in Hand /\ buf[owner[c]] = c /\ pc[owner[c]] \in Holding
         /\ \A c \in Queued : /\ c \in Buf /\ owner[c] \in Hand /\ buf[owner[c]] = c
                              /\ owner[c] # NoOne /\ pc[owner[c]] \in Waiting /\ flags[c] # {"V"}
<1>1. \A c \in Buf : owner[c] # NoOne
              => owner[c] \in Hand /\ buf[owner[c]] = c /\ pc[owner[c]] \in Holding
  BY Zenon, Types DEF Owners
<1>2. \A c \in Queued : c \in Buf
  BY DEF TypeOK, Queued
<1>. QED BY Zenon, <1>1, <1>2 DEF Queue

(* A process that does not hold its lock does not disturb those that do.   *)
LEMMA Outside ==
  ASSUME TypeOK, Owners, Queue, NEW p \in Hand, UNCHANGED <<owner, idequeue>>,
         pc[p] \notin Holding, pc'[p] \notin Holding,
         pc'[p] = "lock_asleep" => owner[buf'[p]] # NoOne,
         \A q \in Hand : q # p => pc'[q] = pc[q] /\ buf'[q] = buf[q],
         \A q \in Hand : pc[q] \in Waiting => flags'[buf[q]] = flags[buf[q]]
  PROVE  Owners' /\ Queue'
<1>0. Waiting \subseteq Holding /\ "io_asleep" \in Waiting
  BY Zenon DEF Holding, Waiting
<1>1. ASSUME NEW c \in Buf, owner'[c] # NoOne
      PROVE  buf'[owner'[c]] = c /\ pc'[owner'[c]] \in Holding
  <2>1. owner[c] \in Hand /\ buf[owner[c]] = c /\ pc[owner[c]] \in Holding /\ owner'[c] = owner[c]
    BY Zenon, <1>1, Keepers
  <2>. QED BY Zenon, <2>1
<1>2. ASSUME NEW q \in Hand, pc'[q] \in Holding PROVE owner'[buf'[q]] = q
  BY Zenon, <1>2 DEF Owners
<1>3. ASSUME NEW q \in Hand, pc'[q] = "lock_asleep" PROVE owner'[buf'[q]] # NoOne
  BY Zenon, <1>3 DEF Owners
<1>4. Queued' = Queued
  BY ZenonT(40) DEF Queued
<1>5. ASSUME NEW c \in Queued
      PROVE  owner'[c] # NoOne /\ pc'[owner'[c]] \in Waiting /\ flags'[c] # {"V"}
  <2>1. /\ c \in Buf /\ owner[c] \in Hand /\ buf[owner[c]] = c /\ owner[c] # NoOne
        /\ pc[owner[c]] \in Waiting /\ flags[c] # {"V"} /\ owner'[c] = owner[c]
    BY Zenon, Keepers
  <2>2. owner[c] # p /\ flags'[c] = flags[c]
    BY Zenon, <2>1, <1>0
  <2>. QED BY Zenon, <2>1, <2>2
<1>6. ASSUME NEW q \in Hand, pc'[q] \in Waiting
      PROVE  /\ buf'[q] \in Queued \/ flags'[buf'[q]] = {"V"}
             /\ pc'[q] = "io_asleep" => buf'[q] \in Queued
  <2>1. q # p /\ pc[q] = pc'[q] /\ buf'[q] = buf[q] /\ flags'[buf[q]] = flags[buf[q]]
    BY Zenon, <1>0, <1>6
  <2>. QED BY Zenon, <2>1, <1>6 DEF Queue
<1>7. Owners'
  BY Zenon, <1>1, <1>2, <1>3 DEF Owners
<1>8. Queue'
  <2>1. \A i, j \in 1 .. Len(idequeue') : idequeue'[i] = idequeue'[j] => i = j
    BY ZenonT(40) DEF Queue
  <2>2. \A q \in Hand : pc'[q] = "io_asleep" => buf'[q] \in Queued
    BY Zenon, <1>0, <1>6
  <2>. QED BY Zenon, <1>4, <1>5, <1>6, <2>1, <2>2 DEF Queue
<1>. QED BY Zenon, <1>7, <1>8
-----------------------------------------------------------------------------
(* bget, when the block is in a buffer.                                    *)
LEMMA KeptByReference ==
  ASSUME Ordinary, IInv, NEW p \in Hand, NEW k \in Block, NEW b \in Cached(k),
         At(p, "user"), Reference(p, b),
         UNCHANGED <<list, owner, data, idequeue, command, disk>>
  PROVE  IInv'
<1>1. b \in Buf /\ blockno[b] = k /\ blockno[b] # NoBlock /\ buf[p] = NoBuf /\ pc[p] = "user"
  BY Zenon DEF Cached, At, IInv, Refs, Ordinary
<1>2. /\ pc' = [pc EXCEPT ![p] = "lock"] /\ buf' = [buf EXCEPT ![p] = b]
      /\ refcnt' = [refcnt EXCEPT ![b] = @ + 1]
      /\ UNCHANGED <<list, owner, data, idequeue, command, disk, blockno, flags, panicked>>
  BY Zenon DEF Reference, Take, Goto
<1>3. /\ pc'[p] = "lock" /\ buf'[p] = b
      /\ \A q \in Hand : q # p => pc'[q] = pc[q] /\ buf'[q] = buf[q]
  BY Zenon, <1>2 DEF IInv, TypeOK
<1>. USE DEF IInv
<1>4. TypeOK'
  <2>1. refcnt' \in [Buf -> Nat]
    BY <1>1, <1>2 DEF TypeOK
  <2>2. pc' \in [Hand -> Holding \cup {"user", "lock", "lock_asleep", "brelse"}]
        /\ buf' \in [Hand -> Buf \cup {NoBuf}]
    BY <1>1, <1>2 DEF TypeOK
  <2>. QED BY Zenon, <1>2, <2>1, <2>2 DEF TypeOK
<1>5. Refs'
  <2>1. ASSUME NEW c \in Buf PROVE refcnt'[c] = Cardinality(Users(c)')
    <3>1. Cardinality(Users(b)') = Cardinality(Users(b)) + 1
          /\ (c # b => Cardinality(Users(c)') = Cardinality(Users(c)))
      BY Zenon, <1>1, <1>2, Taken
    <3>2. refcnt'[c] = IF c = b THEN refcnt[c] + 1 ELSE refcnt[c]
      BY <1>1, <1>2 DEF TypeOK
    <3>. QED BY Zenon, <3>1, <3>2 DEF Refs
  <2>2. \A q \in Hand : pc'[q] = "user" <=> buf'[q] = NoBuf
    BY <1>1, <1>3, Finite DEF Refs
  <2>3. \A q \in Hand : buf'[q] # NoBuf => blockno'[buf'[q]] # NoBlock
    BY Zenon, <1>1, <1>2, <1>3 DEF Refs
  <2>. QED BY Zenon, <2>1, <2>2, <2>3 DEF Refs
<1>6. Owners' /\ Queue'
  <2>1. "user" \notin Holding /\ "lock" \notin Holding /\ "lock" # "lock_asleep"
    BY Zenon DEF Holding, Waiting
  <2>. QED BY Zenon, <2>1, <1>1, <1>2, <1>3, Outside
<1>8. Contents'
  <2>1. \A q \in Hand : pc'[q] \in {"have", "bwrite"} => q # p
    BY Zenon, <1>3
  <2>. QED BY Zenon, <2>1, <1>2, <1>3 DEF Contents
<1>9. Pins'
  BY Zenon, <1>1, <1>2, <1>3, SamePins
<1>10. command' = Told'
  BY Zenon, <1>2, SameCommand
<1>11. Listed' /\ Once' /\ BuffersSuffice'
  BY Zenon, <1>2 DEF Listed, Once, BuffersSuffice
<1>. QED BY Zenon, <1>4, <1>5, <1>6, <1>8, <1>9, <1>10, <1>11

(* bget, when a buffer takes up the block.                                 *)
LEMMA KeptByRecycle ==
  ASSUME Ordinary, IInv, NEW p \in Hand, NEW k \in Block, Cached(k) = {},
         NEW b \in Buf, refcnt[b] = 0, "D" \notin flags[b],
         At(p, "user"), Recycle(p, b, k),
         UNCHANGED <<list, owner, data, idequeue, command, disk>>
  PROVE  IInv'
<1>1. k # NoBlock /\ buf[p] = NoBuf /\ pc[p] = "user" /\ \A c \in Buf : blockno[c] # k
  BY Zenon DEF Cached, At, IInv, Refs, Ordinary
<1>2. /\ pc' = [pc EXCEPT ![p] = "lock"] /\ buf' = [buf EXCEPT ![p] = b]
      /\ refcnt' = [refcnt EXCEPT ![b] = 1] /\ blockno' = [blockno EXCEPT ![b] = k]
      /\ flags' = [flags EXCEPT ![b] = {}]
      /\ UNCHANGED <<list, owner, data, idequeue, command, disk, panicked>>
  BY Zenon DEF Recycle, Take, Goto
<1>. USE DEF IInv
<1>3. /\ pc'[p] = "lock" /\ buf'[p] = b
      /\ \A q \in Hand : q # p => pc'[q] = pc[q] /\ buf'[q] = buf[q]
  BY Zenon, <1>2 DEF TypeOK
<1>4. /\ blockno'[b] = k /\ flags'[b] = {}
      /\ \A c \in Buf : c # b => blockno'[c] = blockno[c] /\ flags'[c] = flags[c]
  BY Zenon, <1>2 DEF TypeOK
<1>5. (\A q \in Hand : buf[q] # b) /\ owner[b] = NoOne /\ b \notin Queued
  BY Zenon, Idle
<1>6. TypeOK'
  <2>1. refcnt' \in [Buf -> Nat]
    BY <1>1, <1>2 DEF TypeOK
  <2>2. /\ pc' \in [Hand -> Holding \cup {"user", "lock", "lock_asleep", "brelse"}]
        /\ buf' \in [Hand -> Buf \cup {NoBuf}]
        /\ blockno' \in [Buf -> Block \cup {NoBlock}] /\ flags' \in [Buf -> SUBSET {"V", "D"}]
    BY <1>1, <1>2 DEF TypeOK
  <2>. QED BY Zenon, <1>2, <2>1, <2>2 DEF TypeOK
<1>7. Once'
  BY ZenonT(40), <1>1, <1>4 DEF Once
<1>8. Refs'
  <2>1. ASSUME NEW c \in Buf PROVE refcnt'[c] = Cardinality(Users(c)')
    <3>1. Cardinality(Users(b)') = Cardinality(Users(b)) + 1
          /\ (c # b => Cardinality(Users(c)') = Cardinality(Users(c)))
      BY Zenon, <1>1, <1>2, Taken
    <3>2. refcnt'[c] = IF c = b THEN 1 ELSE refcnt[c]
      BY <1>1, <1>2 DEF TypeOK
    <3>3. Cardinality(Users(b)) = 0
      BY Zenon DEF Refs
    <3>4. 0 + 1 = 1
      OBVIOUS
    <3>. QED BY Zenon, <3>1, <3>2, <3>3, <3>4 DEF Refs
  <2>2. \A q \in Hand : pc'[q] = "user" <=> buf'[q] = NoBuf
    BY <1>1, <1>3, Finite DEF Refs
  <2>3. ASSUME NEW q \in Hand, buf'[q] # NoBuf PROVE blockno'[buf'[q]] # NoBlock
    <3>1. CASE q = p
      BY Zenon, <3>1, <1>1, <1>3, <1>4
    <3>2. CASE q # p
      <4>1. buf'[q] = buf[q] /\ buf[q] \in Buf /\ buf[q] # b
        BY Zenon, <3>2, <2>3, <1>3, <1>5, Types
      <4>. QED BY Zenon, <4>1, <2>3, <1>4 DEF Refs
    <3>. QED BY Zenon, <3>1, <3>2
  <2>. QED BY Zenon, <2>1, <2>2, <2>3 DEF Refs
<1>9. Owners' /\ Queue'
  <2>1. "user" \notin Holding /\ "lock" \notin Holding /\ "lock" # "lock_asleep"
    BY Zenon DEF Holding, Waiting
  <2>2. ASSUME NEW q \in Hand, pc[q] \in Waiting PROVE flags'[buf[q]] = flags[buf[q]]
    <3>1. buf[q] \in Buf
      BY Zenon, <2>2, HasBuffer DEF Waiting
    <3>. QED BY Zenon, <3>1, <1>4, <1>5
  <2>. QED BY Zenon, <2>1, <2>2, <1>1, <1>2, <1>3, Outside
<1>11. Contents'
  <2>1. ASSUME NEW c \in Buf
        PROVE  /\ "D" \in flags'[c] => "V" \in flags'[c]
               /\ "V" \in flags'[c] => blockno'[c] # NoBlock
               /\ flags'[c] = {"V"} => data'[c] = disk'[blockno'[c]]
    <3>1. CASE c = b
      BY Zenon, <3>1, <1>4
    <3>2. CASE c # b
      BY Zenon, <3>2, <1>2, <1>4 DEF Contents
    <3>. QED BY Zenon, <3>1, <3>2
  <2>2. ASSUME NEW q \in Hand, pc'[q] \in {"have", "bwrite"}
        PROVE  "V" \in flags'[buf'[q]] /\ (pc'[q] = "bwrite" => "D" \in flags'[buf'[q]])
    <3>1. q # p /\ pc[q] = pc'[q] /\ buf'[q] = buf[q] /\ pc[q] # "user"
      BY Zenon, <2>2, <1>3
    <3>2. buf[q] \in Buf /\ buf[q] # b
      BY Zenon, <3>1, <1>5, HasBuffer
    <3>. QED BY ZenonT(40), <3>1, <3>2, <2>2, <1>4 DEF Contents
  <2>3. \A q \in Hand : pc'[q] = "bwrite" => "D" \in flags'[buf'[q]]
    BY Zenon, <2>2
  <2>. QED BY Zenon, <2>1, <2>2, <2>3 DEF Contents
<1>12. Pins'
  <2>1. ASSUME NEW c \in Pinned' PROVE c \in Pinned
    <3>0. c \in Buf /\ "D" \in flags'[c] /\ c \notin Queued
      BY Zenon, <1>2 DEF Pinned, Queued
    <3>1. c \in Buf /\ c \notin Queued /\ "D" \in flags[c]
      BY Zenon, <3>0, <1>4
    <3>2. \A q \in Hand : pc[q] = "bwrite" => buf[q] # c
      BY Zenon, <1>1, <1>3 DEF Pinned
    <3>. QED BY Zenon, <3>1, <3>2 DEF Pinned
  <2>. QED BY Zenon, <2>1, FewerPinned
<1>13. command' = Told'
  <2>1. \A c \in Queued : c \in Buf /\ c # b
    BY <1>5 DEF TypeOK, Queued
  <2>. QED BY Zenon, <2>1, <1>2, <1>4, SameCommand
<1>14. Listed' /\ BuffersSuffice'
  BY Zenon, <1>2 DEF Listed, BuffersSuffice
<1>. QED BY Zenon, <1>6, <1>7, <1>8, <1>9, <1>11, <1>12, <1>13, <1>14

(* bget, when there is no buffer: then those of the other processes and    *)
(* those pinned are all the buffers there are.                             *)
LEMMA KeptByNoBuffers ==
  ASSUME Ordinary, IInv, NEW p \in Hand, At(p, "user"), Unused = {}, NoBuffers,
         UNCHANGED <<list, owner, data, idequeue, command, disk>>
  PROVE  IInv'
<1>. USE DEF IInv
<1>. DEFINE others == Hand \ {p}
            f == [q \in others |-> buf[q]]
            taken == {buf[q] : q \in others}
<1>1. buf[p] = NoBuf
  BY Zenon DEF At, Refs
<1>2. ASSUME NEW b \in Buf PROVE b \in taken \cup Pinned
  <2>1. PICK i \in Buf : list[i] = b
    BY Zenon DEF Listed
  <2>2. refcnt[b] # 0 \/ "D" \in flags[b]
    BY Zenon, <2>1 DEF Unused
  <2>3. CASE refcnt[b] # 0
    <3>1. Users(b) # {}
      BY Zenon, <2>3, FS_EmptySet DEF Refs
    <3>2. PICK q \in Hand : buf[q] = b
      BY Zenon, <3>1 DEF Users
    <3>3. q # p
      BY Zenon, <3>2, <1>1, Finite
    <3>. QED BY Zenon, <3>2, <3>3
  <2>4. CASE refcnt[b] = 0
    BY Zenon, <2>2, <2>4, Idle DEF Pinned
  <2>. QED BY Zenon, <2>3, <2>4
<1>3. IsFiniteSet(others) /\ Cardinality(others) = Cardinality(Hand) - 1
  BY Zenon, FS_RemoveElement, Hands
<1>4. f \in Surjection(others, taken)
  BY DEF Surjection
<1>5. IsFiniteSet(taken) /\ Cardinality(taken) <= Cardinality(others)
  BY Zenon, <1>3, <1>4, FS_Surjection
<1>6. IsFiniteSet(Pinned)
  BY Zenon, Finite, FS_Subset DEF Pinned
<1>. HIDE DEF others, f, taken
<1>7. /\ IsFiniteSet(taken \cup Pinned)
      /\ Cardinality(taken \cup Pinned)
           = Cardinality(taken) + Cardinality(Pinned) - Cardinality(taken \cap Pinned)
  BY Zenon, <1>5, <1>6, FS_Union
<1>8. NBUF <= Cardinality(taken \cup Pinned)
  <2>1. Buf \subseteq taken \cup Pinned
    BY Zenon, <1>2
  <2>. QED BY Zenon, <2>1, <1>7, Finite, FS_Subset
<1>9. IsFiniteSet(taken \cap Pinned)
  BY Zenon, <1>5, FS_Subset
<1>10. /\ Cardinality(taken) \in Nat /\ Cardinality(Pinned) \in Nat
       /\ Cardinality(taken \cap Pinned) \in Nat /\ Cardinality(Hand) \in Nat
  BY Zenon, <1>5, <1>6, <1>9, FS_CardinalityType, Hands
<1>11. ~ (MaxPinned + 2 * Cardinality(Proc) <= NBUF)
  <2>1. ~ (MaxPinned + Cardinality(Hand) <= NBUF)
    BY <1>3, <1>5, <1>7, <1>8, <1>10 DEF Ordinary, Pins
  <2>. QED BY Zenon, <2>1, Hands
<1>12. BuffersSuffice'
  BY Zenon, <1>11 DEF BuffersSuffice
<1>13. TypeOK'
  BY Zenon DEF TypeOK, NoBuffers
<1>14. UNCHANGED <<list, blockno, flags, refcnt, owner, data, idequeue, command, disk, pc, buf>>
  BY Zenon DEF NoBuffers
<1>15. Listed' /\ Once'
  BY Zenon, <1>14 DEF Listed, Once
<1>16. Refs'
  BY Zenon, <1>14 DEF Refs, Users
<1>17. Owners'
  BY Zenon, <1>14 DEF Owners
<1>18. Contents'
  BY Zenon, <1>14 DEF Contents
<1>19. Queue'
  <2>1. Queued' = Queued
    BY Zenon, <1>14 DEF Queued
  <2>2. \A i, j \in 1 .. Len(idequeue') : idequeue'[i] = idequeue'[j] => i = j
    BY Zenon, <1>14 DEF Queue
  <2>. QED BY Zenon, <2>1, <2>2, <1>14 DEF Queue
<1>20. command' = Told' /\ Pins'
  BY Zenon, <1>14, SameCommand, SamePins
<1>. QED BY Zenon, <1>12, <1>13, <1>15, <1>16, <1>17, <1>18, <1>19, <1>20

(* bget, with its three ways.                                              *)
LEMMA KeptBy_bget ==
  ASSUME Ordinary, IInv, NEW p \in Hand, NEW k \in Block, bget(p, k)
  PROVE  IInv'
<1>1. At(p, "user") /\ UNCHANGED <<list, owner, data, idequeue, command, disk>>
  BY Zenon DEF bget
<1>2. ASSUME NEW b \in Cached(k), Reference(p, b) PROVE IInv'
  BY Zenon, <1>1, <1>2, KeptByReference
<1>3. ASSUME NEW i \in Unused, Cached(k) = {}, Recycle(p, list[i], k) PROVE IInv'
  <2>1. list[i] \in Buf /\ refcnt[list[i]] = 0 /\ "D" \notin flags[list[i]]
    BY Zenon DEF Unused, IInv, Listed
  <2>. QED BY Zenon, <1>1, <1>3, <2>1, KeptByRecycle
<1>4. ASSUME Unused = {}, NoBuffers PROVE IInv'
  BY Zenon, <1>1, <1>4, KeptByNoBuffers
<1>. QED BY Zenon, <1>2, <1>3, <1>4 DEF bget
-----------------------------------------------------------------------------
(* A process that holds its lock, and keeps it, does not disturb the       *)
(* owners of locks.                                                        *)
LEMMA Inside ==
  ASSUME TypeOK, Owners, Queue, NEW p \in Hand, UNCHANGED <<owner, buf>>,
         pc[p] \in Holding, pc'[p] \in Holding,
         \A q \in Hand : q # p => pc'[q] = pc[q]
  PROVE  Owners'
<1>1. ASSUME NEW c \in Buf, owner'[c] # NoOne
      PROVE  buf'[owner'[c]] = c /\ pc'[owner'[c]] \in Holding
  <2>1. owner[c] \in Hand /\ buf[owner[c]] = c /\ pc[owner[c]] \in Holding /\ owner'[c] = owner[c]
    BY Zenon, <1>1, Keepers
  <2>. QED BY Zenon, <2>1
<1>2. "lock_asleep" \notin Holding
  BY Zenon DEF Holding, Waiting
<1>3. \A q \in Hand : pc'[q] \in Holding => owner'[buf'[q]] = q
  BY Zenon DEF Owners
<1>4. ASSUME NEW q \in Hand, pc'[q] = "lock_asleep" PROVE owner'[buf'[q]] # NoOne
  <2>1. pc[q] = "lock_asleep"
    BY Zenon, <1>2, <1>4
  <2>. QED BY Zenon, <2>1 DEF Owners
<1>. QED BY Zenon, <1>1, <1>3, <1>4 DEF Owners

(* acquiresleep.                                                           *)
LEMMA KeptBy_acquiresleep ==
  ASSUME Ordinary, IInv, NEW p \in Hand, acquiresleep(p)
  PROVE  IInv'
<1>. USE DEF IInv
<1>0. /\ At(p, "lock")
      /\ UNCHANGED <<list, blockno, flags, refcnt, data, idequeue, command, disk, buf, panicked>>
      /\ \/ /\ owner[buf[p]] = NoOne /\ owner' = [owner EXCEPT ![buf[p]] = p]
            /\ pc' = [pc EXCEPT ![p] = "locked"]
         \/ owner[buf[p]] # NoOne /\ owner' = owner /\ pc' = [pc EXCEPT ![p] = "lock_asleep"]
  BY Zenon DEF acquiresleep, Goto
<1>1. /\ pc[p] = "lock" /\ pc'[p] \in {"locked", "lock_asleep"}
      /\ \A q \in Hand : q # p => pc'[q] = pc[q]
  BY Zenon, <1>0 DEF At, TypeOK
<1>2. buf[p] \in Buf
  BY Zenon, <1>1, HasBuffer
<1>3. TypeOK'
  <2>0. owner' \in [Buf -> Hand \cup {NoOne}]
    <3>1. owner' = [owner EXCEPT ![buf[p]] = p] \/ owner' = owner
      BY Zenon, <1>0
    <3>2. owner \in [Buf -> Hand \cup {NoOne}]
      BY Zenon DEF TypeOK
    <3>. QED BY <3>1, <3>2, <1>2
  <2>1. pc' \in [Hand -> Holding \cup {"user", "lock", "lock_asleep", "brelse"}]
    <3>1. "locked" \in Holding
      BY Zenon DEF Holding
    <3>. QED BY <3>1, <1>0 DEF TypeOK
  <2>. QED BY Zenon, <1>0, <2>0, <2>1 DEF TypeOK
<1>4. Refs'
  BY Zenon, <1>0, <1>1 DEF Refs, Users
<1>5. Owners' /\ Queue'
  <2>1. CASE owner' = owner /\ owner[buf[p]] # NoOne /\ pc'[p] = "lock_asleep"
    <3>1. "lock" \notin Holding /\ "lock_asleep" \notin Holding
      BY Zenon DEF Holding, Waiting
    <3>. QED BY Zenon, <2>1, <3>1, <1>0, <1>1, Outside
  <2>2. CASE owner[buf[p]] = NoOne /\ owner' = [owner EXCEPT ![buf[p]] = p] /\ pc'[p] = "locked"
    <3>1. owner'[buf[p]] = p /\ \A c \in Buf : c # buf[p] => owner'[c] = owner[c]
      BY Zenon, <2>2, <1>2 DEF TypeOK
    <3>2. "locked" \in Holding /\ "lock" \notin Holding /\ "locked" \notin Waiting
          /\ Waiting \subseteq Holding
      BY Zenon DEF Holding, Waiting
    <3>3. ASSUME NEW c \in Buf, owner'[c] # NoOne
          PROVE  buf'[owner'[c]] = c /\ pc'[owner'[c]] \in Holding
      <4>1. CASE c = buf[p]
        BY Zenon, <4>1, <2>2, <3>1, <3>2, <1>0
      <4>2. CASE c # buf[p]
        <5>1. /\ owner'[c] = owner[c] /\ owner[c] \in Hand /\ buf[owner[c]] = c
              /\ pc[owner[c]] \in Holding
          BY Zenon, <4>2, <3>1, <3>3, Keepers
        <5>. QED BY Zenon, <5>1, <3>2, <1>0, <1>1
      <4>. QED BY Zenon, <4>1, <4>2
    <3>4. ASSUME NEW q \in Hand, q # p, pc[q] \in Holding \cup {"lock_asleep"}
          PROVE  owner'[buf[q]] = owner[buf[q]] /\ (pc[q] \in Holding => owner[buf[q]] = q)
      <4>1. buf[q] \in Buf
        BY Zenon, <3>4, HasBuffer DEF Holding, Waiting
      <4>2. owner[buf[q]] # NoOne
        <5>1. NoOne \notin Hand
          BY Zenon, Hands
        <5>. QED BY Zenon, <3>4, <5>1 DEF Owners
      <4>. QED BY Zenon, <4>1, <4>2, <2>2, <3>1, <3>4 DEF Owners
    <3>5. ASSUME NEW q \in Hand
          PROVE  /\ pc'[q] \in Holding => owner'[buf'[q]] = q
                 /\ pc'[q] = "lock_asleep" => owner'[buf'[q]] # NoOne
      <4>1. CASE q = p
        BY Zenon, <4>1, <2>2, <3>1, <1>0
      <4>2. CASE q # p
        <5>1. pc'[q] = pc[q] /\ buf'[q] = buf[q]
          BY Zenon, <4>2, <1>0, <1>1
        <5>2. pc[q] \in Holding => owner'[buf[q]] = q
          BY Zenon, <4>2, <3>4
        <5>3. pc[q] = "lock_asleep" => owner'[buf[q]] # NoOne
          BY Zenon, <4>2, <3>4 DEF Owners
        <5>. QED BY Zenon, <5>1, <5>2, <5>3
      <4>. QED BY Zenon, <4>1, <4>2
    <3>6. Owners'
      BY Zenon, <3>3, <3>5 DEF Owners
    <3>7. Queued' = Queued
      BY Zenon, <1>0 DEF Queued
    <3>8. ASSUME NEW c \in Queued
          PROVE  owner'[c] # NoOne /\ pc'[owner'[c]] \in Waiting /\ flags'[c] # {"V"}
      <4>1. /\ c \in Buf /\ owner[c] \in Hand /\ buf[owner[c]] = c /\ owner[c] # NoOne
            /\ pc[owner[c]] \in Waiting /\ flags[c] # {"V"}
        BY Zenon, Keepers
      <4>2. owner[c] # p /\ owner'[c] = owner[c]
        BY Zenon, <4>1, <2>2, <3>1, <3>2, <1>1
      <4>. QED BY Zenon, <4>1, <4>2, <1>0, <1>1
    <3>9. \A q \in Hand : pc'[q] \in Waiting => pc[q] = pc'[q]
      BY Zenon, <2>2, <3>2, <1>1
    <3>10. Queue'
      <4>1. \A i, j \in 1 .. Len(idequeue') : idequeue'[i] = idequeue'[j] => i = j
        BY Zenon, <1>0 DEF Queue
      <4>2. \A q \in Hand : pc'[q] = "io_asleep" => buf'[q] \in Queued
        BY Zenon, <1>0, <3>9 DEF Queue, Waiting
      <4>3. \A q \in Hand : pc'[q] \in Waiting => buf'[q] \in Queued \/ flags'[buf'[q]] = {"V"}
        BY Zenon, <1>0, <3>9 DEF Queue
      <4>. QED BY Zenon, <3>7, <3>8, <4>1, <4>2, <4>3 DEF Queue
    <3>. QED BY Zenon, <3>6, <3>10
  <2>3. pc'[p] = "locked" \/ pc'[p] = "lock_asleep"
    BY Zenon, <1>1
  <2>4. /\ pc' = [pc EXCEPT ![p] = "locked"] => pc'[p] = "locked"
        /\ pc' = [pc EXCEPT ![p] = "lock_asleep"] => pc'[p] = "lock_asleep"
    BY Zenon DEF TypeOK
  <2>. QED BY Zenon, <2>1, <2>2, <2>4, <1>0
<1>6. Contents'
  <2>1. \A q \in Hand : pc'[q] \in {"have", "bwrite"} => pc[q] = pc'[q]
    BY Zenon, <1>1
  <2>. QED BY Zenon, <2>1, <1>0 DEF Contents
<1>7. Pins'
  BY Zenon, <1>0, <1>1, SamePins
<1>8. command' = Told'
  BY Zenon, <1>0, SameCommand
<1>9. Listed' /\ Once' /\ BuffersSuffice'
  BY Zenon, <1>0 DEF Listed, Once, BuffersSuffice
<1>. QED BY Zenon, <1>3, <1>4, <1>5, <1>6, <1>7, <1>8, <1>9
-----------------------------------------------------------------------------
(* A process that holds the lock of its buffer is its owner, and waits if  *)
(* the buffer is in the queue.                                             *)
LEMMA Holds ==
  ASSUME Owners, Queue, NEW p \in Hand, pc[p] \in Holding
  PROVE  owner[buf[p]] = p /\ (buf[p] \in Queued => pc[p] \in Waiting)
<1>1. owner[buf[p]] = p
  BY Zenon DEF Owners
<1>. QED BY Zenon, <1>1 DEF Queue

(* What a process has read or is about to write is valid.                  *)
LEMMA HasData ==
  ASSUME Contents, NEW p \in Hand, pc[p] \in {"have", "bwrite"}
  PROVE  "V" \in flags[buf[p]] /\ (pc[p] = "bwrite" => "D" \in flags[buf[p]])
BY Zenon DEF Contents

(* The queue, when a process that holds its lock goes on.                  *)
LEMMA QueueKept ==
  ASSUME Ordinary, TypeOK, Refs, Owners, Queue, NEW p \in Hand,
         UNCHANGED <<owner, buf, idequeue>>, pc[p] \in Holding,
         \A q \in Hand : q # p => pc'[q] = pc[q],
         \A c \in Buf : c # buf[p] => flags'[c] = flags[c],
         buf[p] \in Queued => pc'[p] \in Waiting /\ flags'[buf[p]] # {"V"},
         pc'[p] \in Waiting => buf[p] \in Queued
  PROVE  Queue'
<1>0. Waiting \subseteq Holding /\ "io_asleep" \in Waiting /\ "user" \notin Holding
  BY Zenon DEF Holding, Waiting
<1>1. Queued' = Queued
  BY ZenonT(40) DEF Queued
<1>2. ASSUME NEW c \in Queued
      PROVE  owner'[c] # NoOne /\ pc'[owner'[c]] \in Waiting /\ flags'[c] # {"V"}
  <2>1. /\ c \in Buf /\ owner[c] \in Hand /\ buf[owner[c]] = c /\ owner[c] # NoOne
        /\ pc[owner[c]] \in Waiting /\ flags[c] # {"V"} /\ owner'[c] = owner[c]
    BY Zenon, Keepers
  <2>2. CASE owner[c] = p
    BY Zenon, <2>1, <2>2
  <2>3. CASE owner[c] # p
    <3>1. c # buf[p]
      BY Zenon, <2>1, <2>3, <1>0, Alone
    <3>. QED BY Zenon, <3>1, <2>1, <2>3
  <2>. QED BY Zenon, <2>2, <2>3
<1>3. ASSUME NEW q \in Hand, pc'[q] \in Waiting
      PROVE  /\ buf'[q] \in Queued \/ flags'[buf'[q]] = {"V"}
             /\ pc'[q] = "io_asleep" => buf'[q] \in Queued
  <2>1. CASE q = p
    BY Zenon, <2>1, <1>3
  <2>2. CASE q # p
    <3>1. pc[q] = pc'[q] /\ buf'[q] = buf[q] /\ buf[q] # buf[p]
      BY Zenon, <2>2, <1>0, <1>3, Alone
    <3>2. buf[q] \in Buf
      BY Zenon, <3>1, <1>0, <1>3, HasBuffer
    <3>. QED BY Zenon, <3>1, <3>2, <1>3 DEF Queue
  <2>. QED BY Zenon, <2>1, <2>2
<1>4. \A i, j \in 1 .. Len(idequeue') : idequeue'[i] = idequeue'[j] => i = j
  BY ZenonT(40) DEF Queue
<1>5. \A q \in Hand : pc'[q] = "io_asleep" => buf'[q] \in Queued
  BY Zenon, <1>0, <1>3
<1>. QED BY Zenon, <1>1, <1>2, <1>3, <1>4, <1>5 DEF Queue

(* A step of a holder that changes nothing else: the rest of bread for a   *)
(* buffer that is valid, the loop of iderw, and a kill of one that waits.  *)
LEMMA KeptByHolder ==
  ASSUME Ordinary, IInv, NEW p \in Hand, NEW l, pc[p] \in Holding \ {"bwrite"},
         l \in {"have", "io", "io_asleep"}, pc' = [pc EXCEPT ![p] = l],
         UNCHANGED <<buffers, idequeue, command, disk, buf, panicked>>,
         buf[p] \in Queued <=> l # "have",
         l = "have" => "V" \in flags[buf[p]]
  PROVE  IInv'
<1>. USE DEF IInv
<1>0. "user" \notin Holding /\ l \in Holding /\ (l \in Waiting <=> l # "have")
  BY Zenon DEF Holding, Waiting
<1>1. pc'[p] = l /\ \A q \in Hand : q # p => pc'[q] = pc[q]
  BY Zenon DEF TypeOK
<1>2. UNCHANGED <<list, blockno, flags, refcnt, owner, data>>
  BY Zenon DEF buffers
<1>3. TypeOK'
  <2>1. pc' \in [Hand -> Holding \cup {"user", "lock", "lock_asleep", "brelse"}]
    BY <1>0 DEF TypeOK
  <2>. QED BY Zenon, <1>2, <2>1 DEF TypeOK
<1>4. Refs'
  <2>1. \A q \in Hand : pc'[q] = "user" <=> pc[q] = "user"
    BY Zenon, <1>0, <1>1
  <2>. QED BY Zenon, <1>2, <2>1 DEF Refs, Users
<1>5. Owners'
  BY Zenon, <1>0, <1>1, <1>2, Inside
<1>6. Queue'
  <2>1. buf[p] \in Queued => flags[buf[p]] # {"V"}
    BY Zenon DEF Queue
  <2>. QED BY Zenon, <2>1, <1>0, <1>1, <1>2, QueueKept
<1>7. Contents'
  <2>1. \A q \in Hand : pc'[q] \in {"have", "bwrite"} => "V" \in flags[buf[q]]
    BY Zenon, <1>1 DEF Contents
  <2>2. \A q \in Hand : pc'[q] = "bwrite" => "D" \in flags[buf[q]]
    BY Zenon, <1>1 DEF Contents
  <2>. QED BY Zenon, <2>1, <2>2, <1>2 DEF Contents
<1>8. Pins'
  BY Zenon, <1>1, <1>2, SamePins
<1>9. command' = Told'
  BY Zenon, <1>2, SameCommand
<1>10. Listed' /\ Once' /\ BuffersSuffice'
  BY Zenon, <1>2 DEF Listed, Once, BuffersSuffice
<1>. QED BY Zenon, <1>3, <1>4, <1>5, <1>6, <1>7, <1>8, <1>9, <1>10

(* iderw, up to its sleep.                                                 *)
LEMMA KeptByEnqueue ==
  ASSUME Ordinary, IInv, NEW p \in Hand, pc[p] \in {"locked", "bwrite"}, flags[buf[p]] # {"V"},
         Enqueue(p), UNCHANGED <<buffers, disk, buf, panicked>>
  PROVE  IInv'
<1>. USE DEF IInv
<1>0. /\ pc[p] \in Holding /\ pc[p] \notin Waiting /\ pc[p] # "user"
      /\ "io_asleep" \in Holding /\ "io_asleep" \in Waiting /\ Waiting \subseteq Holding
      /\ "user" # "io_asleep" /\ "io_asleep" \notin {"have", "bwrite"}
  BY Zenon DEF Holding, Waiting
<1>1. idequeue' = Append(idequeue, buf[p]) /\ pc' = [pc EXCEPT ![p] = "io_asleep"]
  BY Zenon DEF Enqueue, Goto
<1>2. pc'[p] = "io_asleep" /\ \A q \in Hand : q # p => pc'[q] = pc[q]
  BY Zenon, <1>1 DEF TypeOK
<1>3. UNCHANGED <<list, blockno, flags, refcnt, owner, data>>
  BY Zenon DEF buffers
<1>4. buf[p] \in Buf
  BY Zenon, <1>0, HasBuffer
<1>5. buf[p] \notin Queued /\ owner[buf[p]] = p
  BY Zenon, <1>0 DEF Owners, Queue
<1>6. /\ idequeue' \in Seq(Buf) /\ Queued' = Queued \cup {buf[p]} /\ idequeue' # <<>>
      /\ idequeue # <<>> => Head(idequeue') = Head(idequeue)
      /\ idequeue = <<>> => Head(idequeue') = buf[p]
      /\ \A i, j \in 1 .. Len(idequeue') : idequeue'[i] = idequeue'[j] => i = j
  BY Zenon, <1>1, <1>4, <1>5, Appended DEF Queue
<1>7. TypeOK'
  <2>1. pc' \in [Hand -> Holding \cup {"user", "lock", "lock_asleep", "brelse"}]
    BY <1>0, <1>1 DEF TypeOK
  <2>. QED BY Zenon, <1>3, <1>6, <2>1 DEF TypeOK
<1>8. Refs'
  <2>1. \A q \in Hand : pc'[q] = "user" <=> pc[q] = "user"
    BY Zenon, <1>0, <1>2
  <2>. QED BY Zenon, <1>3, <2>1 DEF Refs, Users
<1>9. Owners'
  BY Zenon, <1>0, <1>2, <1>3, Inside
<1>10. Queue'
  <2>1. ASSUME NEW c \in Queued'
        PROVE  owner[c] # NoOne /\ pc'[owner[c]] \in Waiting /\ flags[c] # {"V"}
    <3>1. CASE c = buf[p]
      BY Zenon, <3>1, <1>0, <1>2, <1>5, Hands
    <3>2. CASE c # buf[p]
      <4>1. /\ owner[c] \in Hand /\ owner[c] # NoOne /\ buf[owner[c]] = c
            /\ pc[owner[c]] \in Waiting /\ flags[c] # {"V"}
        BY Zenon, <3>2, <1>6, Keepers
      <4>. QED BY Zenon, <4>1, <3>2, <1>2
    <3>. QED BY Zenon, <3>1, <3>2
  <2>2. ASSUME NEW q \in Hand, pc'[q] \in Waiting
        PROVE  /\ buf[q] \in Queued' \/ flags[buf[q]] = {"V"}
               /\ pc'[q] = "io_asleep" => buf[q] \in Queued'
    <3>1. CASE q = p
      BY Zenon, <3>1, <1>6
    <3>2. CASE q # p
      BY Zenon, <3>2, <2>2, <1>2, <1>6 DEF Queue
    <3>. QED BY Zenon, <3>1, <3>2
  <2>3. \A q \in Hand : pc'[q] = "io_asleep" => buf[q] \in Queued'
    BY Zenon, <2>2, <1>0
  <2>. QED BY Zenon, <2>1, <2>2, <2>3, <1>3, <1>6 DEF Queue
<1>11. Contents'
  <2>1. \A q \in Hand : pc'[q] \in {"have", "bwrite"} => pc[q] = pc'[q]
    BY Zenon, <1>0, <1>2
  <2>. QED BY Zenon, <2>1, <1>3 DEF Contents
<1>12. Pins'
  <2>1. ASSUME NEW c \in Pinned' PROVE c \in Pinned
    <3>1. c \in Buf /\ "D" \in flags[c] /\ c \notin Queued /\ c # buf[p]
      BY Zenon, <1>3, <1>6 DEF Pinned
    <3>2. ASSUME NEW q \in Hand, pc[q] = "bwrite" PROVE buf[q] # c
      <4>1. CASE q = p
        BY Zenon, <4>1, <3>1
      <4>2. CASE q # p
        BY Zenon, <4>2, <3>2, <1>2 DEF Pinned
      <4>. QED BY Zenon, <4>1, <4>2
    <3>. QED BY Zenon, <3>1, <3>2 DEF Pinned
  <2>. QED BY Zenon, <2>1, FewerPinned
<1>13. command' = Told'
  <2>1. CASE idequeue = <<>>
    BY Zenon, <2>1, <1>3, <1>6 DEF Enqueue, idestart, Told
  <2>2. CASE idequeue # <<>>
    <3>1. command' = command
      BY Zenon, <2>2 DEF Enqueue
    <3>. QED BY Zenon, <2>2, <3>1, <1>3, <1>6 DEF Told
  <2>. QED BY Zenon, <2>1, <2>2
<1>14. Listed' /\ Once' /\ BuffersSuffice'
  BY Zenon, <1>3 DEF Listed, Once, BuffersSuffice
<1>. QED BY Zenon, <1>7, <1>8, <1>9, <1>10, <1>11, <1>12, <1>13, <1>14

(* The rest of bread.                                                      *)
LEMMA KeptBy_bread ==
  ASSUME Ordinary, IInv, NEW p \in Hand, bread(p)
  PROVE  IInv'
<1>1. /\ pc[p] = "locked" /\ UNCHANGED <<buffers, disk, buf, panicked>>
      /\ "locked" \in Holding \ {"bwrite"} /\ "locked" \notin Waiting
  BY Zenon DEF bread, At, Holding, Waiting
<1>2. CASE "V" \in flags[buf[p]]
  <2>1. pc' = [pc EXCEPT ![p] = "have"] /\ UNCHANGED <<idequeue, command>>
    BY Zenon, <1>2 DEF bread, Goto
  <2>2. buf[p] \notin Queued
    <3>1. pc[p] \in Holding /\ pc[p] \notin Waiting
      BY Zenon, <1>1
    <3>. QED BY Zenon, <3>1, Holds DEF IInv
  <2>. QED BY Zenon, <1>1, <1>2, <2>1, <2>2, KeptByHolder
<1>3. CASE "V" \notin flags[buf[p]]
  <2>1. Enqueue(p) /\ flags[buf[p]] # {"V"}
    BY Zenon, <1>3 DEF bread
  <2>. QED BY Zenon, <1>1, <2>1, KeptByEnqueue
<1>. QED BY Zenon, <1>2, <1>3

(* iderw, for bwrite.                                                      *)
LEMMA KeptBy_iderw ==
  ASSUME Ordinary, IInv, NEW p \in Hand, iderw(p)
  PROVE  IInv'
<1>1. pc[p] = "bwrite" /\ Enqueue(p) /\ UNCHANGED <<buffers, disk, buf, panicked>>
  BY Zenon DEF iderw, At
<1>2. flags[buf[p]] # {"V"}
  BY Zenon, <1>1 DEF IInv, Contents
<1>. QED BY Zenon, <1>1, <1>2, KeptByEnqueue

(* The loop of iderw, after a wakeup.                                      *)
LEMMA KeptBy_iderwWoken ==
  ASSUME Ordinary, IInv, NEW p \in Hand, iderwWoken(p)
  PROVE  IInv'
<1>1. /\ pc[p] = "io" /\ UNCHANGED <<buffers, idequeue, command, disk, buf, panicked>>
      /\ "io" \in Holding \ {"bwrite"} /\ "io" \in Waiting
  BY Zenon DEF iderwWoken, At, Holding, Waiting
<1>2. CASE flags[buf[p]] = {"V"}
  <2>1. pc' = [pc EXCEPT ![p] = "have"] /\ "V" \in flags[buf[p]]
    BY Zenon, <1>2 DEF iderwWoken, Goto
  <2>2. buf[p] \notin Queued
    BY Zenon, <1>2 DEF IInv, Queue
  <2>. QED BY Zenon, <1>1, <2>1, <2>2, KeptByHolder
<1>3. CASE flags[buf[p]] # {"V"}
  <2>1. pc' = [pc EXCEPT ![p] = "io_asleep"]
    BY Zenon, <1>3 DEF iderwWoken, Goto
  <2>2. buf[p] \in Queued
    BY Zenon, <1>1, <1>3 DEF IInv, Queue
  <2>. QED BY Zenon, <1>1, <2>1, <2>2, KeptByHolder
<1>. QED BY Zenon, <1>2, <1>3
-----------------------------------------------------------------------------
(* What marking a buffer does to its flags.                                *)
LEMMA Dirty ==
  ASSUME NEW F, "V" \in F
  PROVE  F \cup {"D"} # {"V"} /\ "V" \in F \cup {"D"} /\ "D" \in F \cup {"D"}
<1>1. "V" \in F \cup {"D"} /\ "D" \in F \cup {"D"} /\ "D" \notin {"V"}
  BY Zenon
<1>. QED BY Zenon, <1>1

(* The holder marks its buffer, for log_write and for bwrite.              *)
LEMMA Marked ==
  ASSUME Ordinary, IInv, NEW p \in Hand, pc[p] = "have", NEW l \in {"have", "bwrite"},
         pc' = [pc EXCEPT ![p] = l], flags' = [flags EXCEPT ![buf[p]] = @ \cup {"D"}],
         data' \in [Buf -> Data], \A c \in Buf : c # buf[p] => data'[c] = data[c],
         UNCHANGED <<list, blockno, refcnt, owner, idequeue, command, disk, buf, panicked>>,
         Pins'
  PROVE  IInv'
<1>. USE DEF IInv
<1>0. /\ "have" \in Holding /\ "have" \notin Waiting /\ l \in Holding /\ l \notin Waiting
      /\ l # "user" /\ "have" # "user"
  BY Zenon DEF Holding, Waiting
<1>1. pc'[p] = l /\ \A q \in Hand : q # p => pc'[q] = pc[q]
  BY Zenon DEF TypeOK
<1>2. buf[p] \in Buf /\ blockno[buf[p]] \in Block
  BY Zenon, HasBuffer
<1>3. /\ flags'[buf[p]] = flags[buf[p]] \cup {"D"}
      /\ \A c \in Buf : c # buf[p] => flags'[c] = flags[c]
  BY Zenon, <1>2 DEF TypeOK
<1>4. owner[buf[p]] = p /\ buf[p] \notin Queued
  <2>1. pc[p] \in Holding /\ pc[p] \notin Waiting
    BY Zenon, <1>0
  <2>. QED BY Zenon, <2>1, Holds
<1>5. TypeOK'
  <2>1. pc' \in [Hand -> Holding \cup {"user", "lock", "lock_asleep", "brelse"}]
    BY <1>0 DEF TypeOK
  <2>2. flags' \in [Buf -> SUBSET {"V", "D"}]
    BY <1>2 DEF TypeOK
  <2>. QED BY Zenon, <2>1, <2>2 DEF TypeOK
<1>6. Refs'
  <2>1. \A q \in Hand : pc'[q] = "user" <=> pc[q] = "user"
    BY Zenon, <1>0, <1>1
  <2>. QED BY Zenon, <2>1 DEF Refs, Users
<1>7. Owners'
  BY Zenon, <1>0, <1>1, Inside
<1>8. Queue'
  BY ZenonT(40), <1>0, <1>1, <1>3, <1>4, QueueKept
<1>9. Contents'
  <2>0. pc[p] \in {"have", "bwrite"}
    BY Zenon
  <2>1. "V" \in flags[buf[p]]
    BY Zenon, <2>0, HasData
  <2>2. flags'[buf[p]] # {"V"} /\ "V" \in flags'[buf[p]] /\ "D" \in flags'[buf[p]]
    <3>1. PICK F : F = flags[buf[p]]
      BY Zenon
    <3>. QED BY Zenon, <3>1, <2>1, <1>3, Dirty
  <2>3. blockno[buf[p]] # NoBlock
    BY Zenon, <1>2 DEF Ordinary
  <2>4. ASSUME NEW c \in Buf
        PROVE  /\ "D" \in flags'[c] => "V" \in flags'[c]
               /\ "V" \in flags'[c] => blockno'[c] # NoBlock
               /\ flags'[c] = {"V"} => data'[c] = disk'[blockno'[c]]
    <3>1. CASE c = buf[p]
      BY Zenon, <3>1, <2>2, <2>3
    <3>2. CASE c # buf[p]
      BY Zenon, <3>2, <1>3 DEF Contents
    <3>. QED BY Zenon, <3>1, <3>2
  <2>5. ASSUME NEW q \in Hand, pc'[q] \in {"have", "bwrite"}
        PROVE  "V" \in flags'[buf'[q]] /\ (pc'[q] = "bwrite" => "D" \in flags'[buf'[q]])
    <3>1. CASE q = p
      BY Zenon, <3>1, <2>2
    <3>2. CASE q # p
      <4>1. pc[q] = pc'[q] /\ pc[q] \in Holding /\ pc[q] # "user"
        BY Zenon, <3>2, <2>5, <1>1 DEF Holding
      <4>2. buf[q] # buf[p] /\ buf[q] \in Buf
        BY Zenon, <4>1, <3>2, <1>0, Alone, HasBuffer
      <4>3. "V" \in flags[buf[q]] /\ (pc[q] = "bwrite" => "D" \in flags[buf[q]])
        BY Zenon, <4>1, <2>5, HasData
      <4>4. flags'[buf'[q]] = flags[buf[q]]
        BY Zenon, <4>2, <1>3
      <4>. QED BY Zenon, <4>1, <4>3, <4>4
    <3>. QED BY Zenon, <3>1, <3>2
  <2>6. \A q \in Hand : pc'[q] = "bwrite" => "D" \in flags'[buf'[q]]
    BY Zenon, <2>5
  <2>. QED BY Zenon, <2>4, <2>5, <2>6 DEF Contents
<1>10. command' = Told'
  <2>1. \A c \in Queued : c \in Buf /\ c # buf[p]
    BY Zenon, <1>4, Keepers
  <2>. QED BY Zenon, <2>1, <1>3, SameCommand
<1>11. Listed' /\ Once' /\ BuffersSuffice'
  BY Zenon DEF Listed, Once, BuffersSuffice
<1>. QED BY Zenon, <1>5, <1>6, <1>7, <1>8, <1>9, <1>10, <1>11

(* log_write.                                                              *)
LEMMA KeptBy_log_write ==
  ASSUME Ordinary, IInv, NEW p \in Hand, NEW d \in Data, log_write(p, d)
  PROVE  IInv'
<1>. USE DEF IInv
<1>1. /\ pc[p] = "have" /\ data' = [data EXCEPT ![buf[p]] = d]
      /\ flags' = [flags EXCEPT ![buf[p]] = @ \cup {"D"}]
      /\ UNCHANGED <<list, blockno, refcnt, owner, idequeue, command, disk, pc, buf, panicked>>
      /\ "D" \in flags[buf[p]] \/ Cardinality(Pinned) < MaxPinned
  BY Zenon DEF log_write, At
<1>2. buf[p] \in Buf
  BY Zenon, <1>1, HasBuffer
<1>3. data' \in [Buf -> Data]
  BY <1>1, <1>2 DEF TypeOK
<1>4. \A c \in Buf : c # buf[p] => data'[c] = data[c]
  BY Zenon, <1>1, <1>2 DEF TypeOK
<1>5. pc' = [pc EXCEPT ![p] = "have"]
  BY <1>1 DEF TypeOK
<1>6. Pins'
  <2>1. CASE "D" \in flags[buf[p]]
    <3>1. flags' = flags
      BY <2>1, <1>1, <1>2 DEF TypeOK
    <3>. QED BY Zenon, <3>1, <1>1, SamePins
  <2>2. CASE Cardinality(Pinned) < MaxPinned
    <3>1. ASSUME NEW c \in Pinned' PROVE c \in Pinned \cup {buf[p]}
      <4>1. /\ c \in Buf /\ "D" \in flags'[c] /\ c \notin Queued
            /\ \A q \in Hand : pc[q] = "bwrite" => buf[q] # c
        BY Zenon, <1>1 DEF Pinned, Queued
      <4>2. c # buf[p] => flags'[c] = flags[c]
        BY Zenon, <1>1, <1>2, <4>1 DEF TypeOK
      <4>. QED BY Zenon, <4>1, <4>2 DEF Pinned
    <3>2. IsFiniteSet(Pinned)
      BY Zenon, Finite, FS_Subset DEF Pinned
    <3>3. /\ IsFiniteSet(Pinned \cup {buf[p]})
          /\ Cardinality(Pinned \cup {buf[p]})
               = IF buf[p] \in Pinned THEN Cardinality(Pinned) ELSE Cardinality(Pinned) + 1
      BY Zenon, <3>2, FS_AddElement
    <3>4. Cardinality(Pinned') <= Cardinality(Pinned \cup {buf[p]}) /\ IsFiniteSet(Pinned')
      BY Zenon, <3>1, <3>3, FS_Subset
    <3>5. Cardinality(Pinned') \in Nat /\ Cardinality(Pinned) \in Nat
      BY Zenon, <3>2, <3>4, FS_CardinalityType
    <3>6. Cardinality(Pinned') <= MaxPinned
      BY <2>2, <3>3, <3>4, <3>5 DEF Ordinary
    <3>. QED BY Zenon, <3>6 DEF Pins
  <2>. QED BY Zenon, <2>1, <2>2, <1>1
<1>7. UNCHANGED <<list, blockno, refcnt, owner, idequeue, command, disk, buf, panicked>>
  BY Zenon, <1>1
<1>. QED BY Zenon, <1>1, <1>3, <1>4, <1>5, <1>6, <1>7, Marked

(* bwrite, up to iderw.                                                    *)
LEMMA KeptBy_bwrite ==
  ASSUME Ordinary, IInv, NEW p \in Hand, bwrite(p)
  PROVE  IInv'
<1>. USE DEF IInv
<1>1. /\ pc[p] = "have" /\ pc' = [pc EXCEPT ![p] = "bwrite"]
      /\ flags' = [flags EXCEPT ![buf[p]] = @ \cup {"D"}]
      /\ UNCHANGED <<list, blockno, refcnt, owner, data, idequeue, command, disk, buf, panicked>>
  BY Zenon DEF bwrite, At, Goto
<1>2. data' \in [Buf -> Data]
  BY Zenon, <1>1 DEF TypeOK
<1>3. pc'[p] = "bwrite" /\ \A q \in Hand : q # p => pc'[q] = pc[q]
  BY Zenon, <1>1 DEF TypeOK
<1>4. buf[p] \in Buf
  BY Zenon, <1>1, HasBuffer
<1>5. Pins'
  <2>1. ASSUME NEW c \in Pinned' PROVE c \in Pinned
    <3>1. /\ c \in Buf /\ "D" \in flags'[c] /\ c \notin Queued
          /\ \A q \in Hand : pc'[q] = "bwrite" => buf[q] # c
      BY Zenon, <1>1 DEF Pinned, Queued
    <3>2. c # buf[p] /\ flags'[c] = flags[c]
      BY Zenon, <1>1, <1>3, <1>4, <3>1 DEF TypeOK
    <3>3. ASSUME NEW q \in Hand, pc[q] = "bwrite" PROVE buf[q] # c
      <4>1. pc'[q] = "bwrite"
        BY Zenon, <3>3, <1>3
      <4>. QED BY Zenon, <4>1, <3>1
    <3>. QED BY Zenon, <3>1, <3>2, <3>3 DEF Pinned
  <2>. QED BY Zenon, <2>1, FewerPinned
<1>. QED BY Zenon, <1>1, <1>2, <1>5, Marked

(* kill.                                                                   *)
LEMMA KeptBy_kill ==
  ASSUME Ordinary, IInv, NEW p \in Hand, kill(p)
  PROVE  IInv'
<1>. USE DEF IInv
<1>1. UNCHANGED <<buffers, idequeue, command, disk, buf, panicked>>
  BY Zenon DEF kill
<1>2. CASE pc[p] = "io_asleep"
  <2>1. pc' = [pc EXCEPT ![p] = "io"] /\ buf[p] \in Queued
    BY Zenon, <1>2 DEF kill, Goto, Queue
  <2>2. "io_asleep" \in Holding \ {"bwrite"} /\ "io" # "have"
    BY Zenon DEF Holding, Waiting
  <2>. QED BY Zenon, <1>1, <1>2, <2>1, <2>2, KeptByHolder
<1>3. CASE pc[p] # "io_asleep"
  <2>1. pc[p] = "lock_asleep" /\ pc' = [pc EXCEPT ![p] = "lock"]
    BY Zenon, <1>3 DEF kill, Goto, At
  <2>2. pc'[p] = "lock" /\ \A q \in Hand : q # p => pc'[q] = pc[q]
    BY Zenon, <2>1 DEF TypeOK
  <2>3. UNCHANGED <<list, blockno, flags, refcnt, owner, data>>
    BY Zenon, <1>1 DEF buffers
  <2>4. TypeOK'
    <3>1. pc' \in [Hand -> Holding \cup {"user", "lock", "lock_asleep", "brelse"}]
      BY <2>1 DEF TypeOK
    <3>. QED BY Zenon, <1>1, <2>3, <3>1 DEF TypeOK
  <2>5. Refs'
    <3>1. \A q \in Hand : pc'[q] = "user" <=> pc[q] = "user"
      BY Zenon, <2>1, <2>2
    <3>. QED BY Zenon, <3>1, <1>1, <2>3 DEF Refs, Users
  <2>6. Owners' /\ Queue'
    <3>1. "lock" \notin Holding /\ "lock_asleep" \notin Holding /\ "lock" # "lock_asleep"
      BY Zenon DEF Holding, Waiting
    <3>. QED BY Zenon, <3>1, <1>1, <2>1, <2>2, <2>3, Outside
  <2>7. Contents'
    <3>1. \A q \in Hand : pc'[q] \in {"have", "bwrite"} => pc[q] = pc'[q]
      BY Zenon, <2>2
    <3>. QED BY Zenon, <3>1, <1>1, <2>3 DEF Contents
  <2>8. Pins' /\ command' = Told'
    <3>1. \A q \in Hand : pc[q] = "bwrite" => pc'[q] = "bwrite" /\ buf'[q] = buf[q]
      BY Zenon, <1>1, <2>1, <2>2
    <3>. QED BY Zenon, <3>1, <1>1, <2>3, SamePins, SameCommand
  <2>9. Listed' /\ Once' /\ BuffersSuffice'
    BY Zenon, <1>1, <2>3 DEF Listed, Once, BuffersSuffice
  <2>. QED BY Zenon, <2>4, <2>5, <2>6, <2>7, <2>8, <2>9
<1>. QED BY Zenon, <1>2, <1>3
-----------------------------------------------------------------------------
(* brelse, first the lock.                                                 *)
LEMMA KeptBy_releasesleep ==
  ASSUME Ordinary, IInv, NEW p \in Hand, releasesleep(p)
  PROVE  IInv'
<1>. USE DEF IInv
<1>0. /\ pc[p] = "have" /\ owner' = [owner EXCEPT ![buf[p]] = NoOne]
      /\ pc' = [q \in Hand |-> IF q = p THEN "brelse"
                  ELSE IF pc[q] = "lock_asleep" /\ buf[q] = buf[p] THEN "lock" ELSE pc[q]]
      /\ UNCHANGED <<list, blockno, flags, refcnt, data, idequeue, command, disk, buf, panicked>>
  BY Zenon DEF releasesleep, At
<1>1. /\ "have" \in Holding /\ "have" \notin Waiting /\ "brelse" \notin Holding
      /\ "lock" \notin Holding /\ "lock_asleep" \notin Holding /\ Waiting \subseteq Holding
      /\ "io_asleep" \in Waiting
  BY Zenon DEF Holding, Waiting
<1>2. UNCHANGED <<list, blockno, flags, refcnt, data, idequeue, command, disk, buf, panicked>>
  BY Zenon, <1>0
<1>3. buf[p] \in Buf /\ pc[p] = "have"
  BY Zenon, <1>0, HasBuffer
<1>4. owner'[buf[p]] = NoOne /\ \A c \in Buf : c # buf[p] => owner'[c] = owner[c]
  BY Zenon, <1>0, <1>3 DEF TypeOK
<1>5. /\ pc'[p] = "brelse"
      /\ \A q \in Hand : q # p => \/ pc'[q] = pc[q] /\ ~ (pc[q] = "lock_asleep" /\ buf[q] = buf[p])
                                  \/ pc[q] = "lock_asleep" /\ pc'[q] = "lock"
  BY Zenon, <1>0
<1>6. \A q \in Hand : pc'[q] \in Holding => q # p /\ pc[q] = pc'[q]
  BY Zenon, <1>1, <1>5
<1>7. owner[buf[p]] = p /\ buf[p] \notin Queued
  <2>1. pc[p] \in Holding /\ pc[p] \notin Waiting
    BY Zenon, <1>1, <1>3
  <2>. QED BY Zenon, <2>1, Holds
<1>8. TypeOK'
  <2>1. pc' \in [Hand -> Holding \cup {"user", "lock", "lock_asleep", "brelse"}]
    BY <1>0 DEF TypeOK
  <2>2. owner' \in [Buf -> Hand \cup {NoOne}]
    BY Zenon, <1>0 DEF TypeOK
  <2>. QED BY Zenon, <2>1, <2>2, <1>2 DEF TypeOK
<1>9. Refs'
  <2>1. \A q \in Hand : pc'[q] = "user" <=> pc[q] = "user"
    BY Zenon, <1>3, <1>5
  <2>. QED BY Zenon, <2>1, <1>2 DEF Refs, Users
<1>10. Owners'
  <2>1. ASSUME NEW c \in Buf, owner'[c] # NoOne
        PROVE  buf'[owner'[c]] = c /\ pc'[owner'[c]] \in Holding
    <3>1. c # buf[p] /\ owner'[c] = owner[c]
      BY Zenon, <2>1, <1>4
    <3>2. owner[c] \in Hand /\ buf[owner[c]] = c /\ pc[owner[c]] \in Holding
      BY Zenon, <2>1, <3>1, Keepers
    <3>3. owner[c] # p /\ pc'[owner[c]] = pc[owner[c]]
      BY Zenon, <3>1, <3>2, <1>1, <1>5
    <3>. QED BY Zenon, <3>1, <3>2, <3>3, <1>2
  <2>2. ASSUME NEW q \in Hand, pc'[q] \in Holding PROVE owner'[buf'[q]] = q
    <3>1. q # p /\ pc[q] \in Holding /\ owner[buf[q]] = q
      BY Zenon, <2>2, <1>6, Holds
    <3>2. buf[q] # buf[p] /\ buf[q] \in Buf
      <4>1. pc[p] \in Holding /\ pc[q] # "user"
        BY Zenon, <3>1, <1>1, <1>3 DEF Holding, Waiting
      <4>. QED BY Zenon, <4>1, <3>1, Alone, HasBuffer
    <3>. QED BY Zenon, <3>1, <3>2, <1>2, <1>4
  <2>3. ASSUME NEW q \in Hand, pc'[q] = "lock_asleep" PROVE owner'[buf'[q]] # NoOne
    <3>1. pc[q] = "lock_asleep" /\ buf[q] # buf[p]
      BY Zenon, <2>3, <1>5
    <3>2. buf[q] \in Buf
      BY Zenon, <3>1, HasBuffer
    <3>3. owner[buf[q]] # NoOne
      BY Zenon, <3>1 DEF Owners
    <3>. QED BY Zenon, <3>1, <3>2, <3>3, <1>2, <1>4
  <2>. QED BY Zenon, <2>1, <2>2, <2>3 DEF Owners
<1>11. Queue'
  <2>1. Queued' = Queued
    BY Zenon, <1>2 DEF Queued
  <2>2. ASSUME NEW c \in Queued
        PROVE  owner'[c] # NoOne /\ pc'[owner'[c]] \in Waiting /\ flags'[c] # {"V"}
    <3>1. /\ c \in Buf /\ owner[c] \in Hand /\ buf[owner[c]] = c /\ owner[c] # NoOne
          /\ pc[owner[c]] \in Waiting /\ flags[c] # {"V"} /\ c # buf[p]
      BY Zenon, <1>7, Keepers
    <3>2. owner[c] # p /\ owner'[c] = owner[c] /\ pc'[owner[c]] = pc[owner[c]]
      BY Zenon, <3>1, <1>1, <1>4, <1>5
    <3>. QED BY Zenon, <3>1, <3>2, <1>2
  <2>3. \A q \in Hand : pc'[q] \in Waiting => pc[q] = pc'[q]
    BY Zenon, <1>1, <1>6
  <2>4. \A q \in Hand : pc'[q] \in Waiting => buf[q] \in Queued \/ flags[buf[q]] = {"V"}
    BY Zenon, <2>3 DEF Queue
  <2>5. \A q \in Hand : pc'[q] = "io_asleep" => buf[q] \in Queued
    BY Zenon, <2>3, <1>1 DEF Queue
  <2>6. \A i, j \in 1 .. Len(idequeue') : idequeue'[i] = idequeue'[j] => i = j
    BY Zenon, <1>2 DEF Queue
  <2>. QED BY Zenon, <2>1, <2>2, <2>4, <2>5, <2>6, <1>2 DEF Queue
<1>12. Contents'
  <2>1. \A q \in Hand : pc'[q] \in {"have", "bwrite"} => pc[q] = pc'[q]
    BY Zenon, <1>5
  <2>. QED BY Zenon, <2>1, <1>2 DEF Contents
<1>13. Pins' /\ command' = Told'
  <2>1. \A q \in Hand : pc[q] = "bwrite" => pc'[q] = "bwrite" /\ buf'[q] = buf[q]
    BY Zenon, <1>2, <1>3, <1>5
  <2>. QED BY Zenon, <2>1, <1>2, SamePins, SameCommand
<1>14. Listed' /\ Once' /\ BuffersSuffice'
  BY Zenon, <1>2 DEF Listed, Once, BuffersSuffice
<1>. QED BY Zenon, <1>8, <1>9, <1>10, <1>11, <1>12, <1>13, <1>14

(* A buffer that goes to the front of the list leaves all of them there.   *)
LEMMA FrontListed ==
  ASSUME Ordinary, Listed, NEW i \in Buf, list' = ToFront(i)
  PROVE  Listed'
<1>0. NBUF \in Nat /\ 1 \in Buf /\ i \in 1 .. NBUF
  BY DEF Ordinary, Buf
<1>1. \A j \in Buf : /\ j # 1 => j - 1 \in Buf
                     /\ j < i => j + 1 \in Buf /\ j + 1 # 1 /\ j + 1 <= i /\ (j + 1) - 1 = j
                     /\ j > i => j # 1 /\ ~ (j <= i)
                     /\ j = i \/ j < i \/ j > i
  BY <1>0 DEF Buf
<1>2. ASSUME NEW j \in Buf
      PROVE  list'[j] = IF j = 1 THEN list[i] ELSE IF j <= i THEN list[j - 1] ELSE list[j]
  BY Zenon DEF ToFront
<1>3. \A j \in Buf : list[j] \in Buf
  BY Zenon DEF Listed
<1>4. list' \in [Buf -> Buf]
  BY Zenon, <1>1, <1>3 DEF ToFront
<1>5. ASSUME NEW b \in Buf PROVE \E j \in Buf : list'[j] = b
  <2>1. PICK j \in Buf : list[j] = b
    BY Zenon DEF Listed
  <2>2. CASE j = i
    BY Zenon, <2>1, <2>2, <1>0, <1>2
  <2>3. CASE j < i
    BY Zenon, <2>1, <2>3, <1>1, <1>2
  <2>4. CASE j > i
    BY Zenon, <2>1, <2>4, <1>1, <1>2
  <2>. QED BY Zenon, <2>2, <2>3, <2>4, <1>1
<1>. QED BY Zenon, <1>4, <1>5 DEF Listed

(* brelse, then the reference.                                             *)
LEMMA KeptBy_brelse ==
  ASSUME Ordinary, IInv, NEW p \in Hand, brelse(p)
  PROVE  IInv'
<1>. USE DEF IInv
<1>0. /\ pc[p] = "brelse" /\ refcnt' = [refcnt EXCEPT ![buf[p]] = @ - 1]
      /\ buf' = [buf EXCEPT ![p] = NoBuf] /\ pc' = [pc EXCEPT ![p] = "user"]
      /\ UNCHANGED <<blockno, flags, owner, data, idequeue, command, disk, panicked>>
      /\ \E i \in Buf : list' = ToFront(i) \/ list' = list
  BY Zenon DEF brelse, At, Goto
<1>1. buf[p] \in Buf /\ pc[p] = "brelse"
  BY Zenon, <1>0, HasBuffer
<1>2. UNCHANGED <<blockno, flags, owner, data, idequeue, command, disk, panicked>>
  BY Zenon, <1>0
<1>3. /\ pc'[p] = "user" /\ buf'[p] = NoBuf
      /\ \A q \in Hand : q # p => pc'[q] = pc[q] /\ buf'[q] = buf[q]
  BY Zenon, <1>0 DEF TypeOK
<1>4. Cardinality(Users(buf[p])) \in Nat \ {0}
  <2>1. p \in Users(buf[p])
    BY Zenon DEF Users
  <2>2. Users(buf[p]) # {} /\ IsFiniteSet(Users(buf[p])) /\ Cardinality(Users(buf[p])) \in Nat
    BY Zenon, <2>1, Finite
  <2>. QED BY Zenon, <2>2, FS_EmptySet
<1>5. \A c \in Buf : refcnt'[c] = IF c = buf[p] THEN refcnt[c] - 1 ELSE refcnt[c]
  BY <1>0, <1>1 DEF TypeOK
<1>6. refcnt[buf[p]] = Cardinality(Users(buf[p]))
  BY Zenon, <1>1 DEF Refs
<1>7. TypeOK'
  <2>1. pc' \in [Hand -> Holding \cup {"user", "lock", "lock_asleep", "brelse"}]
    BY <1>0 DEF TypeOK
  <2>2. refcnt' \in [Buf -> Nat]
    <3>1. refcnt[buf[p]] - 1 \in Nat
      BY <1>4, <1>6
    <3>. QED BY <3>1, <1>0, <1>1 DEF TypeOK
  <2>3. buf' \in [Hand -> Buf \cup {NoBuf}]
    BY <1>0 DEF TypeOK
  <2>. QED BY Zenon, <2>1, <2>2, <2>3, <1>2 DEF TypeOK
<1>8. Refs'
  <2>1. ASSUME NEW c \in Buf PROVE refcnt'[c] = Cardinality(Users(c)')
    <3>1. PICK b \in Buf : b = buf[p]
      BY Zenon, <1>1
    <3>2. /\ Cardinality(Users(b)') = Cardinality(Users(b)) - 1
          /\ c # b => Cardinality(Users(c)') = Cardinality(Users(c))
      BY Zenon, <3>1, <1>0, Returned
    <3>. QED BY Zenon, <3>1, <3>2, <1>5 DEF Refs
  <2>2. \A q \in Hand : pc'[q] = "user" <=> buf'[q] = NoBuf
    BY Zenon, <1>3 DEF Refs
  <2>3. \A q \in Hand : buf'[q] # NoBuf => blockno'[buf'[q]] # NoBlock
    BY Zenon, <1>2, <1>3 DEF Refs
  <2>. QED BY Zenon, <2>1, <2>2, <2>3 DEF Refs
<1>9. Owners' /\ Queue'
  <2>1. "brelse" \notin Holding /\ "user" \notin Holding /\ "user" # "lock_asleep"
    BY Zenon DEF Holding, Waiting
  <2>. QED BY Zenon, <2>1, <1>1, <1>2, <1>3, Outside
<1>10. Contents'
  <2>1. \A q \in Hand : pc'[q] \in {"have", "bwrite"} => pc[q] = pc'[q] /\ buf'[q] = buf[q]
    BY Zenon, <1>3
  <2>. QED BY Zenon, <2>1, <1>2 DEF Contents
<1>11. Pins' /\ command' = Told'
  <2>1. \A q \in Hand : pc[q] = "bwrite" => pc'[q] = "bwrite" /\ buf'[q] = buf[q]
    BY Zenon, <1>1, <1>3
  <2>. QED BY Zenon, <2>1, <1>2, SamePins, SameCommand
<1>12. Listed'
  <2>1. list' = list => Listed'
    BY Zenon DEF Listed
  <2>. QED BY Zenon, <2>1, <1>0, FrontListed
<1>13. Once' /\ BuffersSuffice'
  BY Zenon, <1>2 DEF Once, BuffersSuffice
<1>. QED BY Zenon, <1>7, <1>8, <1>9, <1>10, <1>11, <1>12, <1>13
-----------------------------------------------------------------------------
(* What the disk has done when it interrupts: the first request.           *)
LEMMA Interrupt ==
  ASSUME Ordinary, IInv, ideintr, NEW h, h = Head(idequeue)
  PROVE  \/ /\ "D" \in flags[h] /\ disk' = [disk EXCEPT ![blockno[h]] = data[h]] /\ data' = data
         \/ /\ "D" \notin flags[h] /\ data' = [data EXCEPT ![h] = disk[blockno[h]]] /\ disk' = disk
<1>1. idequeue # <<>> /\ Served
  BY Zenon DEF ideintr
<1>2. CASE "D" \in flags[h]
  <2>1. command = <<"write", blockno[h], data[h]>>
    BY Zenon, <1>1, <1>2 DEF IInv, Told
  <2>2. command[1] = "write" /\ command[2] = blockno[h] /\ command[3] = data[h]
    BY <2>1
  <2>. QED BY Zenon, <1>1, <1>2, <2>2 DEF Served
<1>3. CASE "D" \notin flags[h]
  <2>1. command = <<"read", blockno[h]>>
    BY Zenon, <1>1, <1>3 DEF IInv, Told
  <2>2. command[1] = "read" /\ command[2] = blockno[h] /\ "read" # "write"
    BY <2>1
  <2>. QED BY Zenon, <1>1, <1>3, <2>2 DEF Served
<1>. QED BY Zenon, <1>2, <1>3

(* ideintr.                                                                *)
LEMMA KeptBy_ideintr ==
  ASSUME Ordinary, IInv, ideintr
  PROVE  IInv'
<1>. USE DEF IInv
<1>0. PICK h : h = Head(idequeue)
  BY Zenon
<1>1. /\ idequeue # <<>> /\ flags' = [flags EXCEPT ![h] = {"V"}] /\ idequeue' = Tail(idequeue)
      /\ pc' = [p \in Hand |-> IF pc[p] = "io_asleep" /\ buf[p] = h THEN "io" ELSE pc[p]]
  BY Zenon, <1>0 DEF ideintr
<1>2. UNCHANGED <<list, blockno, refcnt, owner, buf, panicked>>
  BY Zenon DEF ideintr
<1>3. \A i, j \in 1 .. Len(idequeue) : idequeue[i] = idequeue[j] => i = j
  BY Zenon DEF Queue
<1>4. /\ idequeue' \in Seq(Buf) /\ Queued' = Queued \ {h} /\ h \in Queued
      /\ idequeue' # <<>> => Head(idequeue') \in Queued'
      /\ \A i, j \in 1 .. Len(idequeue') : idequeue'[i] = idequeue'[j] => i = j
  BY Zenon, <1>0, <1>1, <1>3, Popped
<1>5. /\ h \in Buf /\ owner[h] \in Hand /\ buf[owner[h]] = h /\ owner[h] # NoOne
      /\ pc[owner[h]] \in Waiting
  BY Zenon, <1>4, Keepers
<1>6. blockno[h] \in Block /\ blockno[h] # NoBlock
  <2>1. pc[owner[h]] # "user"
    BY Zenon, <1>5 DEF Waiting
  <2>. QED BY Zenon, <2>1, <1>5, HasBuffer DEF Ordinary
<1>7. flags'[h] = {"V"} /\ \A c \in Buf : c # h => flags'[c] = flags[c]
  BY Zenon, <1>1, <1>5 DEF TypeOK
<1>8. /\ "io" \in Waiting /\ "io_asleep" \in Waiting /\ Waiting \subseteq Holding
      /\ "lock_asleep" \notin Waiting /\ "user" \notin Waiting
  BY Zenon DEF Holding, Waiting
<1>9. \A q \in Hand : \/ pc'[q] = pc[q] /\ ~ (pc[q] = "io_asleep" /\ buf[q] = h)
                      \/ pc'[q] = "io" /\ pc[q] = "io_asleep" /\ buf[q] = h
  BY Zenon, <1>1
<1>10. \/ /\ "D" \in flags[h] /\ disk' = [disk EXCEPT ![blockno[h]] = data[h]] /\ data' = data
       \/ /\ "D" \notin flags[h] /\ data' = [data EXCEPT ![h] = disk[blockno[h]]] /\ disk' = disk
  BY Zenon, <1>0, Interrupt
<1>11. \A c \in Buf : c # h => data'[c] = data[c]
  BY Zenon, <1>5, <1>10 DEF TypeOK
<1>12. TypeOK'
  <2>1. pc' \in [Hand -> Holding \cup {"user", "lock", "lock_asleep", "brelse"}]
    BY <1>1, <1>8 DEF TypeOK
  <2>2. flags' \in [Buf -> SUBSET {"V", "D"}]
    BY <1>1, <1>5 DEF TypeOK
  <2>3. disk \in [Block -> Data] /\ data \in [Buf -> Data]
    BY Zenon DEF TypeOK
  <2>4. disk[blockno[h]] \in Data /\ data[h] \in Data
    BY Zenon, <2>3, <1>5, <1>6
  <2>5. disk' \in [Block -> Data] /\ data' \in [Buf -> Data]
    <3>1. CASE disk' = [disk EXCEPT ![blockno[h]] = data[h]] /\ data' = data
      BY Zenon, <3>1, <2>3, <2>4
    <3>2. CASE data' = [data EXCEPT ![h] = disk[blockno[h]]] /\ disk' = disk
      BY Zenon, <3>2, <2>3, <2>4
    <3>. QED BY Zenon, <3>1, <3>2, <1>10
  <2>. QED BY Zenon, <2>1, <2>2, <2>5, <1>2, <1>4 DEF TypeOK
<1>13. Refs'
  <2>1. \A q \in Hand : pc'[q] = "user" <=> pc[q] = "user"
    BY Zenon, <1>9
  <2>. QED BY Zenon, <2>1, <1>2 DEF Refs, Users
<1>14. \A q \in Hand : /\ pc'[q] \in Holding <=> pc[q] \in Holding
                       /\ pc'[q] \in Waiting <=> pc[q] \in Waiting
                       /\ pc'[q] \notin Waiting => pc'[q] = pc[q]
  BY Zenon, <1>8, <1>9
<1>15. Owners'
  <2>1. ASSUME NEW c \in Buf, owner'[c] # NoOne
        PROVE  buf'[owner'[c]] = c /\ pc'[owner'[c]] \in Holding
    <3>1. owner[c] \in Hand /\ buf[owner[c]] = c /\ pc[owner[c]] \in Holding /\ owner'[c] = owner[c]
      BY Zenon, <2>1, <1>2, Keepers
    <3>. QED BY Zenon, <3>1, <1>2, <1>14
  <2>2. \A q \in Hand : pc'[q] \in Holding => owner'[buf'[q]] = q
    BY Zenon, <1>2, <1>14 DEF Owners
  <2>3. ASSUME NEW q \in Hand, pc'[q] = "lock_asleep" PROVE owner'[buf'[q]] # NoOne
    <3>1. pc[q] = "lock_asleep"
      BY Zenon, <2>3, <1>8, <1>14
    <3>. QED BY Zenon, <3>1, <1>2 DEF Owners
  <2>. QED BY Zenon, <2>1, <2>2, <2>3 DEF Owners
<1>16. Queue'
  <2>1. ASSUME NEW c \in Queued'
        PROVE  owner'[c] # NoOne /\ pc'[owner'[c]] \in Waiting /\ flags'[c] # {"V"}
    <3>1. /\ c \in Buf /\ owner[c] \in Hand /\ owner[c] # NoOne /\ pc[owner[c]] \in Waiting
          /\ flags[c] # {"V"} /\ c # h
      BY Zenon, <1>4, Keepers
    <3>. QED BY Zenon, <3>1, <1>2, <1>7, <1>14
  <2>2. ASSUME NEW q \in Hand, pc'[q] \in Waiting
        PROVE  /\ buf'[q] \in Queued' \/ flags'[buf'[q]] = {"V"}
               /\ pc'[q] = "io_asleep" => buf'[q] \in Queued'
    <3>1. pc[q] \in Waiting /\ buf'[q] = buf[q] /\ buf[q] \in Buf
      <4>1. pc[q] \in Waiting /\ pc[q] # "user"
        BY Zenon, <2>2, <1>8, <1>14
      <4>. QED BY Zenon, <4>1, <1>2, HasBuffer
    <3>2. CASE buf[q] = h
      <4>1. pc'[q] # "io_asleep"
        BY Zenon, <3>2, <1>9
      <4>. QED BY Zenon, <3>1, <3>2, <4>1, <1>7
    <3>3. CASE buf[q] # h
      <4>1. pc'[q] = pc[q] /\ flags'[buf[q]] = flags[buf[q]]
        BY Zenon, <3>1, <3>3, <1>7, <1>9
      <4>. QED BY Zenon, <3>1, <3>3, <4>1, <1>4 DEF Queue
    <3>. QED BY Zenon, <3>2, <3>3
  <2>3. \A q \in Hand : pc'[q] = "io_asleep" => buf'[q] \in Queued'
    BY Zenon, <2>2, <1>8
  <2>. QED BY Zenon, <2>1, <2>2, <2>3, <1>4 DEF Queue
<1>17. Contents'
  <2>1. ASSUME NEW c \in Buf
        PROVE  /\ "D" \in flags'[c] => "V" \in flags'[c]
               /\ "V" \in flags'[c] => blockno'[c] # NoBlock
    <3>1. CASE c = h
      BY Zenon, <3>1, <1>2, <1>6, <1>7
    <3>2. CASE c # h
      BY Zenon, <3>2, <1>2, <1>7 DEF Contents
    <3>. QED BY Zenon, <3>1, <3>2
  <2>2. data'[h] = disk'[blockno[h]]
    <3>1. CASE disk' = [disk EXCEPT ![blockno[h]] = data[h]] /\ data' = data
      BY Zenon, <3>1, <1>6 DEF TypeOK
    <3>2. CASE data' = [data EXCEPT ![h] = disk[blockno[h]]] /\ disk' = disk
      BY Zenon, <3>2, <1>5 DEF TypeOK
    <3>. QED BY Zenon, <3>1, <3>2, <1>10
  <2>3. ASSUME NEW c \in Buf, flags'[c] = {"V"} PROVE data'[c] = disk'[blockno'[c]]
    <3>1. CASE c = h
      BY Zenon, <3>1, <2>2, <1>2
    <3>2. CASE c # h
      <4>1. flags[c] = {"V"} /\ data'[c] = data[c] /\ blockno'[c] = blockno[c]
        BY Zenon, <2>3, <3>2, <1>2, <1>7, <1>11
      <4>2. data[c] = disk[blockno[c]] /\ blockno[c] # NoBlock
        BY Zenon, <4>1 DEF Contents
      <4>3. blockno[c] # blockno[h] /\ blockno[c] \in Block
        BY Zenon, <4>2, <3>2, <1>5, Types DEF Once
      <4>4. disk'[blockno[c]] = disk[blockno[c]]
        BY Zenon, <4>3, <1>6, <1>10 DEF TypeOK
      <4>. QED BY Zenon, <4>1, <4>2, <4>4
    <3>. QED BY Zenon, <3>1, <3>2
  <2>4. ASSUME NEW q \in Hand, pc'[q] \in {"have", "bwrite"}
        PROVE  "V" \in flags'[buf'[q]] /\ (pc'[q] = "bwrite" => "D" \in flags'[buf'[q]])
    <3>1. pc[q] = pc'[q] /\ pc[q] \in Holding /\ pc[q] \notin Waiting /\ pc[q] # "user"
      BY Zenon, <2>4, <1>9 DEF Holding, Waiting
    <3>2. buf[q] \in Buf /\ buf[q] # h
      BY Zenon, <3>1, <1>4, Holds, HasBuffer
    <3>3. "V" \in flags[buf[q]] /\ (pc[q] = "bwrite" => "D" \in flags[buf[q]])
      BY Zenon, <3>1, <2>4, HasData
    <3>. QED BY Zenon, <3>1, <3>2, <3>3, <1>2, <1>7
  <2>5. \A q \in Hand : pc'[q] = "bwrite" => "D" \in flags'[buf'[q]]
    BY Zenon, <2>4
  <2>. QED BY Zenon, <2>1, <2>3, <2>4, <2>5 DEF Contents
<1>18. Pins'
  <2>1. ASSUME NEW c \in Pinned' PROVE c \in Pinned
    <3>1. c \in Buf /\ "D" \in flags'[c] /\ c \notin Queued'
          /\ \A q \in Hand : pc'[q] = "bwrite" => buf'[q] # c
      BY Zenon DEF Pinned
    <3>0. "D" \notin {"V"}
      BY Zenon
    <3>2. c # h
      BY Zenon, <3>0, <3>1, <1>7
    <3>4. "D" \in flags[c] /\ c \notin Queued
      BY Zenon, <3>1, <3>2, <1>4, <1>7
    <3>3. \A q \in Hand : pc[q] = "bwrite" => buf[q] # c
      BY Zenon, <3>1, <1>2, <1>9
    <3>. QED BY Zenon, <3>1, <3>3, <3>4 DEF Pinned
  <2>. QED BY Zenon, <2>1, FewerPinned
<1>19. command' = Told'
  <2>0. PICK t : t = idequeue'
    BY Zenon
  <2>1. idestart(t)
    BY Zenon, <2>0, <1>1 DEF ideintr
  <2>2. CASE idequeue' = <<>>
    BY Zenon, <2>0, <2>1, <2>2 DEF idestart, Told
  <2>3. CASE idequeue' # <<>>
    <3>1. PICK g : g = Head(idequeue')
      BY Zenon
    <3>2. g \in Queued' /\ g \in Queued /\ g # h
      BY Zenon, <3>1, <2>3, <1>4
    <3>3. flags'[g] = flags[g] /\ data'[g] = data[g] /\ blockno'[g] = blockno[g]
      BY Zenon, <3>2, <1>2, <1>7, <1>11, Keepers
    <3>4. command' = IF "D" \in flags[g] THEN <<"write", blockno[g], data[g]>>
                     ELSE <<"read", blockno[g]>>
      BY Zenon, <2>0, <2>1, <2>3, <3>1 DEF idestart
    <3>. QED BY Zenon, <2>3, <3>1, <3>3, <3>4 DEF Told
  <2>. QED BY Zenon, <2>2, <2>3
<1>20. Listed' /\ Once' /\ BuffersSuffice'
  BY Zenon, <1>2 DEF Listed, Once, BuffersSuffice
<1>. QED BY ZenonT(40), <1>12, <1>13, <1>15, <1>16, <1>17, <1>18, <1>19, <1>20
-----------------------------------------------------------------------------
(* What binit sets up.                                                     *)
LEMMA Initially ==
  ASSUME Ordinary, Init
  PROVE  IInv
<1>. USE DEF Init
<1>1. \A i \in Buf : NBUF + 1 - i \in Buf /\ NBUF + 1 - (NBUF + 1 - i) = i
  BY DEF Buf, Ordinary
<1>2. Listed
  BY Zenon, <1>1 DEF Listed
<1>3. Queued = {} /\ idequeue \in Seq(Buf) /\ Len(idequeue) = 0
  BY DEF Queued
<1>4. TypeOK
  BY Zenon, <1>3 DEF TypeOK, Ordinary
<1>5. Once /\ Owners /\ Contents /\ BuffersSuffice /\ command = Told
  BY Zenon DEF Once, Owners, Contents, Holding, Waiting, BuffersSuffice, Told
<1>6. Refs
  <2>1. \A b \in Buf : Users(b) = {}
    BY Zenon, Finite DEF Users
  <2>. QED BY Zenon, <2>1, FS_EmptySet DEF Refs
<1>7. Queue
  BY <1>3 DEF Queue, Waiting
<1>8. Pins
  <2>1. Pinned = {}
    BY Zenon DEF Pinned
  <2>2. 0 <= MaxPinned
    BY DEF Ordinary
  <2>. QED BY Zenon, <2>1, <2>2, FS_EmptySet DEF Pins
<1>. QED BY Zenon, <1>2, <1>4, <1>5, <1>6, <1>7, <1>8 DEF IInv

(* Every step keeps the invariant.                                         *)
LEMMA KeptByNext ==
  ASSUME Ordinary, IInv, Next
  PROVE  IInv'
<1>1. CASE ideintr
  BY Zenon, <1>1, KeptBy_ideintr
<1>2. ASSUME NEW p \in Hand, acquiresleep(p) \/ bread(p) \/ bwrite(p) \/ iderw(p)
      PROVE  IInv'
  BY Zenon, <1>2, KeptBy_acquiresleep, KeptBy_bread, KeptBy_bwrite, KeptBy_iderw
<1>3. ASSUME NEW p \in Hand, iderwWoken(p) \/ releasesleep(p) \/ brelse(p) \/ kill(p)
      PROVE  IInv'
  BY Zenon, <1>3, KeptBy_iderwWoken, KeptBy_releasesleep, KeptBy_brelse, KeptBy_kill
<1>4. ASSUME NEW p \in Hand, NEW k \in Block, bget(p, k) PROVE IInv'
  BY Zenon, <1>4, KeptBy_bget
<1>5. ASSUME NEW p \in Hand, NEW d \in Data, log_write(p, d) PROVE IInv'
  BY Zenon, <1>5, KeptBy_log_write
<1>. QED BY Zenon, <1>1, <1>2, <1>3, <1>4, <1>5 DEF Next

(* The invariant is inductive: a block is in one buffer, a buffer counts   *)
(* its users, a lock has one owner, and the disk works on the first        *)
(* request of the queue.                                                   *)
THEOREM Invariant ==
  ASSUME Ordinary
  PROVE  Spec => []IInv
<1>1. Init => IInv
  BY Zenon, Initially
<1>2. IInv /\ [Next]_vars => IInv'
  <2>. SUFFICES ASSUME IInv, [Next]_vars PROVE IInv'
    OBVIOUS
  <2>1. CASE Next
    BY Zenon, <2>1, KeptByNext
  <2>2. CASE UNCHANGED vars
    <3>. USE DEF IInv
    <3>0. UNCHANGED <<list, blockno, flags, refcnt, owner, data>>
          /\ UNCHANGED <<idequeue, command, disk, pc, buf, panicked>>
      BY Zenon, <2>2 DEF vars, buffers
    <3>1. Listed' /\ TypeOK' /\ Once'
      BY Zenon, <3>0 DEF Listed, TypeOK, Once
    <3>2. Refs'
      BY Zenon, <3>0 DEF Refs, Users
    <3>3. Owners'
      BY Zenon, <3>0 DEF Owners
    <3>4. Queue'
      <4>1. Queued' = Queued
        BY Zenon, <3>0 DEF Queued
      <4>2. \A i, j \in 1 .. Len(idequeue') : idequeue'[i] = idequeue'[j] => i = j
        BY Zenon, <3>0 DEF Queue
      <4>. QED BY Zenon, <4>1, <4>2, <3>0 DEF Queue
    <3>5. Contents'
      BY Zenon, <3>0 DEF Contents
    <3>6. Pins' /\ command' = Told'
      BY Zenon, <3>0, SamePins, SameCommand
    <3>7. BuffersSuffice'
      BY Zenon, <3>0 DEF BuffersSuffice
    <3>. QED BY Zenon, <3>1, <3>2, <3>3, <3>4, <3>5, <3>6, <3>7
  <2>. QED BY Zenon, <2>1, <2>2
<1>. QED BY <1>1, <1>2, PTL DEF Spec

-----------------------------------------------------------------------------
(* The two buffers of a process: it takes the second while it has the      *)
(* first, and they are a pair that the code takes that way.                *)
Lockers == {"lock", "lock_asleep"}
Pairs ==
  \A h \in Hand : h[2] = 2 /\ pc[h] # "user" =>
    /\ pc[Other(h)] \notin Lockers
    /\ pc[Other(h)] # "user" => <<Kind[blockno[buf[Other(h)]]], Kind[blockno[buf[h]]]>> \in Within

LEMMA OtherHand ==
  ASSUME NEW h \in Hand
  PROVE  /\ Other(h) \in Hand /\ Other(h) # h /\ Other(Other(h)) = h /\ Other(h)[1] = h[1]
         /\ \/ h[2] = 1 /\ Other(h)[2] = 2
            \/ h[2] = 2 /\ Other(h)[2] = 1
         /\ h[2] = 1 <=> h[2] # 2
         /\ \A g \in Hand : g[1] = h[1] => g = h \/ g = Other(h)
BY DEF Hand, Other

(* At most three kinds of blocks are held one inside another.              *)
LEMMA Nestings ==
  ASSUME NEW i, NEW j, NEW k, NEW l
  PROVE  ~ (<<i, j>> \in Within /\ <<j, k>> \in Within /\ <<k, l>> \in Within) /\ <<i, i>> \notin Within
BY DEF Within

(* Steps that neither take nor give back a buffer.                         *)
LEMMA SamePairs ==
  ASSUME Pairs, UNCHANGED <<blockno, buf>>,
         \A h \in Hand : pc'[h] = "user" <=> pc[h] = "user",
         \A h \in Hand : pc'[h] \in Lockers => pc[h] \in Lockers
  PROVE  Pairs'
BY Zenon, OtherHand DEF Pairs

(* A hand takes a buffer.                                                  *)
LEMMA TakenPairs ==
  ASSUME Ordinary, IInv, Pairs, NEW h \in Hand, NEW k, NEW b \in Buf, pc[h] = "user", Wants(h, k),
         pc' = [pc EXCEPT ![h] = "lock"], buf' = [buf EXCEPT ![h] = b], blockno'[b] = k,
         \A g \in Hand : buf[g] \in Buf => blockno'[buf[g]] = blockno[buf[g]]
  PROVE  Pairs'
<1>. SUFFICES ASSUME NEW g \in Hand, g[2] = 2, pc'[g] # "user"
              PROVE  /\ pc'[Other(g)] \notin Lockers
                     /\ pc'[Other(g)] # "user"
                          => <<Kind[blockno'[buf'[Other(g)]]], Kind[blockno'[buf'[g]]]>> \in Within
  BY Zenon DEF Pairs
<1>0. /\ Other(g) \in Hand /\ Other(g) # g /\ Other(Other(g)) = g /\ Other(h) \in Hand /\ Other(h) # h
      /\ Other(Other(h)) = h
  BY Zenon, OtherHand
<1>1. /\ pc'[h] = "lock" /\ buf'[h] = b
      /\ \A q \in Hand : q # h => pc'[q] = pc[q] /\ buf'[q] = buf[q]
  BY Zenon DEF IInv, TypeOK
<1>2. \A q \in Hand : pc[q] # "user" => buf[q] \in Buf
  BY Zenon, HasBuffer DEF IInv
<1>3. CASE g = h
  <2>1. pc[Other(h)] = "have" /\ <<Kind[blockno[buf[Other(h)]]], Kind[k]>> \in Within
    BY Zenon, <1>3, OtherHand DEF Wants
  <2>2. "have" # "user" /\ "have" \notin Lockers
    BY Zenon DEF Lockers
  <2>3. blockno'[buf[Other(h)]] = blockno[buf[Other(h)]]
    BY Zenon, <1>0, <1>2, <2>1, <2>2
  <2>4. pc'[Other(h)] = pc[Other(h)] /\ buf'[Other(h)] = buf[Other(h)]
    BY Zenon, <1>0, <1>1
  <2>5. pc'[Other(h)] \notin Lockers
    BY Zenon, <2>1, <2>2, <2>4
  <2>6. <<Kind[blockno'[buf'[Other(h)]]], Kind[blockno'[buf'[h]]]>> \in Within
    BY Zenon, <1>1, <2>1, <2>3, <2>4
  <2>. QED BY Zenon, <1>3, <2>5, <2>6
<1>4. CASE g = Other(h)
  <2>1. h[2] = 1 /\ h[2] # 2
    BY Zenon, <1>4, OtherHand
  <2>2. pc[Other(h)] = "user"
    BY Zenon, <2>1 DEF Wants
  <2>. QED BY Zenon, <1>0, <1>1, <1>4, <2>2
<1>5. CASE g # h /\ g # Other(h)
  <2>1. Other(g) # h
    BY Zenon, <1>0, <1>5
  <2>2. /\ pc'[g] = pc[g] /\ buf'[g] = buf[g]
        /\ pc'[Other(g)] = pc[Other(g)] /\ buf'[Other(g)] = buf[Other(g)]
    BY Zenon, <1>0, <1>1, <1>5, <2>1
  <2>3. blockno'[buf[g]] = blockno[buf[g]]
    BY Zenon, <1>2, <2>2
  <2>4. pc[Other(g)] # "user" => blockno'[buf[Other(g)]] = blockno[buf[Other(g)]]
    BY Zenon, <1>0, <1>2
  <2>. QED BY Zenon, <2>2, <2>3, <2>4 DEF Pairs
<1>. QED BY Zenon, <1>3, <1>4, <1>5

LEMMA PairsBy_bget ==
  ASSUME Ordinary, IInv, Pairs, NEW h \in Hand, NEW k \in Block, bget(h, k)
  PROVE  Pairs'
<1>0. pc[h] = "user" /\ Wants(h, k)
  BY Zenon DEF bget, At
<1>1. ASSUME NEW b \in Cached(k), Reference(h, b) PROVE Pairs'
  <2>1. b \in Buf /\ blockno[b] = k
    BY Zenon DEF Cached
  <2>2. /\ buf' = [buf EXCEPT ![h] = b] /\ pc' = [pc EXCEPT ![h] = "lock"] /\ blockno' = blockno
    BY Zenon, <1>1 DEF Reference, Take, Goto
  <2>. QED BY Zenon, <1>0, <2>1, <2>2, TakenPairs
<1>2. ASSUME NEW i \in Unused, Recycle(h, list[i], k) PROVE Pairs'
  <2>0. PICK b : b = list[i]
    OBVIOUS
  <2>1. b \in Buf /\ refcnt[b] = 0
    BY Zenon, <2>0 DEF Unused, IInv, Listed
  <2>2. /\ buf' = [buf EXCEPT ![h] = b] /\ pc' = [pc EXCEPT ![h] = "lock"]
        /\ blockno' = [blockno EXCEPT ![b] = k]
    BY Zenon, <1>2, <2>0 DEF Recycle, Take, Goto
  <2>3. blockno'[b] = k /\ \A c \in Buf : c # b => blockno'[c] = blockno[c]
    BY Zenon, <2>1, <2>2 DEF IInv, TypeOK
  <2>4. \A g \in Hand : buf[g] # b
    BY Zenon, <2>1, Idle DEF IInv
  <2>. QED BY Zenon, <1>0, <2>1, <2>2, <2>3, <2>4, TakenPairs
<1>3. CASE NoBuffers
  BY Zenon, <1>3, SamePairs DEF NoBuffers
<1>. QED BY Zenon, <1>1, <1>2, <1>3 DEF bget

LEMMA PairsBy_brelse ==
  ASSUME IInv, Pairs, NEW h \in Hand, brelse(h)
  PROVE  Pairs'
<1>1. /\ pc'[h] = "user" /\ blockno' = blockno
      /\ \A q \in Hand : q # h => pc'[q] = pc[q] /\ buf'[q] = buf[q]
  BY Zenon DEF brelse, Goto, IInv, TypeOK
<1>2. ASSUME NEW g \in Hand, g[2] = 2, pc'[g] # "user"
      PROVE  /\ pc'[Other(g)] \notin Lockers
             /\ pc'[Other(g)] # "user"
                  => <<Kind[blockno'[buf'[Other(g)]]], Kind[blockno'[buf'[g]]]>> \in Within
  <2>1. g # h /\ Other(g) \in Hand /\ "user" \notin Lockers
    BY Zenon, <1>1, <1>2, OtherHand DEF Lockers
  <2>2. CASE Other(g) = h
    BY Zenon, <1>1, <2>1, <2>2
  <2>3. CASE Other(g) # h
    BY Zenon, <1>1, <1>2, <2>1, <2>3 DEF Pairs
  <2>. QED BY Zenon, <2>2, <2>3
<1>. QED BY Zenon, <1>2 DEF Pairs

(* Every step keeps the pairs.                                             *)
LEMMA PairsByNext ==
  ASSUME Ordinary, IInv, Pairs, Next
  PROVE  Pairs'
<1>0. pc \in [Hand -> Holding \cup {"user", "lock", "lock_asleep", "brelse"}]
  BY Zenon DEF IInv, TypeOK
<1>1. CASE ideintr
  <2>1. UNCHANGED <<blockno, buf>>
        /\ \A h \in Hand : pc'[h] = pc[h] \/ (pc'[h] = "io" /\ pc[h] = "io_asleep")
    BY Zenon, <1>1 DEF ideintr
  <2>. QED BY Zenon, <2>1, SamePairs DEF Lockers
<1>2. ASSUME NEW h \in Hand, NEW l, l # "user", pc[h] # "user", UNCHANGED <<blockno, buf>>,
             l \in Lockers => pc[h] \in Lockers, pc' = [pc EXCEPT ![h] = l]
      PROVE  Pairs'
  <2>1. pc'[h] = l /\ \A g \in Hand : g # h => pc'[g] = pc[g]
    BY Zenon, <1>0, <1>2
  <2>. QED BY Zenon, <1>2, <2>1, SamePairs
<1>3. ASSUME NEW h \in Hand, acquiresleep(h) PROVE Pairs'
  <2>1. /\ pc[h] = "lock" /\ UNCHANGED <<blockno, buf>>
        /\ pc' = [pc EXCEPT ![h] = "locked"] \/ pc' = [pc EXCEPT ![h] = "lock_asleep"]
    BY Zenon, <1>3 DEF acquiresleep, At, Goto
  <2>. QED BY Zenon, <1>2, <2>1 DEF Lockers
<1>4. ASSUME NEW h \in Hand, bread(h) \/ bwrite(h) \/ iderw(h) \/ iderwWoken(h) PROVE Pairs'
  <2>1. /\ pc[h] \in {"locked", "have", "bwrite", "io"} /\ UNCHANGED <<blockno, buf>>
        /\ \E l \in {"have", "io_asleep", "bwrite"} : pc' = [pc EXCEPT ![h] = l]
    BY Zenon, <1>4 DEF bread, bwrite, iderw, iderwWoken, Enqueue, At, Goto, buffers
  <2>. QED BY Zenon, <1>2, <2>1 DEF Lockers
<1>5. ASSUME NEW h \in Hand, releasesleep(h) PROVE Pairs'
  <2>1. /\ pc[h] = "have" /\ pc'[h] = "brelse" /\ UNCHANGED <<blockno, buf>>
        /\ \A g \in Hand : g # h => pc'[g] = pc[g] \/ (pc'[g] = "lock" /\ pc[g] = "lock_asleep")
    BY Zenon, <1>5 DEF releasesleep, At
  <2>. QED BY Zenon, <2>1, SamePairs DEF Lockers
<1>6. ASSUME NEW h \in Hand, kill(h) PROVE Pairs'
  <2>1. /\ pc[h] \in {"lock_asleep", "io_asleep"} /\ UNCHANGED <<blockno, buf>>
        /\ pc' = [pc EXCEPT ![h] = IF pc[h] = "io_asleep" THEN "io" ELSE "lock"]
    BY Zenon, <1>6 DEF kill, At, Goto, buffers
  <2>2. CASE pc[h] = "io_asleep"
    BY Zenon, <1>2, <2>1, <2>2 DEF Lockers
  <2>3. CASE pc[h] = "lock_asleep"
    BY Zenon, <1>2, <2>1, <2>3 DEF Lockers
  <2>. QED BY Zenon, <2>1, <2>2, <2>3
<1>7. ASSUME NEW h \in Hand, NEW d \in Data, log_write(h, d) PROVE Pairs'
  BY Zenon, <1>7, SamePairs DEF log_write
<1>. QED BY Zenon, <1>1, <1>3, <1>4, <1>5, <1>6, <1>7, PairsBy_bget, PairsBy_brelse DEF Next

LEMMA PairsAlways ==
  ASSUME Ordinary
  PROVE  Spec => []Pairs
<1>1. Init => Pairs
  BY Zenon DEF Init, Pairs
<1>2. IInv /\ Pairs /\ [Next]_vars => Pairs'
  <2>1. ASSUME Pairs, UNCHANGED vars PROVE Pairs'
    BY Zenon, <2>1, SamePairs DEF vars, buffers
  <2>. QED BY Zenon, <2>1, PairsByNext
<1>. QED BY <1>1, <1>2, Invariant, PTL DEF Spec

(* A process that waits with a buffer waits for one taken inside it.       *)
LEMMA WaitsInside ==
  ASSUME Ordinary, IInv, Pairs, NEW q \in Proc, NEW b \in Buf, Has(q, b), NEW c \in WaitsFor(q)
  PROVE  <<Kind[blockno[b]], Kind[blockno[c]]>> \in Within
<1>1. PICK g : g = owner[b]
  OBVIOUS
<1>2. g \in Hand /\ g[1] = q
  BY <1>1 DEF Has, Hand
<1>3. PICK h \in Hand : h[1] = q /\ pc[h] \in Lockers /\ c = buf[h]
  BY DEF WaitsFor, Hand, Lockers
<1>4. pc[g] \in Holding /\ buf[g] = b
  <2>1. owner[b] # NoOne
    BY Zenon, <1>1, <1>2, Hands
  <2>. QED BY Zenon, <1>1, <2>1, Keepers DEF IInv
<1>5. pc[g] \notin Lockers /\ pc[g] # "user" /\ pc[h] # "user"
  BY Zenon, <1>3, <1>4 DEF Lockers, Holding, Waiting
<1>6. g = Other(h) /\ h = Other(g) /\ (h[2] = 2 \/ g[2] = 2)
  <2>1. g # h /\ g[1] = h[1]
    BY Zenon, <1>2, <1>3, <1>5
  <2>2. g = Other(h)
    BY Zenon, <1>2, <1>3, <2>1, OtherHand
  <2>. QED BY Zenon, <1>3, <2>2, OtherHand
<1>7. h[2] = 2
  BY Zenon, <1>2, <1>3, <1>5, <1>6 DEF Pairs
<1>. QED BY Zenon, <1>3, <1>4, <1>5, <1>6, <1>7 DEF Pairs

(* Of any processes, one waits for no buffer that one of them has: what a  *)
(* process waits for is taken inside what it has, and the pairs that bmap, *)
(* itrunc, install_trans and write_log take close no ring.                 *)
THEOREM NoRingAlways ==
  ASSUME Ordinary
  PROVE  Spec => []NoRing
<1>1. IInv /\ Pairs => NoRing
  <2>. SUFFICES ASSUME IInv, Pairs, NEW D \in SUBSET Proc, D # {},
                       \A p \in D : \E b \in WaitsFor(p), q \in D : Has(q, b)
                PROVE  FALSE
    BY Zenon DEF NoRing
  <2>1. PICK q0 \in D : TRUE
    OBVIOUS
  <2>2. PICK c0 \in WaitsFor(q0), q1 \in D : Has(q1, c0)
    BY Zenon
  <2>3. PICK c1 \in WaitsFor(q1), q2 \in D : Has(q2, c1)
    BY Zenon
  <2>4. PICK c2 \in WaitsFor(q2), q3 \in D : Has(q3, c2)
    BY Zenon
  <2>5. PICK c3 \in WaitsFor(q3) : TRUE
    BY Zenon
  <2>6. q0 \in Proc /\ q1 \in Proc /\ q2 \in Proc /\ q3 \in Proc
    OBVIOUS
  <2>7. \A q \in Proc : \A c \in WaitsFor(q) : c \in Buf
    <3>1. ASSUME NEW q \in Proc, NEW c \in WaitsFor(q) PROVE c \in Buf
      <4>1. PICK h \in Hand : pc[h] \in Lockers /\ c = buf[h]
        BY DEF WaitsFor, Hand, Lockers
      <4>2. pc[h] # "user"
        BY Zenon, <4>1 DEF Lockers
      <4>. QED BY Zenon, <4>1, <4>2, HasBuffer DEF IInv
    <3>. QED BY Zenon, <3>1
  <2>8. /\ <<Kind[blockno[c0]], Kind[blockno[c1]]>> \in Within
        /\ <<Kind[blockno[c1]], Kind[blockno[c2]]>> \in Within
        /\ <<Kind[blockno[c2]], Kind[blockno[c3]]>> \in Within
    BY Zenon, <2>2, <2>3, <2>4, <2>6, <2>7, WaitsInside
  <2>. QED BY Zenon, <2>8, Nestings
<1>. QED BY <1>1, Invariant, PairsAlways, PTL

(* Whoever sleeps in acquiresleep or iderw will be woken: another process  *)
(* has the lock, or the request is in the queue, whose first one the disk  *)
(* is working on.                                                          *)
THEOREM SleepersServedAlways ==
  ASSUME Ordinary
  PROVE  Spec => []SleepersServed
<1>1. IInv /\ Pairs => SleepersServed
  <2>. SUFFICES ASSUME IInv, Pairs PROVE SleepersServed
    OBVIOUS
  <2>. USE DEF IInv
  <2>0. Waiting \subseteq Holding /\ Waiting = {"io", "io_asleep"}
    BY Zenon DEF Holding, Waiting
  <2>1. ASSUME NEW p \in Hand, pc[p] = "lock_asleep"
        PROVE  owner[buf[p]] \notin {NoOne, p, Other(p)}
    <3>1. buf[p] \in Buf /\ owner[buf[p]] # NoOne
      BY Zenon, <2>1, HasBuffer DEF Owners
    <3>2. pc[owner[buf[p]]] \in Holding
      BY Zenon, <3>1, Keepers
    <3>3. "lock_asleep" \notin Holding
      BY Zenon DEF Holding, Waiting
    <3>4. ASSUME owner[buf[p]] = Other(p) PROVE FALSE
      <4>1. p[1] \in Proc /\ Other(p) \in {p[1]} \X {1, 2} /\ p \in {p[1]} \X {1, 2}
        BY DEF Hand, Other
      <4>2. Has(p[1], buf[p]) /\ buf[p] \in WaitsFor(p[1])
        BY Zenon, <2>1, <3>4, <4>1 DEF Has, WaitsFor
      <4>. QED BY Zenon, <3>1, <4>1, <4>2, WaitsInside, Nestings
    <3>. QED BY Zenon, <2>1, <3>1, <3>2, <3>3, <3>4
  <2>2. \A p \in Hand : pc[p] \in {"io", "io_asleep"}
                          => owner[buf[p]] = p /\ (buf[p] \in Queued \/ flags[buf[p]] = {"V"})
    BY Zenon, <2>0, Holds DEF Queue
  <2>3. \A p \in Hand : pc[p] = "io_asleep" => buf[p] \in Queued
    BY Zenon DEF Queue
  <2>4. Cardinality(Queued) = Len(idequeue)
    <3>. DEFINE n == Len(idequeue)
    <3>1. n \in Nat /\ idequeue \in [1 .. n -> Buf]
      BY DEF TypeOK
    <3>2. DOMAIN idequeue = 1 .. n
      BY Zenon, <3>1
    <3>. HIDE DEF n
    <3>3. idequeue \in [1 .. n -> Queued]
      BY <3>1, <3>2 DEF Queued
    <3>4. \A i, j \in 1 .. n : idequeue[i] = idequeue[j] => i = j
      BY Zenon DEF Queue, n
    <3>5. \A b \in Queued : \E i \in 1 .. n : idequeue[i] = b
      BY Zenon, <3>2 DEF Queued
    <3>6. idequeue \in Bijection(1 .. n, Queued)
      BY Zenon, <3>2, <3>3, <3>4, <3>5 DEF Bijection, Injection, Surjection, IsInjective
    <3>7. ExistsBijection(1 .. n, Queued)
      BY Zenon, <3>6 DEF ExistsBijection
    <3>. QED BY Zenon, <3>1, <3>7, FS_CountingElements DEF n
  <2>5. IF idequeue = <<>> THEN command = NoCommand
        ELSE command # NoCommand /\ command[2] = blockno[Head(idequeue)]
    BY DEF Told, NoCommand
  <2>. QED BY Zenon, <2>1, <2>2, <2>3, <2>4, <2>5 DEF SleepersServed
<1>. QED BY <1>1, Invariant, PairsAlways, PTL

(* bget finds a buffer for whoever wants a block, as long as those pinned  *)
(* and two for each process leave one.                                     *)
THEOREM BuffersSufficeAlways ==
  ASSUME Ordinary
  PROVE  Spec => []BuffersSuffice
<1>1. IInv => BuffersSuffice
  BY Zenon DEF IInv
<1>. QED BY <1>1, Invariant, PTL
-----------------------------------------------------------------------------
(* What is seen of the cache: a block has the contents of its buffer, if   *)
(* that is valid, or else those on the disk, and belongs to the process    *)
(* that has it.                                                            *)
View ==
  \A k \in Block :
    /\ \A b \in Buf : blockno[b] = k /\ "V" \in flags[b] => Content(k) = data[b]
    /\ (\A b \in Buf : blockno[b] = k => "V" \notin flags[b]) => Content(k) = disk[k]
    /\ \A p \in Hand : pc[p] = "have" /\ blockno[buf[p]] = k => Holder(k) = p
    /\ (\A p \in Hand : pc[p] = "have" => blockno[buf[p]] # k) => Holder(k) = NoOne

(* A set with one element.                                                 *)
LEMMA TheOnly ==
  ASSUME NEW x, NEW X, x \in X, \A y \in X : y = x
  PROVE  X # {} /\ Cardinality(X) = 1 /\ (CHOOSE y \in X : TRUE) = x
<1>1. X = {x}
  BY Zenon
<1>2. (CHOOSE y \in X : TRUE) \in X
  BY Zenon
<1>. QED BY Zenon, <1>1, <1>2, FS_Singleton

(* No block is in two buffers, and no buffer has two holders, so this is   *)
(* what is seen.                                                           *)
LEMMA Viewed ==
  ASSUME Ordinary, IInv
  PROVE  View
<1>. USE DEF IInv
<1>. SUFFICES ASSUME NEW k \in Block
              PROVE  /\ \A b \in Buf : blockno[b] = k /\ "V" \in flags[b] => Content(k) = data[b]
                     /\ (\A b \in Buf : blockno[b] = k => "V" \notin flags[b])
                          => Content(k) = disk[k]
                     /\ \A p \in Hand : pc[p] = "have" /\ blockno[buf[p]] = k => Holder(k) = p
                     /\ (\A p \in Hand : pc[p] = "have" => blockno[buf[p]] # k) => Holder(k) = NoOne
  BY Zenon DEF View
<1>. DEFINE bs == {b \in Cached(k) : "V" \in flags[b]}
            ps == {p \in Hand : pc[p] = "have" /\ blockno[buf[p]] = k}
<1>0. k # NoBlock
  BY Zenon DEF Ordinary
<1>1. ASSUME NEW b \in Buf, blockno[b] = k, "V" \in flags[b] PROVE Content(k) = data[b]
  <2>1. b \in bs /\ \A c \in bs : c = b
    BY Zenon, <1>0, <1>1 DEF Cached, Once
  <2>2. bs # {} /\ (CHOOSE c \in bs : TRUE) = b
    BY Zenon, <2>1, TheOnly
  <2>. QED BY Zenon, <2>2 DEF Content
<1>2. ASSUME \A b \in Buf : blockno[b] = k => "V" \notin flags[b] PROVE Content(k) = disk[k]
  <2>1. bs = {}
    BY Zenon, <1>2 DEF Cached
  <2>. QED BY Zenon, <2>1 DEF Content
<1>3. ASSUME NEW p \in Hand, pc[p] = "have", blockno[buf[p]] = k PROVE Holder(k) = p
  <2>1. ASSUME NEW q \in ps PROVE q = p
    <3>1. q \in Hand /\ pc[q] = "have" /\ blockno[buf[q]] = k
      BY Zenon
    <3>2. buf[p] \in Buf /\ buf[q] \in Buf /\ "have" \in Holding
      BY Zenon, <3>1, <1>3, HasBuffer DEF Holding
    <3>3. buf[p] = buf[q]
      BY Zenon, <3>1, <3>2, <1>0, <1>3 DEF Once
    <3>. QED BY Zenon, <3>1, <3>2, <3>3, <1>3, Alone
  <2>2. ps # {} /\ Cardinality(ps) = 1 /\ (CHOOSE q \in ps : TRUE) = p
    BY Zenon, <2>1, <1>3, TheOnly
  <2>. QED BY Zenon, <2>2 DEF Holder
<1>4. ASSUME \A p \in Hand : pc[p] = "have" => blockno[buf[p]] # k PROVE Holder(k) = NoOne
  <2>1. ps = {}
    BY Zenon, <1>4
  <2>. QED BY Zenon, <2>1 DEF Holder
<1>. QED BY Zenon, <1>1, <1>2, <1>3, <1>4

(* A block whose buffer and whose place on the disk stay has the same      *)
(* contents.                                                               *)
LEMMA SameContent ==
  ASSUME View, View', NEW k \in Block, disk'[k] = disk[k],
         \A b \in Buf : /\ blockno'[b] = k /\ "V" \in flags'[b]
                             <=> blockno[b] = k /\ "V" \in flags[b]
                        /\ blockno[b] = k /\ "V" \in flags[b] => data'[b] = data[b]
  PROVE  Content(k)' = Content(k)
<1>1. CASE \E b \in Buf : blockno[b] = k /\ "V" \in flags[b]
  <2>1. PICK b \in Buf : blockno[b] = k /\ "V" \in flags[b]
    BY Zenon, <1>1
  <2>2. Content(k) = data[b] /\ Content(k)' = data'[b]
    BY Zenon, <2>1 DEF View
  <2>. QED BY Zenon, <2>1, <2>2
<1>2. CASE \A b \in Buf : blockno[b] = k => "V" \notin flags[b]
  <2>1. \A b \in Buf : blockno'[b] = k => "V" \notin flags'[b]
    BY Zenon, <1>2
  <2>2. Content(k) = disk[k] /\ Content(k)' = disk'[k]
    BY Zenon, <1>2, <2>1 DEF View
  <2>. QED BY Zenon, <2>2
<1>. QED BY Zenon, <1>1, <1>2

(* A block belongs to whom it did, if the same process has it.             *)
LEMMA SameHolder ==
  ASSUME View, View', NEW k \in Block,
         \A q \in Hand : pc'[q] = "have" /\ blockno'[buf'[q]] = k
                           <=> pc[q] = "have" /\ blockno[buf[q]] = k
  PROVE  Holder(k)' = Holder(k)
<1>1. CASE \E q \in Hand : pc[q] = "have" /\ blockno[buf[q]] = k
  <2>1. PICK q \in Hand : pc[q] = "have" /\ blockno[buf[q]] = k
    BY Zenon, <1>1
  <2>2. Holder(k) = q
    BY ZenonT(40), <2>1 DEF View
  <2>3. Holder(k)' = q
    BY ZenonT(40), <2>1 DEF View
  <2>. QED BY Zenon, <2>2, <2>3
<1>2. CASE \A q \in Hand : pc[q] = "have" => blockno[buf[q]] # k
  <2>1. \A q \in Hand : pc'[q] = "have" => blockno'[buf'[q]] # k
    BY Zenon, <1>2
  <2>2. Holder(k) = NoOne /\ Holder(k)' = NoOne
    BY Zenon, <1>2, <2>1 DEF View
  <2>. QED BY Zenon, <2>2
<1>. QED BY Zenon, <1>1, <1>2

(* A step that changes nothing of that is not seen.                        *)
LEMMA Unseen ==
  ASSUME \A k \in Block : Content(k)' = Content(k) /\ Holder(k)' = Holder(k)
  PROVE  UNCHANGED S!vars
<1>1. [k \in Block |-> Content(k)]' = [k \in Block |-> Content(k)]
  BY Zenon
<1>2. [k \in Block |-> Holder(k)]' = [k \in Block |-> Holder(k)]
  BY Zenon
<1>. QED BY Zenon, <1>1, <1>2 DEF S!vars

(* A process takes a block, releases it, or puts something into it.        *)
LEMMA Seen ==
  ASSUME NEW p \in Hand, NEW k \in Block,
         \A j \in Block : j # k => Content(j)' = Content(j) /\ Holder(j)' = Holder(j)
  PROVE  /\ Holder(k) = NoOne /\ Holder(k)' = p /\ Content(k)' = Content(k) => S!Get(p, k)
         /\ Holder(k) = p /\ Holder(k)' = NoOne /\ Content(k)' = Content(k) => S!Release(p, k)
         /\ \A d : Holder(k) = p /\ Holder(k)' = p /\ Content(k)' = d => S!Put(p, k, d)
<1>. DEFINE c == [j \in Block |-> Content(j)]
            h == [j \in Block |-> Holder(j)]
<1>1. \A j \in Block : /\ c[j] = Content(j) /\ c'[j] = Content(j)'
                       /\ h[j] = Holder(j) /\ h'[j] = Holder(j)'
  OBVIOUS
<1>2. \A x : Content(k)' = x => c' = [c EXCEPT ![k] = x]
  BY Zenon
<1>3. \A x : Holder(k)' = x => h' = [h EXCEPT ![k] = x]
  BY Zenon
<1>4. Content(k)' = Content(k) => c' = c
  BY Zenon
<1>5. Holder(k)' = Holder(k) => h' = h
  BY Zenon
<1>. QED BY Zenon, <1>1, <1>2, <1>3, <1>4, <1>5 DEF S!Get, S!Release, S!Put

(* bget cannot be seen: a buffer is recycled only if the disk has what is  *)
(* in it.                                                                  *)
LEMMA bgetUnseen ==
  ASSUME Ordinary, IInv, View, View', NEW p \in Hand, NEW k \in Block, bget(p, k)
  PROVE  UNCHANGED S!vars
<1>. USE DEF IInv
<1>0. pc[p] = "user" /\ UNCHANGED <<data, disk>>
  BY Zenon DEF bget, At
<1>1. ASSUME NEW b \in Buf, pc' = [pc EXCEPT ![p] = "lock"], buf' = [buf EXCEPT ![p] = b],
             \A q \in Hand : pc[q] = "have" => blockno'[buf[q]] = blockno[buf[q]]
      PROVE  \A j \in Block : Holder(j)' = Holder(j)
  <2>. SUFFICES ASSUME NEW j \in Block, NEW q \in Hand
                PROVE  pc'[q] = "have" /\ blockno'[buf'[q]] = j
                         <=> pc[q] = "have" /\ blockno[buf[q]] = j
    BY Zenon, SameHolder
  <2>1. pc'[p] = "lock" /\ (q # p => pc'[q] = pc[q] /\ buf'[q] = buf[q])
    BY Zenon, <1>1 DEF TypeOK
  <2>2. CASE q = p
    BY Zenon, <2>1, <2>2, <1>0
  <2>3. CASE q # p
    BY Zenon, <2>1, <2>3, <1>1
  <2>. QED BY Zenon, <2>2, <2>3
<1>2. ASSUME NEW b \in Cached(k), Reference(p, b) PROVE UNCHANGED S!vars
  <2>1. /\ pc' = [pc EXCEPT ![p] = "lock"] /\ buf' = [buf EXCEPT ![p] = b] /\ b \in Buf
        /\ UNCHANGED <<blockno, flags>>
    BY Zenon, <1>2 DEF Reference, Take, Goto, Cached
  <2>2. \A j \in Block : Content(j)' = Content(j)
    BY Zenon, <2>1, <1>0, SameContent
  <2>. QED BY Zenon, <1>1, <2>1, <2>2, Unseen
<1>3. ASSUME NEW i \in Unused, Cached(k) = {}, Recycle(p, list[i], k) PROVE UNCHANGED S!vars
  <2>0. PICK b : b = list[i]
    BY Zenon
  <2>1. b \in Buf /\ refcnt[b] = 0 /\ "D" \notin flags[b]
    BY Zenon, <2>0 DEF Unused, Listed
  <2>2. /\ pc' = [pc EXCEPT ![p] = "lock"] /\ buf' = [buf EXCEPT ![p] = b]
        /\ blockno' = [blockno EXCEPT ![b] = k] /\ flags' = [flags EXCEPT ![b] = {}]
    BY Zenon, <1>3, <2>0 DEF Recycle, Take, Goto
  <2>3. /\ blockno'[b] = k /\ flags'[b] = {}
        /\ \A c \in Buf : c # b => blockno'[c] = blockno[c] /\ flags'[c] = flags[c]
    BY Zenon, <2>1, <2>2 DEF TypeOK
  <2>4. \A q \in Hand : buf[q] # b
    BY Zenon, <2>1, Idle
  <2>5. ASSUME NEW j \in Block PROVE Content(j)' = Content(j)
    <3>1. CASE blockno[b] = j /\ "V" \in flags[b]
      <4>1. flags[b] = {"V"} /\ j # NoBlock
        BY <3>1, <2>1 DEF TypeOK, Ordinary
      <4>2. Content(j) = data[b] /\ data[b] = disk[j]
        BY Zenon, <3>1, <4>1, <2>1 DEF View, Contents
      <4>3. ASSUME NEW c \in Buf, blockno'[c] = j PROVE "V" \notin flags'[c]
        <5>1. CASE c = b
          BY Zenon, <5>1, <2>3
        <5>2. CASE c # b
          BY ZenonT(40), <5>2, <4>1, <4>3, <3>1, <2>1, <2>3 DEF Once
        <5>. QED BY Zenon, <5>1, <5>2
      <4>4. Content(j)' = disk'[j]
        BY Zenon, <4>3 DEF View
      <4>. QED BY Zenon, <4>2, <4>4, <1>0
    <3>2. CASE ~ (blockno[b] = j /\ "V" \in flags[b])
      <4>1. ASSUME NEW c \in Buf
            PROVE  blockno'[c] = j /\ "V" \in flags'[c] <=> blockno[c] = j /\ "V" \in flags[c]
        <5>1. CASE c = b
          BY Zenon, <5>1, <3>2, <2>3
        <5>2. CASE c # b
          BY Zenon, <5>2, <2>3
        <5>. QED BY Zenon, <5>1, <5>2
      <4>. QED BY Zenon, <4>1, <1>0, SameContent
    <3>. QED BY Zenon, <3>1, <3>2
  <2>6. ASSUME NEW q \in Hand, pc[q] = "have" PROVE blockno'[buf[q]] = blockno[buf[q]]
    <3>1. buf[q] \in Buf
      BY Zenon, <2>6, HasBuffer
    <3>. QED BY Zenon, <3>1, <2>3, <2>4
  <2>. QED BY Zenon, <1>1, <2>1, <2>2, <2>5, <2>6, Unseen
<1>4. ASSUME NoBuffers PROVE UNCHANGED S!vars
  <2>1. UNCHANGED <<blockno, flags, pc, buf>>
    BY Zenon, <1>4 DEF NoBuffers
  <2>. QED BY Zenon, <2>1, <1>0, SameContent, SameHolder, Unseen
<1>. QED BY Zenon, <1>2, <1>3, <1>4 DEF bget

(* Neither can an interrupt.                                               *)
LEMMA ideintrUnseen ==
  ASSUME Ordinary, IInv, View, View', ideintr
  PROVE  UNCHANGED S!vars
<1>. USE DEF IInv
<1>0. PICK h : h = Head(idequeue)
  BY Zenon
<1>1. /\ idequeue # <<>> /\ flags' = [flags EXCEPT ![h] = {"V"}]
      /\ pc' = [p \in Hand |-> IF pc[p] = "io_asleep" /\ buf[p] = h THEN "io" ELSE pc[p]]
      /\ UNCHANGED <<blockno, buf>>
  BY Zenon, <1>0 DEF ideintr
<1>2. h \in Queued
  <2>1. 1 \in DOMAIN idequeue /\ h = idequeue[1]
    BY <1>0, <1>1 DEF TypeOK
  <2>. QED BY Zenon, <2>1 DEF Queued
<1>3. /\ h \in Buf /\ owner[h] \in Hand /\ buf[owner[h]] = h /\ pc[owner[h]] \in Waiting
      /\ flags[h] # {"V"}
  BY Zenon, <1>2, Keepers
<1>4. blockno[h] \in Block
  <2>1. pc[owner[h]] # "user"
    BY Zenon, <1>3 DEF Waiting
  <2>. QED BY Zenon, <2>1, <1>3, HasBuffer
<1>5. flags'[h] = {"V"} /\ \A c \in Buf : c # h => flags'[c] = flags[c]
  BY Zenon, <1>1, <1>3 DEF TypeOK
<1>6. \/ /\ "D" \in flags[h] /\ disk' = [disk EXCEPT ![blockno[h]] = data[h]] /\ data' = data
      \/ /\ "D" \notin flags[h] /\ data' = [data EXCEPT ![h] = disk[blockno[h]]] /\ disk' = disk
  BY Zenon, <1>0, Interrupt
<1>7. \A j \in Block : Holder(j)' = Holder(j)
  <2>1. \A q \in Hand : pc'[q] = "have" <=> pc[q] = "have"
    BY Zenon, <1>1
  <2>. QED BY Zenon, <2>1, <1>1, SameHolder
<1>8. ASSUME NEW j \in Block PROVE Content(j)' = Content(j)
  <2>1. CASE j = blockno[h]
    <3>1. Content(j)' = data'[h]
      BY Zenon, <2>1, <1>1, <1>3, <1>5 DEF View
    <3>2. CASE "D" \in flags[h]
      <4>1. "V" \in flags[h]
        BY Zenon, <3>2, <1>3 DEF Contents
      <4>2. Content(j) = data[h]
        BY Zenon, <4>1, <2>1, <1>3 DEF View
      <4>. QED BY Zenon, <3>1, <3>2, <4>2, <1>6
    <3>3. CASE "D" \notin flags[h]
      <4>1. "V" \notin flags[h]
        BY <3>3, <1>3 DEF TypeOK
      <4>2. \A c \in Buf : blockno[c] = j => c = h
        BY Zenon, <2>1, <1>3, <1>4 DEF Once, Ordinary
      <4>3. Content(j) = disk[j]
        BY Zenon, <4>1, <4>2 DEF View
      <4>4. data'[h] = disk[blockno[h]]
        BY Zenon, <3>3, <1>3, <1>6 DEF TypeOK
      <4>. QED BY Zenon, <2>1, <3>1, <4>3, <4>4
    <3>. QED BY Zenon, <3>2, <3>3
  <2>2. CASE j # blockno[h]
    <3>1. disk'[j] = disk[j]
      BY Zenon, <2>2, <1>4, <1>6 DEF TypeOK
    <3>2. \A c \in Buf : blockno[c] = j => c # h
      BY Zenon, <2>2
    <3>3. \A c \in Buf : c # h => data'[c] = data[c]
      BY Zenon, <1>3, <1>6 DEF TypeOK
    <3>. QED BY ZenonT(40), <3>1, <3>2, <3>3, <1>1, <1>5, SameContent
  <2>. QED BY Zenon, <2>1, <2>2
<1>. QED BY Zenon, <1>7, <1>8, Unseen

(* Processes that come to have a block, or no longer do.                   *)
LEMMA MoveSeen ==
  ASSUME Ordinary, IInv, View, View', NEW p \in Hand, UNCHANGED <<blockno, buf, disk>>,
         \A q \in Hand : q # p => (pc'[q] = "have" <=> pc[q] = "have"),
         \A b \in Buf : ("V" \in flags'[b] <=> "V" \in flags[b]) /\ data'[b] = data[b]
  PROVE  /\ (pc'[p] = "have" <=> pc[p] = "have") => UNCHANGED S!vars
         /\ pc[p] \in Holding /\ pc[p] # "have" /\ pc'[p] = "have"
              => \E k \in Block : S!Get(p, k)
         /\ pc[p] = "have" /\ pc'[p] # "have" => \E k \in Block : S!Release(p, k)
<1>. USE DEF IInv
<1>1. \A j \in Block : Content(j)' = Content(j)
  BY Zenon, SameContent
<1>2. ASSUME pc'[p] = "have" <=> pc[p] = "have" PROVE UNCHANGED S!vars
  <2>1. \A q \in Hand : pc'[q] = "have" <=> pc[q] = "have"
    BY Zenon, <1>2
  <2>2. \A j \in Block : Holder(j)' = Holder(j)
    BY Zenon, <2>1, SameHolder
  <2>. QED BY Zenon, <1>1, <2>2, Unseen
<1>3. ASSUME pc[p] \in Holding
      PROVE  \E k \in Block :
               /\ blockno[buf[p]] = k
               /\ \A j \in Block : j # k => Content(j)' = Content(j) /\ Holder(j)' = Holder(j)
               /\ \A q \in Hand : q # p /\ pc[q] = "have" => blockno[buf[q]] # k
  <2>1. PICK k \in Block : blockno[buf[p]] = k
    <3>1. pc[p] # "user"
      BY Zenon, <1>3 DEF Holding, Waiting
    <3>. QED BY Zenon, <3>1, HasBuffer
  <2>2. ASSUME NEW j \in Block, j # k PROVE Holder(j)' = Holder(j)
    <3>1. \A q \in Hand : pc'[q] = "have" /\ blockno'[buf'[q]] = j
                            <=> pc[q] = "have" /\ blockno[buf[q]] = j
      BY Zenon, <2>1, <2>2
    <3>. QED BY Zenon, <3>1, SameHolder
  <2>3. ASSUME NEW q \in Hand, q # p, pc[q] = "have" PROVE blockno[buf[q]] # k
    <3>1. pc[q] \in Holding /\ pc[q] # "user" /\ pc[p] # "user"
      BY Zenon, <1>3, <2>3 DEF Holding, Waiting
    <3>2. buf[q] \in Buf /\ buf[p] \in Buf
      BY Zenon, <3>1, HasBuffer
    <3>3. buf[q] # buf[p]
      BY Zenon, <3>1, <1>3, <2>3, Alone
    <3>4. k # NoBlock
      BY Zenon DEF Ordinary
    <3>. QED BY Zenon, <2>1, <3>2, <3>3, <3>4 DEF Once
  <2>. QED BY Zenon, <2>1, <2>2, <2>3, <1>1
<1>4. ASSUME pc[p] \in Holding, pc[p] # "have", pc'[p] = "have" PROVE \E k \in Block : S!Get(p, k)
  <2>1. PICK k \in Block :
               /\ blockno[buf[p]] = k
               /\ \A j \in Block : j # k => Content(j)' = Content(j) /\ Holder(j)' = Holder(j)
               /\ \A q \in Hand : q # p /\ pc[q] = "have" => blockno[buf[q]] # k
    BY Zenon, <1>3, <1>4
  <2>2. Holder(k)' = p
    BY ZenonT(40), <2>1, <1>4 DEF View
  <2>3. \A q \in Hand : pc[q] = "have" => blockno[buf[q]] # k
    BY Zenon, <2>1, <1>4
  <2>4. Holder(k) = NoOne
    BY Zenon, <2>3 DEF View
  <2>. QED BY Zenon, <2>1, <2>2, <2>4, <1>1, Seen
<1>5. ASSUME pc[p] = "have", pc'[p] # "have" PROVE \E k \in Block : S!Release(p, k)
  <2>0. pc[p] \in Holding
    BY Zenon, <1>5 DEF Holding
  <2>1. PICK k \in Block :
               /\ blockno[buf[p]] = k
               /\ \A j \in Block : j # k => Content(j)' = Content(j) /\ Holder(j)' = Holder(j)
               /\ \A q \in Hand : q # p /\ pc[q] = "have" => blockno[buf[q]] # k
    BY Zenon, <1>3, <2>0
  <2>2. Holder(k) = p
    BY Zenon, <2>1, <1>5 DEF View
  <2>3. \A q \in Hand : pc'[q] = "have" => blockno'[buf'[q]] # k
    BY Zenon, <2>1, <1>5
  <2>4. Holder(k)' = NoOne
    BY Zenon, <2>3 DEF View
  <2>. QED BY ZenonT(40), <2>1, <2>2, <2>4, <1>1, Seen
<1>. QED BY Zenon, <1>2, <1>4, <1>5

(* log_write puts something into the block of its process.                 *)
LEMMA log_writeSeen ==
  ASSUME Ordinary, IInv, View, View', NEW p \in Hand, NEW d \in Data, log_write(p, d)
  PROVE  \E k \in Block : S!Put(p, k, d)
<1>. USE DEF IInv
<1>1. /\ pc[p] = "have" /\ data' = [data EXCEPT ![buf[p]] = d]
      /\ flags' = [flags EXCEPT ![buf[p]] = @ \cup {"D"}]
      /\ UNCHANGED <<blockno, disk, pc, buf>>
  BY Zenon DEF log_write, At
<1>2. buf[p] \in Buf /\ blockno[buf[p]] \in Block
  BY Zenon, <1>1, HasBuffer
<1>3. /\ data'[buf[p]] = d /\ flags'[buf[p]] = flags[buf[p]] \cup {"D"}
      /\ \A c \in Buf : c # buf[p] => data'[c] = data[c] /\ flags'[c] = flags[c]
  BY Zenon, <1>1, <1>2 DEF TypeOK
<1>4. PICK k \in Block : blockno[buf[p]] = k
  BY Zenon, <1>2
<1>5. \A j \in Block : Holder(j)' = Holder(j)
  BY Zenon, <1>1, SameHolder
<1>6. Holder(k) = p
  BY Zenon, <1>1, <1>4 DEF View
<1>7. Content(k)' = d
  <2>1. pc[p] \in {"have", "bwrite"}
    BY Zenon, <1>1
  <2>2. "V" \in flags'[buf[p]]
    BY Zenon, <2>1, <1>3, HasData
  <2>. QED BY Zenon, <2>2, <1>1, <1>2, <1>3, <1>4 DEF View
<1>8. ASSUME NEW j \in Block, j # k PROVE Content(j)' = Content(j)
  <2>1. \A c \in Buf : blockno[c] = j => c # buf[p]
    BY Zenon, <1>4, <1>8
  <2>. QED BY Zenon, <2>1, <1>1, <1>3, SameContent
<1>. QED BY Zenon, <1>5, <1>6, <1>7, <1>8, Seen

(* The steps of a process on a buffer that it has referenced.              *)
LEMMA StepSeen ==
  ASSUME Ordinary, IInv, View, View', NEW p \in Hand,
         \/ acquiresleep(p) \/ bread(p) \/ iderw(p) \/ iderwWoken(p) \/ kill(p)
         \/ bwrite(p) \/ releasesleep(p)
  PROVE  UNCHANGED S!vars \/ \E k \in Block : S!Get(p, k) \/ S!Release(p, k)
<1>. USE DEF IInv
<1>1. UNCHANGED <<blockno, buf, disk, data>>
  BY Zenon DEF acquiresleep, bread, iderw, iderwWoken, kill, bwrite, releasesleep, buffers
<1>2. \A q \in Hand : q # p => (pc'[q] = "have" <=> pc[q] = "have")
  <2>1. (\E l : pc' = [pc EXCEPT ![p] = l]) \/ releasesleep(p)
    BY Zenon DEF acquiresleep, bread, iderw, iderwWoken, kill, bwrite, Enqueue, Goto
  <2>2. ASSUME NEW l, pc' = [pc EXCEPT ![p] = l] PROVE \A q \in Hand : q # p => pc'[q] = pc[q]
    BY Zenon, <2>2 DEF TypeOK
  <2>3. CASE releasesleep(p)
    BY Zenon, <2>3 DEF releasesleep
  <2>. QED BY Zenon, <2>1, <2>2, <2>3
<1>3. \A b \in Buf : "V" \in flags'[b] <=> "V" \in flags[b]
  <2>1. flags' = flags \/ bwrite(p)
    BY Zenon DEF acquiresleep, bread, iderw, iderwWoken, kill, releasesleep, buffers
  <2>2. ASSUME bwrite(p), NEW b \in Buf PROVE "V" \in flags'[b] <=> "V" \in flags[b]
    <3>1. flags'[b] = IF b = buf[p] THEN flags[b] \cup {"D"} ELSE flags[b]
      BY Zenon, <2>2 DEF bwrite, TypeOK
    <3>2. "V" \notin {"D"}
      BY Zenon
    <3>3. CASE b = buf[p]
      BY Zenon, <3>1, <3>2, <3>3
    <3>. QED BY Zenon, <3>1, <3>3
  <2>. QED BY Zenon, <2>1, <2>2
<1>4. pc[p] \in Holding \/ (pc'[p] = "have" <=> pc[p] = "have")
  <2>1. CASE acquiresleep(p) \/ kill(p)
    <3>1. PICK l \in {"locked", "lock_asleep", "io", "lock"} :
            pc' = [pc EXCEPT ![p] = l] /\ pc[p] # "have"
      BY Zenon, <2>1 DEF acquiresleep, kill, Goto, At
    <3>2. pc'[p] # "have"
      BY Zenon, <3>1 DEF TypeOK
    <3>. QED BY Zenon, <3>1, <3>2
  <2>2. CASE bread(p) \/ iderw(p) \/ iderwWoken(p) \/ bwrite(p) \/ releasesleep(p)
    BY Zenon, <2>2 DEF bread, iderw, iderwWoken, bwrite, releasesleep, At, Holding, Waiting
  <2>. QED BY Zenon, <2>1, <2>2
<1>. QED BY Zenon, <1>1, <1>2, <1>3, <1>4, MoveSeen

(* brelse drops a reference, which cannot be seen.                         *)
LEMMA brelseUnseen ==
  ASSUME Ordinary, IInv, View, View', NEW p \in Hand, brelse(p)
  PROVE  UNCHANGED S!vars
<1>. USE DEF IInv
<1>1. /\ pc[p] = "brelse" /\ pc' = [pc EXCEPT ![p] = "user"] /\ buf' = [buf EXCEPT ![p] = NoBuf]
      /\ UNCHANGED <<blockno, flags, data, disk>>
  BY Zenon DEF brelse, At, Goto
<1>2. pc'[p] = "user" /\ \A q \in Hand : q # p => pc'[q] = pc[q] /\ buf'[q] = buf[q]
  BY Zenon, <1>1 DEF TypeOK
<1>3. ASSUME NEW q \in Hand
      PROVE  (pc'[q] = "have" <=> pc[q] = "have") /\ (pc[q] = "have" => buf'[q] = buf[q])
  BY Zenon, <1>1, <1>2
<1>4. \A j \in Block : Holder(j)' = Holder(j)
  BY Zenon, <1>1, <1>3, SameHolder
<1>5. \A j \in Block : Content(j)' = Content(j)
  BY Zenon, <1>1, SameContent
<1>. QED BY Zenon, <1>4, <1>5, Unseen

(* The buffer cache implements a store of blocks, each of which one        *)
(* process at a time can have, and finds there what was last put into it:  *)
(* bread, log_write, bwrite and brelse take, put and release, and nothing  *)
(* else can be seen.                                                       *)
THEOREM ImplementsStore ==
  ASSUME Ordinary
  PROVE  Spec => ImplementsBlockStore
<1>1. IInv => View
  BY Zenon, Viewed
<1>2. Init => S!Init
  <2>. SUFFICES ASSUME Init PROVE S!Init
    OBVIOUS
  <2>1. View
    BY Zenon, Initially, Viewed
  <2>2. ASSUME NEW k \in Block PROVE Content(k) = Initial /\ Holder(k) = NoOne
    <3>1. \A b \in Buf : "V" \notin flags[b]
      BY Zenon DEF Init
    <3>2. \A p \in Hand : pc[p] # "have"
      BY Zenon DEF Init
    <3>3. disk[k] = Initial
      BY Zenon DEF Init
    <3>. QED BY Zenon, <2>1, <3>1, <3>2, <3>3 DEF View
  <2>3. [k \in Block |-> Content(k)] = [k \in Block |-> Initial]
    BY Zenon, <2>2
  <2>4. [k \in Block |-> Holder(k)] = [k \in Block |-> NoOne]
    BY Zenon, <2>2
  <2>. QED BY Zenon, <2>3, <2>4 DEF S!Init
<1>3. IInv /\ View /\ View' /\ [Next]_vars => [S!Next]_(S!vars)
  <2>. SUFFICES ASSUME IInv, View, View', [Next]_vars PROVE S!Next \/ UNCHANGED S!vars
    BY Zenon
  <2>1. CASE ideintr
    BY Zenon, <2>1, ideintrUnseen
  <2>2. ASSUME NEW p \in Hand,
               \/ acquiresleep(p) \/ bread(p) \/ iderw(p) \/ iderwWoken(p) \/ kill(p)
               \/ bwrite(p) \/ releasesleep(p)
        PROVE  S!Next \/ UNCHANGED S!vars
    <3>1. UNCHANGED S!vars \/ \E k \in Block : S!Get(p, k) \/ S!Release(p, k)
      BY Zenon, <2>2, StepSeen
    <3>. QED BY Zenon, <3>1 DEF S!Next
  <2>3. ASSUME NEW p \in Hand, brelse(p) PROVE S!Next \/ UNCHANGED S!vars
    BY Zenon, <2>3, brelseUnseen
  <2>4. ASSUME NEW p \in Hand, NEW k \in Block, bget(p, k) PROVE S!Next \/ UNCHANGED S!vars
    BY Zenon, <2>4, bgetUnseen
  <2>5. ASSUME NEW p \in Hand, NEW d \in Data, log_write(p, d) PROVE S!Next \/ UNCHANGED S!vars
    <3>1. \E k \in Block : S!Put(p, k, d)
      BY Zenon, <2>5, log_writeSeen
    <3>. QED BY Zenon, <3>1 DEF S!Next
  <2>6. CASE UNCHANGED vars
    <3>1. UNCHANGED <<blockno, flags, data, disk, pc, buf>>
      BY Zenon, <2>6 DEF vars, buffers
    <3>2. \A k \in Block : Content(k)' = Content(k) /\ Holder(k)' = Holder(k)
      BY Zenon, <3>1, SameContent, SameHolder
    <3>. QED BY Zenon, <3>2, Unseen
  <2>7. CASE Next
    BY Zenon, <2>7, <2>1, <2>2, <2>3, <2>4, <2>5 DEF Next
  <2>. QED BY Zenon, <2>6, <2>7
<1>. QED BY <1>1, <1>2, <1>3, Invariant, PTL DEF Spec, ImplementsBlockStore, S!Spec
=============================================================================
