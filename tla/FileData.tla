------------------------------ MODULE FileData ------------------------------
(***************************************************************************)
(* The contents of files (fs.c, file.c): the bitmap of free blocks, the    *)
(* direct and indirect blocks of an inode, readi and writei, filewrite     *)
(* with its transactions, and itrunc.  The processes work on files of      *)
(* their own or on the same one; a step ends where another process can     *)
(* come between, and an inode's lock is held from part to part.            *)
(***************************************************************************)
EXTENDS Integers, Sequences, FiniteSets

CONSTANTS Proc, File,
          Block,             \* data blocks of the disk, by number
          BSIZE, NDIRECT, NINDIRECT, MAXOPBLOCKS, UINT,
          Writes, Offsets    \* bound: what is written, and where

MAXFILE == NDIRECT + NINDIRECT
NoOne == "none"
BITMAP == 0    \* the block of the bitmap, and that of the inodes
INODE == -1
NoFile == [addrs |-> [i \in 0 .. NDIRECT |-> 0], size |-> 0]

VARIABLES
  bitmap,            \* the blocks in use
  inode, dinode,     \* addrs and size of each inode, in the cache and on disk
  data, a,           \* blocks, as bytes and as the entries of an indirect block
  owner,             \* ip->lock
  pc, ip, off, src,  \* filewrite of each process: the file, f->off, bytes left
  tot,               \* writei: bytes left of this part; itrunc: j
  logged,            \* what this transaction has logged
  bytes,             \* history: what the files hold by the writes made
  panicked

vars == <<bitmap, inode, dinode, data, a, owner, pc, ip, off, src, tot, logged, bytes, panicked>>

Init ==
  /\ bitmap = {} /\ inode = [f \in File |-> NoFile] /\ dinode = inode
  /\ data = [b \in Block |-> [i \in 0 .. BSIZE - 1 |-> 0]]
  /\ a = [b \in Block |-> [i \in 0 .. NINDIRECT - 1 |-> 0]]
  /\ owner = [f \in File |-> NoOne]
  /\ pc = [p \in Proc |-> "user"] /\ ip = [p \in Proc |-> NoOne] /\ off = [p \in Proc |-> 0]
  /\ src = [p \in Proc |-> <<>>] /\ tot = [p \in Proc |-> 0] /\ logged = [p \in Proc |-> {}]
  /\ bytes = [f \in File |-> <<>>] /\ panicked = "no"
-----------------------------------------------------------------------------
Lesser(x, y) == IF x < y THEN x ELSE y
At(p, label) == panicked = "no" /\ pc[p] = label
Set(v, p, x) == [v EXCEPT ![p] = x]
Log(p, S) == logged' = [logged EXCEPT ![p] = @ \cup S]
Unowned(f) == owner[f] = NoOne

Free == Block \ bitmap
Lowest == CHOOSE b \in Free : \A c \in Free : b <= c

(* The block that bmap finds, or 0.                                        *)
Mapped(f, bn) ==
  LET at == inode[f].addrs[NDIRECT]
  IN IF bn < NDIRECT THEN inode[f].addrs[bn] ELSE IF at = 0 THEN 0 ELSE a[at][bn - NDIRECT]

(* Faulty variant of bzero: the block is left as it was.                   *)
bzeroNot(k) == [bytes |-> data[k], entries |-> a[k]]
bzero(k) == [bytes |-> [i \in 0 .. BSIZE - 1 |-> 0], entries |-> [i \in 0 .. NINDIRECT - 1 |-> 0]]

(* bmap, one balloc at a time: a direct block or the indirect one, which   *)
(* the inode then names, or a block that the indirect block names.         *)
bmap(p) ==
  /\ At(p, "writei") /\ tot[p] > 0 /\ Mapped(ip[p], off[p] \div BSIZE) = 0
  /\ LET bn == off[p] \div BSIZE
         at == inode[ip[p]].addrs[NDIRECT]
         indirect == bn >= NDIRECT /\ at # 0
     IN IF Free = {}
        THEN panicked' = "out of blocks" /\ UNCHANGED <<bitmap, inode, data, a, logged>>
        ELSE /\ bitmap' = bitmap \cup {Lowest}
             /\ data' = [data EXCEPT ![Lowest] = bzero(Lowest).bytes]
             /\ a' = [b \in Block |-> IF b = Lowest THEN bzero(b).entries
                        ELSE IF indirect /\ b = at THEN [a[b] EXCEPT ![bn - NDIRECT] = Lowest]
                        ELSE a[b]]
             /\ inode' = IF indirect THEN inode
                         ELSE [inode EXCEPT ![ip[p]].addrs[Lesser(bn, NDIRECT)] = Lowest]
             /\ Log(p, {BITMAP, Lowest} \cup {b \in {at} : indirect})
             /\ UNCHANGED panicked
  /\ UNCHANGED <<dinode, owner, pc, ip, off, src, tot, bytes>>
-----------------------------------------------------------------------------
(* filewrite is called: by write, with the file's offset, or by            *)
(* writeToSwapFile, which sets the offset first.                           *)
filewrite(p, f, o, w) ==
  /\ At(p, "user") /\ pc' = Set(pc, p, "part")
  /\ ip' = Set(ip, p, f) /\ off' = Set(off, p, o) /\ src' = Set(src, p, w)
  /\ UNCHANGED <<bitmap, inode, dinode, data, a, owner, tot, logged, bytes, panicked>>

Return(p) ==
  /\ pc' = Set(pc, p, "user") /\ ip' = Set(ip, p, NoOne) /\ off' = Set(off, p, 0)
  /\ src' = Set(src, p, <<>>) /\ logged' = Set(logged, p, {})

(* Faulty variant of max: all the blocks of a transaction for data.        *)
maxAll == MAXOPBLOCKS * BSIZE

(* How much a part may write.                                              *)
max == ((MAXOPBLOCKS - 1 - 1 - 2) \div 2) * BSIZE

Sum(x, y) == (x + y) % UINT

(* Bytes s at offset o of old.                                             *)
Overwrite(old, o, s) ==
  [i \in 1 .. (IF o + Len(s) > Len(old) THEN o + Len(s) ELSE Len(old)) |->
     IF i > o /\ i <= o + Len(s) THEN s[i - o] ELSE old[i]]

(* A part: begin_op, ilock, and the tests of writei.                       *)
part(p) ==
  /\ At(p, "part") /\ Unowned(ip[p])
  /\ LET f == ip[p]
         n1 == Lesser(Len(src[p]), max)
     IN IF off[p] > inode[f].size \/ Sum(off[p], n1) < off[p] \/ Sum(off[p], n1) > MAXFILE * BSIZE
        THEN Return(p) /\ UNCHANGED <<owner, tot, bytes>>
        ELSE /\ owner' = Set(owner, f, p) /\ tot' = Set(tot, p, n1) /\ pc' = Set(pc, p, "writei")
             /\ bytes' = [bytes EXCEPT ![f] = Overwrite(@, off[p], SubSeq(src[p], 1, n1))]
             /\ UNCHANGED <<ip, off, src, logged>>
  /\ UNCHANGED <<bitmap, inode, dinode, data, a, panicked>>

(* Faulty variant of memmove: the bytes go to the start of the block.      *)
memmoveStart(block, at, from, m) ==
  [i \in DOMAIN block |-> IF i < m THEN from[i + 1] ELSE block[i]]

memmove(block, at, from, m) ==
  [i \in DOMAIN block |-> IF i >= at /\ i < at + m THEN from[i - at + 1] ELSE block[i]]

(* One turn of the loop of writei, with the block there.                   *)
writei(p) ==
  /\ At(p, "writei") /\ tot[p] > 0
  /\ LET k == Mapped(ip[p], off[p] \div BSIZE)
         at == off[p] % BSIZE
         m == Lesser(tot[p], BSIZE - at)
     IN /\ k # 0
        /\ data' = [data EXCEPT ![k] = memmove(@, at, src[p], m)]
        /\ off' = Set(off, p, off[p] + m) /\ tot' = Set(tot, p, tot[p] - m)
        /\ src' = Set(src, p, SubSeq(src[p], m + 1, Len(src[p])))
        /\ Log(p, {k})
  /\ UNCHANGED <<bitmap, inode, dinode, a, owner, pc, ip, bytes, panicked>>

iupdate(f, i) == inode' = [inode EXCEPT ![f] = i] /\ dinode' = [dinode EXCEPT ![f] = i]

(* Faulty variant of grow: the inode is saved only when a block is full.   *)
growFull(p) ==
  IF off[p] > inode[ip[p]].size
  THEN /\ inode' = [inode EXCEPT ![ip[p]].size = off[p]]
       /\ dinode' = IF off[p] % BSIZE = 0 THEN inode' ELSE dinode
  ELSE UNCHANGED <<inode, dinode>>

(* writei saves the inode if the file has grown.                           *)
grow(p) ==
  IF off[p] > inode[ip[p]].size THEN iupdate(ip[p], [inode[ip[p]] EXCEPT !.size = off[p]])
  ELSE UNCHANGED <<inode, dinode>>

(* The end of a part: the size, iunlock, end_op, and the next part.        *)
written(p) ==
  /\ At(p, "writei") /\ tot[p] = 0
  /\ grow(p) /\ owner' = Set(owner, ip[p], NoOne)
  /\ IF src[p] = <<>> THEN Return(p)
     ELSE pc' = Set(pc, p, "part") /\ logged' = Set(logged, p, {}) /\ UNCHANGED <<ip, off, src>>
  /\ UNCHANGED <<bitmap, data, a, tot, bytes, panicked>>
-----------------------------------------------------------------------------
(* The last put of an inode without links: itrunc begins.                  *)
iput(p, f) ==
  /\ At(p, "user") /\ Unowned(f) /\ inode[f].size > 0 /\ \A q \in Proc : ip[q] # f
  /\ owner' = Set(owner, f, p) /\ ip' = Set(ip, p, f) /\ pc' = Set(pc, p, "itrunc")
  /\ tot' = Set(tot, p, 0) /\ bytes' = Set(bytes, f, <<>>)
  /\ UNCHANGED <<bitmap, inode, dinode, data, a, off, src, logged, panicked>>

bfree(k) ==
  IF k \in bitmap THEN bitmap' = bitmap \ {k} /\ UNCHANGED panicked
  ELSE panicked' = "freeing free block" /\ UNCHANGED bitmap

Forget(f, i) == inode' = [inode EXCEPT ![f].addrs[i] = 0]

(* itrunc, one bfree at a time: the direct blocks, what the indirect block *)
(* names, and the indirect block.                                          *)
itrunc(p) ==
  /\ At(p, "itrunc")
  /\ LET f == ip[p]
         direct == {i \in 0 .. NDIRECT - 1 : inode[f].addrs[i] # 0}
         i == CHOOSE i \in direct : \A j \in direct : i <= j
         at == inode[f].addrs[NDIRECT]
     IN \/ /\ direct # {}
           /\ bfree(inode[f].addrs[i]) /\ Forget(f, i) /\ UNCHANGED tot
        \/ /\ direct = {} /\ at # 0 /\ tot[p] < NINDIRECT
           /\ IF a[at][tot[p]] # 0 THEN bfree(a[at][tot[p]]) ELSE UNCHANGED <<bitmap, panicked>>
           /\ tot' = Set(tot, p, tot[p] + 1) /\ UNCHANGED inode
        \/ /\ direct = {} /\ at # 0 /\ tot[p] = NINDIRECT
           /\ bfree(at) /\ Forget(f, NDIRECT) /\ UNCHANGED tot
  /\ UNCHANGED <<dinode, data, a, owner, pc, ip, off, src, logged, bytes>>

truncated(p) ==
  /\ At(p, "itrunc") /\ inode[ip[p]].addrs = NoFile.addrs
  /\ iupdate(ip[p], NoFile) /\ owner' = Set(owner, ip[p], NoOne)
  /\ Return(p) /\ tot' = Set(tot, p, 0)
  /\ UNCHANGED <<bitmap, data, a, bytes, panicked>>

Next ==
  \E p \in Proc :
    \/ part(p) \/ bmap(p) \/ writei(p) \/ written(p) \/ itrunc(p) \/ truncated(p)
    \/ \E f \in File : iput(p, f) \/ \E o \in Offsets, w \in Writes : filewrite(p, f, o, w)

Spec == Init /\ [][Next]_vars
-----------------------------------------------------------------------------
(* readi: the blocks of the range, put together; <<-1>> is the error.      *)
readi(f, o, n0) ==
  LET sz == inode[f].size
      n == IF Sum(o, n0) > sz THEN sz - o ELSE n0
      from[t \in 0 .. n] ==
        LET m == Lesser(n - t, BSIZE - ((o + t) % BSIZE))
            k == Mapped(f, (o + t) \div BSIZE)
        IN IF t = n THEN <<>>
           ELSE [j \in 1 .. m |-> data[k][((o + t) % BSIZE) + j - 1]] \o from[t + m]
  IN IF o > sz \/ Sum(o, n0) < o THEN <<-1>> ELSE from[0]

(* Whoever locks a file reads the bytes that were last written there, and  *)
(* none beyond its end, for every offset and every length, also where      *)
(* offset and length overflow together.                                    *)
ReadsBack ==
  \A f \in File : Unowned(f) => \A o, n \in 0 .. UINT - 1 :
    readi(f, o, n) = IF o > Len(bytes[f]) \/ o + n >= UINT THEN <<-1>>
                     ELSE SubSeq(bytes[f], o + 1, Lesser(o + n, Len(bytes[f])))

(* The places that name a block; those an itrunc has passed count no more. *)
Places(k) ==
  {<<f, i>> \in File \X (0 .. NDIRECT) : inode[f].addrs[i] = k} \cup
  {<<f, NDIRECT + 1 + j>> : <<f, j>> \in
     {<<g, i>> \in File \X (0 .. NINDIRECT - 1) :
        LET at == inode[g].addrs[NDIRECT]
        IN /\ at # 0 /\ a[at][i] = k
           /\ \A p \in Proc : pc[p] = "itrunc" /\ ip[p] = g => i >= tot[p]}}

(* A block is named in one place if the bitmap has it, and in none if not: *)
(* two files never share a block, none is lost, and none is freed twice,   *)
(* whatever files are written and truncated at a time.                     *)
BlocksExact ==
  /\ panicked # "freeing free block"
  /\ \A k \in Block : Cardinality(Places(k)) = IF k \in bitmap THEN 1 ELSE 0

(* What bmap and writei changed in an inode is on disk when it is          *)
(* unlocked, though only a file that grows is saved.                       *)
InodesSaved == \A f \in File : Unowned(f) => dinode[f] = inode[f]

(* "write a few blocks at a time to avoid exceeding the maximum log        *)
(* transaction size" (file.c:127): no part logs more blocks than begin_op  *)
(* has reserved, wherever it begins in a block and whatever it allocates,  *)
(* and not even as many: log_write panics on a full log.                   *)
PartsFit ==
  \A p \in Proc : Cardinality(logged[p] \cup {INODE}) < MAXOPBLOCKS
=============================================================================
