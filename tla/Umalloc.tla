------------------------------ MODULE Umalloc -------------------------------
(***************************************************************************)
(* The user library's heap (umalloc.c): malloc and free of Kernighan and   *)
(* Ritchie, and the pages of pmalloc, protect_page and pfree.  Memory is   *)
(* counted in units of a Header; PGSIZE and NALLOC are in units too.       *)
(***************************************************************************)
EXTENDS Integers, Sequences, FiniteSets

CONSTANTS PGSIZE,        \* a page, 4096 / 8
          NALLOC,        \* what morecore asks for at least, 4096
          Top,           \* bound: the end of the heap
          MaxLive,       \* bound: blocks in use at a time
          Requests       \* bound: the sizes that are asked for, headers included

VARIABLES
  list,          \* the free list, a circle of chunks: freep, freep->ptr, ...
  brk,           \* where sbrk adds memory
  live,          \* what the program has, with its headers; paged: by pmalloc
  pte1, ro,      \* pages with PTE_1, pages without PTE_W
  killed         \* by a write to a protected page

vars == <<list, brk, live, pte1, ro, killed>>

Page(u) == u \div PGSIZE
Chunk(at, size) == [at |-> at, size |-> size]

(* The list as the first call makes it: base is static, below the heap.    *)
(* exec has aligned the break.                                             *)
Init ==
  /\ list = <<Chunk(0, 0)>> /\ brk = PGSIZE
  /\ live = {} /\ pte1 = {} /\ ro = {} /\ killed = FALSE
-----------------------------------------------------------------------------
First(ks) == CHOOSE k \in ks : \A j \in ks : k <= j
From(l, k) == SubSeq(l, k, Len(l)) \o SubSeq(l, 1, k - 1)     \* freep = l[k]
Next1(l, k) == l[IF k = Len(l) THEN 1 ELSE k + 1]

(* Where the search of free stops: bp comes between p and p->ptr, or is    *)
(* beyond either end of the heap.                                          *)
Stops(l, bp) ==
  {k \in DOMAIN l :
     LET p == l[k].at
         q == Next1(l, k).at
     IN (bp > p /\ bp < q) \/ (p >= q /\ (bp > p \/ bp < q))}

(* Faulty variant of free: the chunk is not joined with the one above.     *)
freeApart(l, b) ==
  LET r == From(l, First(Stops(l, b.at)))
      p == r[1]
      rest == Tail(r)
  IN IF p.at + p.size = b.at THEN <<Chunk(p.at, p.size + b.size)>> \o rest
     ELSE <<p, b>> \o rest

(* free: the chunks above and below are joined with the one freed.         *)
free(l, b) ==
  LET r == From(l, First(Stops(l, b.at)))
      p == r[1]
      up == Len(r) > 1 /\ b.at + b.size = r[2].at
      size == IF up THEN b.size + r[2].size ELSE b.size
      rest == SubSeq(r, IF up THEN 3 ELSE 2, Len(r))
  IN IF p.at + p.size = b.at THEN <<Chunk(p.at, p.size + size)>> \o rest
     ELSE <<p, Chunk(b.at, size)>> \o rest

(* The search for a chunk of n units begins after freep and ends with it;  *)
(* the element of Fits is the chunk before the one that fits.              *)
Fits(l, n) == {k \in DOMAIN l : Next1(l, k).size >= n}

(* morecore adds to the list, if the heap can grow.                        *)
Core(n) == IF n < NALLOC THEN NALLOC ELSE n
Grows(n, min) == Fits(list, min) = {} /\ brk + Core(n) <= Top
Searched(n, min) == IF Grows(n, min) THEN free(list, Chunk(brk, Core(n))) ELSE list

(* The chunks of the search's end: what is before the one found, it, and   *)
(* the others.                                                             *)
Found(n, min) == LET l == Searched(n, min) IN From(l, First(Fits(l, min)))
Finds(n, min) == Fits(Searched(n, min), min) # {}

(* Whoever writes a header to a protected page is killed by the trap.      *)
Touch(headers) == killed' = \E c \in headers : Page(c.at) \in ro'

Take(n, min, rest, paged) ==     \* the end of a chunk, of which rest units stay
  LET r == Found(n, min)
      p == r[2]
      b == [at |-> p.at + rest, size |-> n, paged |-> paged]
  IN /\ brk' = IF Grows(n, min) THEN brk + Core(n) ELSE brk
     /\ live' = live \cup {b}
     /\ IF rest = 0 THEN list' = <<r[1]>> \o SubSeq(r, 3, Len(r)) /\ Touch({r[1]})
        ELSE list' = [r EXCEPT ![2].size = rest] /\ Touch({p, b})

(* malloc takes the end of a chunk, or all of it.                          *)
malloc(n) ==
  /\ ~ killed /\ Cardinality(live) < MaxLive /\ UNCHANGED <<pte1, ro>>
  /\ Finds(n, n) /\ Take(n, n, Found(n, n)[2].size - n, FALSE)

(* pmalloc: a chunk of two pages or more is cut at what would be a page,   *)
(* if the chunk began at one; what is above the page is given up.          *)
pmalloc ==
  /\ ~ killed /\ Cardinality(live) < MaxLive /\ UNCHANGED ro
  /\ Finds(PGSIZE + 1, 2 * PGSIZE)
  /\ LET p == Found(PGSIZE + 1, 2 * PGSIZE)[2]
         rest == (p.size \div PGSIZE - 1) * PGSIZE - 1
     IN /\ Take(PGSIZE + 1, 2 * PGSIZE, rest, TRUE)
        /\ pte1' = pte1 \cup {Page(p.at + rest + 1)}

(* What protect_page and pfree test; PTE_1 stays when a page is freed.     *)
IsPage(b) == Page(b.at + 1) \in pte1 /\ b.size = PGSIZE + 1

protect_page(b) ==
  /\ ~ killed /\ IsPage(b)
  /\ ro' = ro \cup {Page(b.at + 1)}
  /\ UNCHANGED <<list, brk, live, pte1, killed>>

Release(b) ==
  /\ list' = free(list, Chunk(b.at, b.size)) /\ live' = live \ {b}
  /\ Touch({b, list[First(Stops(list, b.at))]})
  /\ UNCHANGED <<brk, pte1>>

pfree(b) ==
  /\ ~ killed /\ IsPage(b) /\ Page(b.at + 1) \in ro
  /\ ro' = ro \ {Page(b.at + 1)} /\ Release(b)

Free(b) == ~ killed /\ ~ b.paged /\ UNCHANGED ro /\ Release(b)

Next ==
  \/ pmalloc
  \/ \E n \in Requests : malloc(n)
  \/ \E b \in live : protect_page(b) \/ pfree(b) \/ Free(b)

Spec == Init /\ [][Next]_vars
-----------------------------------------------------------------------------
(* Whatever is allocated, protected and freed in whatever order, blocks    *)
(* and free chunks are in the heap and never overlap; the free list is one *)
(* circle in the order of addresses, and no two neighbours are left apart. *)
HeapSound ==
  LET chunks == {list[k] : k \in DOMAIN list}
      parts == (chunks \ {Chunk(0, 0)}) \cup live
  IN /\ \A c \in parts : c.at >= PGSIZE /\ c.at + c.size <= brk
     /\ \A c, d \in parts : c # d => c.at + c.size <= d.at \/ d.at + d.size <= c.at
     /\ Cardinality({k \in DOMAIN list : Next1(list, k).at <= list[k].at}) = 1
     /\ \A c, d \in chunks : c.at + c.size # d.at \/ c.size = 0

(* "the page will be page-aligned" (README.md:108).                        *)
PmallocAligned == \A b \in live : b.paged => (b.at + 1) % PGSIZE = 0
=============================================================================
