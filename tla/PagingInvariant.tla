-------------------------- MODULE PagingInvariant ---------------------------
(***************************************************************************)
(* The inductive invariant of Paging, and the proof that it is preserved by *)
(* what user code does, by system calls other than fork, by a round of the *)
(* loop of select_SCFIFO, and by allocuvm and swap.                        *)
(*                                                                         *)
(* The invariant says what the monitors look like: entries of ram_monitor  *)
(* are used from the bottom, as many as there are pages, and slots of      *)
(* swap_monitor are used from the bottom, as many as there are pages beyond *)
(* MAX_PYSC_PAGES, but for the slot that page_from_disk has emptied and not *)
(* yet filled again.  So a page always finds a slot, the file never has a  *)
(* gap, and of the stale addresses in unused slots none lies beneath the   *)
(* slot that read_page_from_disk is to find.                               *)
(*                                                                         *)
(* Then a weaker invariant, of the frames alone, that all these steps and  *)
(* page_from_disk and fork preserve whatever the monitors say, and so do   *)
(* the calls of PagingHazards, which make the monitors stale.              *)
(***************************************************************************)
EXTENDS PagingHazards, FiniteSetTheorems, WellFoundedInduction, TLAPS

(* A set of naturals that is not empty has a least element.                *)
LEMMA LeastExists ==
  ASSUME NEW S \in SUBSET Nat, S # {}
  PROVE  \E m \in S : \A n \in S : m <= n
<1>. DEFINE T == {0 .. k : k \in S}
<1>1. T \subseteq FiniteSubsetsOf(Nat) /\ T # {}
  <2>1. \A k \in S : 0 .. k \in SUBSET Nat /\ IsFiniteSet(0 .. k)
    BY FS_Interval
  <2>. QED BY ZenonT(30), <2>1 DEF FiniteSubsetsOf
<1>2. \E x \in T : \A y \in T : <<y, x>> \notin StrictSubsetOrdering(Nat)
  <2>. HIDE DEF T
  <2>. QED BY <1>1, FS_StrictSubsetOrderingWellFounded, WFMin
<1>3. PICK m \in S : \A k \in S : <<0 .. k, 0 .. m>> \notin StrictSubsetOrdering(Nat)
  BY ZenonT(30), <1>2
<1>4. ASSUME NEW k \in S, k < m
      PROVE  FALSE
  <2>1. 0 .. k \in SUBSET Nat /\ 0 .. m \in SUBSET Nat
    OBVIOUS
  <2>2. 0 .. k \subseteq 0 .. m
    BY <1>4
  <2>3. m \in 0 .. m /\ m \notin 0 .. k
    BY <1>4
  <2>. QED BY ZenonT(30), <1>3, <2>1, <2>2, <2>3 DEF StrictSubsetOrdering
<1>. QED BY <1>4

(* Pages that have an entry or a slot: all but the one swap has mapped.    *)
Base == IF pc \in {"alloc", "swap"} THEN cur ELSE sz

Control ==
  /\ ImagePages <= sz
  /\ pc \in {"alloc", "swap"} => sz <= cur /\ cur <= newsz
  /\ pc = "swap" => cur < newsz /\ req = cur /\ MAX_PYSC_PAGES <= cur
  /\ pc = "fault" => "PG" \in flags[req] /\ MAX_PYSC_PAGES < sz
  /\ pc = "copy" => /\ req # page /\ MAX_PYSC_PAGES < sz
                    /\ "P" \in flags[req] /\ "P" \in flags[page]

(* Which entries and slots are used.                                       *)
InSlot(i) == i < Base - MAX_PYSC_PAGES

Shape ==
  /\ \A i \in RamIdx : ram_monitor[i].used <=> i < Base
  /\ \A i \in SwapIdx :
       swap_monitor[i].used <=> InSlot(i) /\ ~ (pc = "copy" /\ swap_monitor[i].p_va = req)
  /\ pc = "copy" => \E i \in SwapIdx : InSlot(i) /\ swap_monitor[i].p_va = req
  /\ fsize = IF Base <= MAX_PYSC_PAGES THEN 0 ELSE Base - MAX_PYSC_PAGES
  /\ \A i \in RamIdx : ram_monitor[i].place_in_queue <= last_in_queue

(* No page has two entries, nor two slots.                                 *)
Distinct ==
  /\ \A i, j \in RamIdx : ram_monitor[i].used /\ ram_monitor[j].used /\ i # j
                            => ram_monitor[i].p_va # ram_monitor[j].p_va
  /\ \A i, j \in SwapIdx : InSlot(i) /\ InSlot(j) /\ i # j
                             => swap_monitor[i].p_va # swap_monitor[j].p_va

(* The page table and the monitors agree.                                  *)
IsExtra(p) == (pc = "swap" /\ p = req) \/ (pc = "copy" /\ p = page)
HasEntry(p) == \E i \in RamIdx : ram_monitor[i].used /\ ram_monitor[i].p_va = p
HasSlot(p) == \E i \in SwapIdx : swap_monitor[i].used /\ swap_monitor[i].p_va = p

Agree ==
  \A p \in Page :
    /\ "P" \in flags[p] <=> HasEntry(p) \/ IsExtra(p)
    /\ ~ (HasEntry(p) /\ IsExtra(p))
    /\ "PG" \in flags[p] <=> HasSlot(p)
    /\ "P" \in flags[p] \/ "PG" \in flags[p] <=> p < Limit
    /\ ~ ("P" \in flags[p] /\ "PG" \in flags[p])

(* Each frame is free, or mapped once, or waiting in np.                   *)
Owned ==
  /\ \A p \in Page : "P" \in flags[p] => frame[p] \in Frames /\ frame[p] \notin free
  /\ \A p, q \in Page : "P" \in flags[p] /\ "P" \in flags[q] /\ frame[p] = frame[q] => p = q
  /\ \A f \in Frames : f \notin free =>
       (pc = "fault" /\ f = np) \/ \E p \in Page : "P" \in flags[p] /\ frame[p] = f
  /\ pc = "fault" => /\ np \in Frames /\ np \notin free
                     /\ \A p \in Page : "P" \in flags[p] => frame[p] # np
  /\ pc = "copy" => np = frame[req]

(* Every page has its contents where it will be looked for.                *)
Contents ==
  /\ \A i \in SwapIdx : swap_monitor[i].used => file[i] = val[swap_monitor[i].p_va]
  /\ \A p \in Page : "P" \in flags[p] /\ ~ (pc = "copy" /\ p = req) => mem[frame[p]] = val[p]
  /\ pc = "copy" => buff = val[req]

IInv ==
  /\ TypeOK
  /\ Alive => Control /\ Shape /\ Distinct /\ Agree /\ Owned /\ Contents
-----------------------------------------------------------------------------
USE PagingAssumption DEF Page, RamIdx, SwapIdx

(* What get_free_ram_idx, get_swap_idx and read_page_from_disk find.       *)
LEMMA LowestIsLeast ==
  ASSUME NEW S \in SUBSET Nat, S # {}
  PROVE  Lowest(S) \in S /\ \A j \in S : Lowest(S) <= j
BY ZenonT(30), LeastExists DEF Lowest

LEMMA LowestIs ==
  ASSUME NEW S \in SUBSET Nat, NEW m \in S, \A j \in S : m <= j
  PROVE  Lowest(S) = m
<1>1. Lowest(S) \in S /\ Lowest(S) <= m
  BY Zenon, LowestIsLeast
<1>2. m <= Lowest(S) /\ Lowest(S) \in Nat /\ m \in Nat
  BY ZenonT(30), <1>1
<1>. QED
  <2>. DEFINE l == Lowest(S)
  <2>. HIDE DEF l
  <2>1. l <= m /\ m <= l /\ l \in Nat
    BY Zenon, <1>1, <1>2 DEF l
  <2>2. l = m
    BY <1>2, <2>1
  <2>. QED BY Zenon, <2>2 DEF l

(* The entry that the policy chooses exists and is used.                   *)
LEMMA CandidateUsed ==
  ASSUME TypeOK, UsedRam # {},
         \A i \in RamIdx : ram_monitor[i].place_in_queue <= last_in_queue
  PROVE  Candidate \in RamIdx /\ ram_monitor[Candidate].used
<1>. DEFINE place(i) == ram_monitor[i].place_in_queue
<1>1. \A i \in UsedRam : i \in RamIdx /\ place(i) \in Nat /\ last_in_queue - place(i) \in Nat
  BY SMTT(30) DEF TypeOK, UsedRam
<1>2. \E i \in UsedRam : \A j \in UsedRam : place(i) <= place(j)
  <2>. DEFINE S == {place(i) : i \in UsedRam}
  <2>1. S \in SUBSET Nat /\ S # {}
    BY Zenon, <1>1
  <2>2. \E m \in S : \A n \in S : m <= n
    BY ZenonT(30), <2>1, LeastExists
  <2>. QED BY Zenon, <2>2
<1>3. \E i \in UsedRam : \A j \in UsedRam : place(j) <= place(i)
  <2>. DEFINE S == {last_in_queue - place(i) : i \in UsedRam}
  <2>1. S \in SUBSET Nat /\ S # {}
    BY Zenon, <1>1
  <2>2. \E m \in S : \A n \in S : m <= n
    BY ZenonT(30), <2>1, LeastExists
  <2>3. PICK i \in UsedRam : \A j \in UsedRam : last_in_queue - place(i) <= last_in_queue - place(j)
    BY Zenon, <2>2
  <2>4. last_in_queue \in Nat
    BY Zenon DEF TypeOK
  <2>. QED BY <1>1, <2>3, <2>4
<1>4. Candidate \in UsedRam
  BY Zenon, <1>2, <1>3 DEF Candidate
<1>. QED BY Zenon, <1>4 DEF UsedRam

(* A step that kills the process or panics leaves nothing to preserve but  *)
(* the types.                                                              *)
LEMMA EndStep ==
  ASSUME IInv, pc' \in PC, ~ Alive',
         UNCHANGED <<sz, locals, table, monitors, disk, buff, memory, counters, val>>
  PROVE  IInv'
<1>1. TypeOK'
  BY Zenon DEF IInv, TypeOK, locals, table, monitors, disk, memory, counters
<1>. QED BY Zenon, <1>1 DEF IInv

(* A step of the user that neither maps nor unmaps a page.                 *)
LEMMA SoftStep ==
  ASSUME IInv, pc = "user", pc' = "user",
         UNCHANGED <<sz, locals, frame, monitors, disk, buff, free, counters>>,
         flags' \in [Page -> SUBSET Flag],
         \A p \in Page : "P" \in flags'[p] <=> "P" \in flags[p],
         \A p \in Page : "PG" \in flags'[p] <=> "PG" \in flags[p],
         mem' \in [Frames -> Data], val' \in [Page -> Data],
         \A p \in Page : "P" \in flags[p] => mem'[frame[p]] = val'[p],
         \A p \in Page : "PG" \in flags[p] => val'[p] = val[p]
  PROVE  IInv'
<1>. Alive /\ Control /\ Shape /\ Distinct /\ Agree /\ Owned /\ Contents /\ TypeOK
  BY Zenon DEF IInv, Alive
<1>. UNCHANGED <<pc, sz, newsz, cur, req, np, page, frame, ram_monitor, swap_monitor,
                 last_in_queue, file, fsize, buff, free, pages_in_file, page_fault_counter>>
  BY Zenon DEF locals, monitors, disk, counters
<1>. Base' = Base /\ Limit' = Limit
  BY Zenon DEF Base, Limit
<1>1. TypeOK'
  BY Zenon DEF TypeOK
<1>2. Control'
  BY Zenon DEF Control
<1>3. Shape' /\ Distinct'
  BY Zenon DEF Shape, Distinct, InSlot
<1>4. Agree'
  BY SMTT(30) DEF Agree, HasEntry, HasSlot, IsExtra
<1>5. Owned'
  BY ZenonT(40) DEF Owned
<1>6. Contents'
  <2>1. \A i \in SwapIdx : swap_monitor[i].used =>
          swap_monitor[i].p_va \in Page /\ "PG" \in flags[swap_monitor[i].p_va]
    BY DEF Agree, HasSlot, TypeOK
  <2>. QED BY ZenonT(40), <2>1 DEF Contents
<1>. QED BY ZenonT(40), <1>1, <1>2, <1>3, <1>4, <1>5, <1>6 DEF IInv

LEMMA AccessStep ==
  ASSUME IInv, NEW p \in Page, Access(p)
  PROVE  IInv'
<1>1. flags' \in [Page -> SUBSET Flag]
  BY Zenon DEF Access, IInv, TypeOK, Flag
<1>2. /\ \A q \in Page : "P" \in flags'[q] <=> "P" \in flags[q]
      /\ \A q \in Page : "PG" \in flags'[q] <=> "PG" \in flags[q]
  BY Zenon DEF Access, IInv, TypeOK
<1>3. \A q \in Page : "P" \in flags[q] => mem[frame[q]] = val[q]
  BY Zenon DEF IInv, Alive, Contents, Access
<1>. QED BY ZenonT(30), <1>1, <1>2, <1>3, SoftStep DEF Access, memory, IInv, TypeOK

LEMMA TurnFlagStep ==
  ASSUME IInv, NEW p \in Page, NEW flag \in {"PTE_1", "W"}, NEW on \in BOOLEAN, TurnFlag(p, flag, on)
  PROVE  IInv'
<1>1. flags' \in [Page -> SUBSET Flag]
  BY Zenon DEF TurnFlag, IInv, TypeOK, Flag
<1>2. /\ \A q \in Page : "P" \in flags'[q] <=> "P" \in flags[q]
      /\ \A q \in Page : "PG" \in flags'[q] <=> "PG" \in flags[q]
  BY Zenon DEF TurnFlag, IInv, TypeOK
<1>3. \A q \in Page : "P" \in flags[q] => mem[frame[q]] = val[q]
  BY Zenon DEF IInv, Alive, Contents, TurnFlag, Running
<1>. QED BY ZenonT(30), <1>1, <1>2, <1>3, SoftStep DEF TurnFlag, Running, memory, IInv, TypeOK

(* The user or the kernel writes to a page that is mapped.                 *)
LEMMA WriteStep ==
  ASSUME IInv, pc = "user", pc' = "user", NEW p \in Page, NEW d \in Data, "P" \in flags[p],
         flags' = [flags EXCEPT ![p] = @ \cup {"A"}],
         mem' = [mem EXCEPT ![frame[p]] = d], val' = [val EXCEPT ![p] = d],
         UNCHANGED <<sz, locals, frame, monitors, disk, buff, free, counters>>
  PROVE  IInv'
<1>. TypeOK /\ Owned /\ Contents /\ Agree
  BY Zenon DEF IInv, Alive
<1>1. flags' \in [Page -> SUBSET Flag]
  BY Zenon DEF TypeOK, Flag
<1>2. /\ \A q \in Page : "P" \in flags'[q] <=> "P" \in flags[q]
      /\ \A q \in Page : "PG" \in flags'[q] <=> "PG" \in flags[q]
  BY Zenon DEF TypeOK
<1>3. mem' \in [Frames -> Data] /\ val' \in [Page -> Data]
  BY ZenonT(30) DEF TypeOK
<1>4. \A q \in Page : "P" \in flags[q] => mem'[frame[q]] = val'[q]
  BY DEF Owned, Contents, TypeOK
<1>5. \A q \in Page : "PG" \in flags[q] => val'[q] = val[q]
  BY Zenon DEF Agree, TypeOK
<1>. QED BY Zenon, <1>1, <1>2, <1>3, <1>4, <1>5, SoftStep

LEMMA StoreStep ==
  ASSUME IInv, NEW p \in Page, NEW d \in Data, Store(p, d)
  PROVE  IInv'
BY ZenonT(30), WriteStep DEF Store

LEMMA KernelAccessStep ==
  ASSUME IInv, NEW p \in Page, NEW write \in BOOLEAN, NEW d \in Data, KernelAccess(p, write, d)
  PROVE  IInv'
<1>1. CASE ~ (Present(p) /\ (write => "W" \in flags[p]))
  BY Zenon, <1>1, EndStep DEF KernelAccess, PC, Alive, InKernel, table, memory
<1>2. CASE Present(p) /\ (write => "W" \in flags[p]) /\ write
  BY Zenon, <1>2, WriteStep DEF KernelAccess, Present, Running
<1>3. CASE Present(p) /\ (write => "W" \in flags[p]) /\ ~ write
  <2>1. /\ pc = "user" /\ pc' = "user" /\ mem' = mem /\ val' = val
        /\ flags' = [flags EXCEPT ![p] = @ \cup {"A"}]
        /\ UNCHANGED <<sz, locals, frame, monitors, disk, buff, free, counters>>
    BY Zenon, <1>3 DEF KernelAccess, Running
  <2>2. flags' \in [Page -> SUBSET Flag]
    BY Zenon, <2>1 DEF IInv, TypeOK, Flag
  <2>3. /\ \A q \in Page : "P" \in flags'[q] <=> "P" \in flags[q]
        /\ \A q \in Page : "PG" \in flags'[q] <=> "PG" \in flags[q]
    BY Zenon, <2>1 DEF IInv, TypeOK
  <2>4. \A q \in Page : "P" \in flags[q] => mem[frame[q]] = val[q]
    BY ZenonT(30), <2>1 DEF IInv, Alive, Contents
  <2>. QED BY ZenonT(30), <2>1, <2>2, <2>3, <2>4, SoftStep DEF IInv, TypeOK
<1>. QED BY Zenon, <1>1, <1>2, <1>3

LEMMA BadAccessStep ==
  ASSUME IInv, NEW p \in Page, BadAccess(p)
  PROVE  IInv'
BY Zenon, EndStep DEF BadAccess, PC, Alive, InKernel

LEMMA NoPteStep ==
  ASSUME IInv, NoPte
  PROVE  IInv'
BY Zenon, EndStep DEF NoPte, PC, Alive, InKernel

(* A kernel step that only moves the process between "user" and "alloc".   *)
LEMMA SbrkStep ==
  ASSUME IInv, NEW n \in 1 .. MAX_TOTAL_PAGES, Sbrk(n)
  PROVE  IInv'
<1>. pc = "user" /\ pc' = "alloc" /\ newsz' = sz + n /\ cur' = sz /\ sz + n <= MAX_TOTAL_PAGES
  BY Zenon DEF Sbrk, Running
<1>. UNCHANGED <<sz, req, np, page, flags, frame, ram_monitor, swap_monitor, last_in_queue,
                 file, fsize, buff, free, mem, pages_in_file, page_fault_counter, val>>
  BY Zenon DEF Sbrk, table, monitors, disk, memory, counters
<1>. TypeOK /\ Control /\ Shape /\ Distinct /\ Agree /\ Owned /\ Contents
  BY Zenon DEF IInv, Alive
<1>0. Base' = Base /\ Limit' = Limit
  BY Zenon DEF Base, Limit
<1>1. TypeOK'
  BY SMTT(30) DEF TypeOK, PC
<1>2. Control'
  BY DEF Control, TypeOK
<1>3. Shape' /\ Distinct'
  BY Zenon, <1>0 DEF Shape, Distinct, InSlot
<1>4. Agree'
  BY ZenonT(40), <1>0 DEF Agree, HasEntry, HasSlot, IsExtra
<1>5. Owned' /\ Contents'
  BY Zenon DEF Owned, Contents
<1>. QED BY Zenon, <1>1, <1>2, <1>3, <1>4, <1>5 DEF IInv

LEMMA AllocDoneStep ==
  ASSUME IInv, AllocDone
  PROVE  IInv'
<1>. pc = "alloc" /\ pc' = "user" /\ sz' = newsz /\ cur = newsz
  BY Zenon DEF AllocDone, Return
<1>. newsz' = 0 /\ cur' = 0 /\ req' = 0 /\ np' = NoFrame /\ page' = 0
  BY Zenon DEF AllocDone, Return
<1>. UNCHANGED <<flags, frame, ram_monitor, swap_monitor, last_in_queue,
                 file, fsize, buff, free, mem, pages_in_file, page_fault_counter, val>>
  BY Zenon DEF AllocDone, table, monitors, disk, memory, counters
<1>. TypeOK /\ Control /\ Shape /\ Distinct /\ Agree /\ Owned /\ Contents
  BY Zenon DEF IInv, Alive, InKernel
<1>0. Base' = Base /\ Limit' = Limit
  BY Zenon DEF Base, Limit
<1>1. TypeOK'
  BY SMTT(30) DEF TypeOK, PC
<1>2. Control'
  BY DEF Control, TypeOK
<1>3. Shape' /\ Distinct'
  BY Zenon, <1>0 DEF Shape, Distinct, InSlot
<1>4. Agree'
  BY ZenonT(40), <1>0 DEF Agree, HasEntry, HasSlot, IsExtra
<1>5. Owned' /\ Contents'
  BY Zenon DEF Owned, Contents
<1>. QED BY Zenon, <1>1, <1>2, <1>3, <1>4, <1>5 DEF IInv

(* mappages never finds the page mapped: it lies beyond those there are.   *)
LEMMA RemapStep ==
  ASSUME IInv, Remap
  PROVE  IInv'
BY Zenon, EndStep DEF Remap, PC, Alive, InKernel

LEMMA SelectNoneStep ==
  ASSUME IInv, SelectNone
  PROVE  IInv'
BY Zenon, EndStep DEF SelectNone, PC, Alive, InKernel

(* swap and page_from_disk find every entry used.                          *)
LEMMA FullRam ==
  ASSUME IInv, pc \in {"swap", "fault"}
  PROVE  /\ \A i \in RamIdx : ram_monitor[i].used
         /\ Candidate \in RamIdx /\ ram_monitor[Candidate].used
         /\ CandidatePage \in Page
         /\ "P" \in flags[CandidatePage] /\ "PG" \notin flags[CandidatePage]
         /\ ~ IsExtra(CandidatePage)
<1>. TypeOK /\ Control /\ Shape /\ Agree
  BY Zenon DEF IInv, Alive, InKernel
<1>1. \A i \in RamIdx : ram_monitor[i].used
  BY DEF Control, Shape, Base, TypeOK
<1>2. 0 \in UsedRam
  BY <1>1 DEF UsedRam
<1>3. Candidate \in RamIdx /\ ram_monitor[Candidate].used
  BY Zenon, <1>2, CandidateUsed DEF Shape
<1>4. CandidatePage \in Page /\ HasEntry(CandidatePage)
  BY Zenon, <1>3 DEF CandidatePage, HasEntry, TypeOK
<1>. QED BY Zenon, <1>1, <1>3, <1>4 DEF Agree

LEMMA SecondChanceStep ==
  ASSUME IInv, SecondChance
  PROVE  IInv'
<1>. pc \in {"swap", "fault"}
  BY Zenon DEF SecondChance
<1>. TypeOK /\ Control /\ Shape /\ Distinct /\ Agree /\ Owned /\ Contents
  BY Zenon DEF IInv, Alive, InKernel
<1>. UNCHANGED <<pc, sz, newsz, cur, req, np, page, frame, swap_monitor,
                 file, fsize, buff, free, mem, pages_in_file, page_fault_counter, val>>
  BY Zenon DEF SecondChance, locals, disk, memory, counters
<1>. /\ flags' = [flags EXCEPT ![CandidatePage] = @ \ {"A"}]
     /\ last_in_queue' = last_in_queue + 1
     /\ ram_monitor' = [ram_monitor EXCEPT ![Candidate] = Entry(TRUE, CandidatePage, last_in_queue + 1)]
  BY Zenon DEF SecondChance
<1>. /\ Candidate \in RamIdx /\ CandidatePage \in Page
     /\ ram_monitor[Candidate].used /\ CandidatePage = ram_monitor[Candidate].p_va
  BY Zenon, FullRam DEF CandidatePage
<1>0. Base' = Base /\ Limit' = Limit
  BY Zenon DEF Base, Limit
<1>a. /\ \A p \in Page : "P" \in flags'[p] <=> "P" \in flags[p]
      /\ \A p \in Page : "PG" \in flags'[p] <=> "PG" \in flags[p]
  BY Zenon DEF TypeOK
<1>b. \A i \in RamIdx : /\ (ram_monitor'[i].used <=> ram_monitor[i].used)
                        /\ ram_monitor'[i].p_va = ram_monitor[i].p_va
                        /\ ram_monitor'[i].place_in_queue <= last_in_queue'
  <2>1. \A i \in RamIdx : /\ (ram_monitor'[i].used <=> ram_monitor[i].used)
                          /\ ram_monitor'[i].p_va = ram_monitor[i].p_va
    BY Zenon DEF TypeOK, Entry
  <2>2. ram_monitor'[Candidate].place_in_queue = last_in_queue'
    BY Zenon DEF TypeOK, Entry
  <2>3. \A i \in RamIdx : i # Candidate => ram_monitor'[i] = ram_monitor[i]
    BY ZenonT(40) DEF TypeOK
  <2>4. /\ last_in_queue' \in Nat /\ last_in_queue' <= last_in_queue'
        /\ \A i \in RamIdx : ram_monitor[i].place_in_queue <= last_in_queue'
    BY SMTT(30) DEF TypeOK, Shape
  <2>. QED BY Zenon, <2>1, <2>2, <2>3, <2>4
<1>1. TypeOK'
  BY SMTT(30) DEF TypeOK, Entry
<1>2. Control'
  BY Zenon, <1>a DEF Control, TypeOK
<1>3. Shape' /\ Distinct'
  <2>1. Shape'
    BY ZenonT(30), <1>0, <1>b DEF Shape, InSlot
  <2>2. \A i \in SwapIdx : InSlot(i)' <=> InSlot(i)
    BY Zenon, <1>0 DEF InSlot
  <2>3. \A i, j \in RamIdx : ram_monitor'[i].used /\ ram_monitor'[j].used /\ i # j
                                => ram_monitor'[i].p_va # ram_monitor'[j].p_va
    <3>. SUFFICES ASSUME NEW i \in RamIdx, NEW j \in RamIdx, i # j,
                         ram_monitor'[i].used, ram_monitor'[j].used
                  PROVE  ram_monitor'[i].p_va # ram_monitor'[j].p_va
      BY Zenon
    <3>1. ram_monitor[i].used /\ ram_monitor[j].used
      BY Zenon, <1>b
    <3>2. ram_monitor'[i].p_va = ram_monitor[i].p_va /\ ram_monitor'[j].p_va = ram_monitor[j].p_va
      BY Zenon, <1>b
    <3>3. ram_monitor[i].p_va # ram_monitor[j].p_va
      BY Zenon, <3>1 DEF Distinct
    <3>. QED BY Zenon, <3>2, <3>3
  <2>4. Distinct'
    BY Zenon, <2>2, <2>3 DEF Distinct
  <2>. QED BY Zenon, <2>1, <2>4
<1>4. Agree'
  <2>1. \A p \in Page : HasEntry(p)' <=> HasEntry(p)
    BY ZenonT(30), <1>b DEF HasEntry
  <2>. QED BY Zenon, <1>0, <1>a, <2>1 DEF Agree, HasSlot, IsExtra
<1>5. Owned' /\ Contents'
  BY ZenonT(40), <1>a DEF Owned, Contents
<1>. QED BY Zenon, <1>1, <1>2, <1>3, <1>4, <1>5 DEF IInv

(* write2file, when the lowest free slot is k and the file reaches it.     *)
LEMMA WriteAt ==
  ASSUME NEW p, NEW d, NEW k \in FreeSwap, \A j \in FreeSwap : k <= j, k <= fsize, write2file(p, d)
  PROVE  /\ file' = [file EXCEPT ![k] = d]
         /\ fsize' = IF k = fsize THEN fsize + 1 ELSE fsize
         /\ swap_monitor' = [swap_monitor EXCEPT ![k] = Slot(TRUE, p)]
<1>1. FreeSwap \in SUBSET Nat
  BY DEF FreeSwap
<1>2. Lowest(FreeSwap) = k
  BY Zenon, <1>1, LowestIs
<1>. QED BY ZenonT(30), <1>2 DEF write2file, CanWrite
-----------------------------------------------------------------------------
(* allocuvm maps a page that has neither an entry nor a slot, in a frame   *)
(* that no page has; below MAX_PYSC_PAGES it takes the next entry.         *)
LEMMA MapPageStep ==
  ASSUME IInv, pc = "alloc", cur < newsz, ~ Present(cur), MapPage
  PROVE  IInv'
<1>. TypeOK /\ Control /\ Shape /\ Distinct /\ Agree /\ Owned /\ Contents
  BY Zenon DEF IInv, Alive, InKernel
<1>. UNCHANGED <<sz, newsz, np, page, swap_monitor, file, fsize, buff, page_fault_counter>>
  BY Zenon DEF MapPage, disk
<1>1. PICK f \in free :
        /\ free' = free \ {f}
        /\ mem' = [mem EXCEPT ![f] = Zero]
        /\ flags' = [flags EXCEPT ![cur] = {"P", "W", "U"}]
        /\ frame' = [frame EXCEPT ![cur] = f]
  BY ZenonT(30) DEF MapPage
<1>2. val' = [val EXCEPT ![cur] = Zero]
  BY Zenon DEF MapPage
<1>3. cur \in Page /\ f \in Frames
  BY DEF TypeOK
<1>4. "P" \notin flags[cur] /\ "PG" \notin flags[cur]
  BY <1>3 DEF Agree, Limit
<1>5. /\ \A p \in Page : "P" \in flags'[p] <=> "P" \in flags[p] \/ p = cur
      /\ \A p \in Page : "PG" \in flags'[p] <=> "PG" \in flags[p]
  BY ZenonT(40), <1>1, <1>3, <1>4 DEF TypeOK
<1>6. Base = cur /\ Limit = cur /\ cur \in Nat /\ cur < MAX_TOTAL_PAGES /\ ImagePages <= cur
  BY DEF Base, Limit, TypeOK, Control
<1>7. /\ flags' \in [Page -> SUBSET Flag] /\ frame' \in [Page -> Frames \cup {NoFrame}]
      /\ free' \in SUBSET Frames /\ mem' \in [Frames -> Data] /\ val' \in [Page -> Data]
  BY Zenon, <1>1, <1>2, <1>3 DEF TypeOK, Flag
<1>8. Owned' /\ Contents'
  <2>1. pc' \in {"alloc", "swap"}
    BY Zenon DEF MapPage
  <2>2. \A p \in Page : "P" \in flags[p] => p # cur /\ frame[p] # f
    BY SMTT(30), <1>4 DEF Owned
  <2>3. Owned'
    BY SMTT(30), <1>1, <1>3, <1>5, <2>1, <2>2 DEF Owned, TypeOK
  <2>4. \A i \in SwapIdx : swap_monitor[i].used => swap_monitor[i].p_va \in Page \ {cur}
    BY ZenonT(40), <1>4 DEF Agree, HasSlot, TypeOK
  <2>5. Contents'
    BY SMTT(30), <1>1, <1>2, <1>3, <1>5, <2>1, <2>2, <2>4 DEF Contents, Owned, TypeOK
  <2>. QED BY Zenon, <2>3, <2>5
<1>9. CASE cur + 1 <= MAX_PYSC_PAGES
  <2>. DEFINE unused == {i \in RamIdx : ~ ram_monitor[i].used}
  <2>1. /\ pc' = "alloc" /\ cur' = cur + 1 /\ add2ram(ram_monitor, cur)
        /\ UNCHANGED <<req, pages_in_file>>
    BY ZenonT(40), <1>9 DEF MapPage
  <2>2. cur \in unused /\ \A i \in unused : cur <= i
    BY SMTT(30), <1>6, <1>9 DEF Shape, TypeOK
  <2>3. unused \in SUBSET Nat /\ unused # {}
    BY <2>2
  <2>4. Lowest(unused) = cur
    <3>. HIDE DEF unused
    <3>. QED BY Zenon, <2>2, <2>3, LowestIs
  <2>5. /\ ram_monitor' = [ram_monitor EXCEPT ![cur] = Entry(TRUE, cur, last_in_queue + 1)]
        /\ last_in_queue' = last_in_queue + 1
    BY ZenonT(30), <2>1, <2>3, <2>4 DEF add2ram
  <2>6. cur \in RamIdx /\ ~ ram_monitor[cur].used
    BY Zenon, <2>2
  <2>7. Base' = cur + 1 /\ Limit' = cur + 1
    BY ZenonT(40), <2>1 DEF Base, Limit
  <2>8. TypeOK'
    BY SMTT(30), <1>3, <1>6, <1>7, <2>1, <2>5, <2>6 DEF TypeOK, PC, Entry
  <2>9. Control'
    BY SMTT(30), <1>6, <2>1 DEF Control, TypeOK
  <2>10. \A i \in RamIdx \ {cur} : ram_monitor'[i] = ram_monitor[i]
    BY Zenon, <2>5 DEF TypeOK
  <2>11. /\ ram_monitor'[cur].used /\ ram_monitor'[cur].p_va = cur
         /\ ram_monitor'[cur].place_in_queue = last_in_queue'
    BY ZenonT(40), <2>5, <2>6 DEF TypeOK, Entry
  <2>12. Shape'
    <3>1. \A i \in RamIdx : ram_monitor[i].place_in_queue \in Nat /\ last_in_queue \in Nat
      BY Zenon DEF TypeOK
    <3>2. \A i \in RamIdx : ram_monitor[i].place_in_queue <= last_in_queue + 1
      BY SMTT(30), <3>1 DEF Shape
    <3>3. \A i \in RamIdx : /\ (ram_monitor'[i].used <=> i < cur + 1)
                            /\ ram_monitor'[i].place_in_queue <= last_in_queue'
      <4>1. \A i \in RamIdx \ {cur} : /\ (ram_monitor'[i].used <=> i < cur + 1)
                                      /\ ram_monitor'[i].place_in_queue <= last_in_queue'
        BY SMTT(30), <1>6, <2>5, <2>10, <3>2 DEF Shape
      <4>2. last_in_queue' \in Nat
        BY Zenon, <2>8 DEF TypeOK
      <4>. QED BY SMTT(30), <1>6, <2>11, <4>1, <4>2
    <3>. QED BY SMTT(30), <1>6, <1>9, <2>1, <2>7, <3>3 DEF Shape, InSlot
  <2>13. \A p \in Page : HasEntry(p)' <=> HasEntry(p) \/ p = cur
    BY Zenon, <2>6, <2>10, <2>11 DEF HasEntry
  <2>14. ~ HasEntry(cur)
    BY ZenonT(40), <1>3, <1>4 DEF Agree
  <2>15. Distinct'
    BY SMTT(30), <1>6, <1>9, <2>7, <2>6, <2>10, <2>11, <2>14 DEF Distinct, HasEntry, InSlot
  <2>16. Agree'
    BY SMTT(30), <1>5, <1>6, <2>1, <2>7, <2>13 DEF Agree, HasSlot, IsExtra
  <2>. QED BY ZenonT(40), <1>8, <2>8, <2>9, <2>12, <2>15, <2>16 DEF IInv
<1>10. CASE ~ (cur + 1 <= MAX_PYSC_PAGES)
  <2>1. /\ pc' = "swap" /\ req' = cur /\ pages_in_file' = pages_in_file + 1
        /\ UNCHANGED <<cur, ram_monitor, last_in_queue>>
    BY Zenon, <1>10 DEF MapPage
  <2>2. Base' = cur /\ Limit' = cur + 1
    BY Zenon, <2>1 DEF Base, Limit
  <2>3. TypeOK'
    BY SMTT(30), <1>3, <1>7, <2>1 DEF TypeOK, PC
  <2>4. Control'
    BY SMTT(30), <1>6, <1>10, <2>1 DEF Control, TypeOK
  <2>5. Shape' /\ Distinct'
    BY Zenon, <1>6, <2>1, <2>2 DEF Shape, Distinct, InSlot
  <2>6. ~ HasEntry(cur)
    BY ZenonT(40), <1>3, <1>4 DEF Agree
  <2>7. Agree'
    BY SMTT(30), <1>3, <1>5, <1>6, <2>1, <2>2, <2>6 DEF Agree, HasEntry, HasSlot, IsExtra
  <2>. QED BY Zenon, <1>8, <2>3, <2>4, <2>5, <2>7 DEF IInv
<1>. QED BY Zenon, <1>9, <1>10

(* A page is evicted to the slot after the last one, and the new page      *)
(* takes over its entry.                                                   *)
LEMMA EvictStep ==
  ASSUME IInv, pc = "swap", Evict
  PROVE  IInv'
<1>. DEFINE c == Candidate
            v == CandidatePage
            k == cur - MAX_PYSC_PAGES
<1>. TypeOK /\ Control /\ Shape /\ Distinct /\ Agree /\ Owned /\ Contents
  BY Zenon DEF IInv, Alive, InKernel
<1>1. /\ \A i \in RamIdx : ram_monitor[i].used
      /\ c \in RamIdx /\ v \in Page /\ v = ram_monitor[c].p_va
      /\ "P" \in flags[v] /\ "PG" \notin flags[v] /\ ~ IsExtra(v)
  BY Zenon, FullRam DEF CandidatePage
<1>2. /\ write2file(v, mem[frame[v]])
      /\ add2ram([ram_monitor EXCEPT ![c] = Entry(FALSE, v, ram_monitor[c].place_in_queue)], req)
      /\ pc' = "alloc" /\ cur' = cur + 1
      /\ UNCHANGED <<sz, newsz, req, np, page, buff, mem, pages_in_file, page_fault_counter, val>>
  BY Zenon, <1>1 DEF Evict, EvictAbsent, Present, counters
<1>3. /\ Base = cur /\ Limit = cur + 1 /\ Base' = cur + 1 /\ Limit' = cur + 1
      /\ cur \in Nat /\ cur < MAX_TOTAL_PAGES /\ MAX_PYSC_PAGES <= cur /\ req = cur
      /\ ImagePages <= sz /\ sz <= cur /\ cur < newsz /\ sz \in Nat /\ newsz \in Nat
  BY <1>2 DEF Base, Limit, TypeOK, Control
<1>4. /\ k \in SwapIdx /\ fsize = k
      /\ \A i \in SwapIdx : swap_monitor[i].used <=> i < k
  BY <1>3 DEF Shape, InSlot
<1>5. /\ file' = [file EXCEPT ![k] = mem[frame[v]]]
      /\ fsize' = k + 1
      /\ swap_monitor' = [swap_monitor EXCEPT ![k] = Slot(TRUE, v)]
  <2>1. k \in FreeSwap /\ \A j \in FreeSwap : k <= j
    BY <1>4 DEF FreeSwap, UsedSwap
  <2>. QED BY ZenonT(60), <1>2, <1>4, <2>1, WriteAt
<1>6. /\ \E bits \in SUBSET Flag :
           flags' = [flags EXCEPT ![v] = bits] /\ "PG" \in bits /\ "P" \notin bits
      /\ frame' = [frame EXCEPT ![v] = NoFrame]
      /\ free' = free \cup {frame[v]}
  <2>1. PICK touched \in SUBSET {"A"} : page_out(v, touched)
    BY Zenon, <1>1 DEF Evict, EvictAbsent, Present
  <2>. DEFINE new == (flags[v] \cup {"PG"} \cup touched) \ {"P"}
  <2>2. new \in SUBSET Flag /\ "PG" \in new /\ "P" \notin new
    BY ZenonT(30), <1>1 DEF TypeOK, Flag
  <2>. QED BY ZenonT(30), <2>1, <2>2 DEF page_out
<1>7. /\ ram_monitor' = [ram_monitor EXCEPT ![c] = Entry(TRUE, req, last_in_queue + 1)]
      /\ last_in_queue' = last_in_queue + 1
  <2>. DEFINE ram == [ram_monitor EXCEPT ![c] = Entry(FALSE, v, ram_monitor[c].place_in_queue)]
              unused == {i \in RamIdx : ~ ram[i].used}
  <2>1. unused = {c}
    BY Zenon, <1>1 DEF TypeOK, Entry
  <2>2. Lowest({c}) = c
    BY <1>1, LowestIs
  <2>3. [ram EXCEPT ![c] = Entry(TRUE, req, last_in_queue + 1)]
          = [ram_monitor EXCEPT ![c] = Entry(TRUE, req, last_in_queue + 1)]
    BY ZenonT(30), <1>1 DEF TypeOK
  <2>. QED BY ZenonT(30), <1>2, <2>1, <2>2, <2>3 DEF add2ram
<1>8. TypeOK'
  <2>1. /\ pc' \in PC /\ sz' \in 0 .. MAX_TOTAL_PAGES /\ newsz' \in 0 .. MAX_TOTAL_PAGES
        /\ cur' \in 0 .. MAX_TOTAL_PAGES /\ req' \in Page /\ page' \in Page
        /\ fsize' \in 0 .. MAX_TOTAL_PAGES - MAX_PYSC_PAGES
    BY SMTT(30), <1>2, <1>3, <1>4, <1>5 DEF TypeOK, PC
  <2>2. /\ flags' \in [Page -> SUBSET Flag] /\ frame' \in [Page -> Frames \cup {NoFrame}]
        /\ free' \in SUBSET Frames /\ frame[v] \in Frames
    BY SMTT(30), <1>1, <1>6 DEF TypeOK, Flag, Owned
  <2>3. /\ ram_monitor' \in [RamIdx -> [used : BOOLEAN, p_va : Page, place_in_queue : Nat]]
        /\ last_in_queue' \in Nat
    BY SMTT(30), <1>1, <1>7 DEF TypeOK, Entry
  <2>4. /\ swap_monitor' \in [SwapIdx -> [used : BOOLEAN, p_va : Page]]
        /\ file' \in [SwapIdx -> Data]
    BY Zenon, <1>1, <1>4, <1>5, <2>2 DEF TypeOK, Slot
  <2>. QED BY ZenonT(40), <1>2, <2>1, <2>2, <2>3, <2>4 DEF TypeOK
<1>9. Control'
  <2>1. pc' = "alloc" /\ cur' = cur + 1 /\ sz' = sz /\ newsz' = newsz
    BY Zenon, <1>2
  <2>2. ImagePages <= sz' /\ sz' <= cur' /\ cur' <= newsz'
    BY <1>3, <2>1
  <2>. QED BY Zenon, <2>1, <2>2 DEF Control
<1>10. /\ \A p \in Page : "P" \in flags'[p] <=> "P" \in flags[p] /\ p # v
       /\ \A p \in Page : "PG" \in flags'[p] <=> "PG" \in flags[p] \/ p = v
  BY ZenonT(40), <1>1, <1>6 DEF TypeOK
<1>11. /\ \A i \in RamIdx \ {c} : ram_monitor'[i] = ram_monitor[i]
       /\ ram_monitor'[c].used /\ ram_monitor'[c].p_va = req
       /\ ram_monitor'[c].place_in_queue = last_in_queue'
  BY Zenon, <1>1, <1>7 DEF TypeOK, Entry
<1>12. /\ \A i \in SwapIdx \ {k} : swap_monitor'[i] = swap_monitor[i] /\ file'[i] = file[i]
       /\ swap_monitor'[k].used /\ swap_monitor'[k].p_va = v /\ file'[k] = mem[frame[v]]
  BY Zenon, <1>4, <1>5 DEF TypeOK, Slot
<1>13. Shape'
  <2>1. \A i \in RamIdx : ram_monitor[i].place_in_queue <= last_in_queue + 1
    BY SMTT(30) DEF Shape, TypeOK
  <2>2. last_in_queue' \in Nat
    BY Zenon, <1>8 DEF TypeOK
  <2>3. \A i \in RamIdx : ram_monitor'[i].used /\ ram_monitor'[i].place_in_queue <= last_in_queue'
    <3>1. \A i \in RamIdx \ {c} : ram_monitor'[i].used /\ ram_monitor'[i].place_in_queue <= last_in_queue'
      BY ZenonT(40), <1>1, <1>7, <1>11, <2>1
    <3>. QED BY SMTT(30), <1>11, <2>2, <3>1
  <2>4. \A i \in SwapIdx : swap_monitor'[i].used <=> i < k + 1
    BY SMTT(30), <1>4, <1>12
  <2>5. fsize' = IF Base' <= MAX_PYSC_PAGES THEN 0 ELSE Base' - MAX_PYSC_PAGES
    BY <1>3, <1>5
  <2>6. \A i \in RamIdx : i < Base'
    BY <1>3
  <2>7. \A i \in SwapIdx : InSlot(i)' <=> i < k + 1
    BY <1>3 DEF InSlot
  <2>. QED BY ZenonT(40), <1>2, <2>3, <2>4, <2>5, <2>6, <2>7 DEF Shape
<1>14. /\ \A p \in Page : HasEntry(p)' <=> (HasEntry(p) /\ p # v) \/ p = req
       /\ \A p \in Page : HasSlot(p)' <=> HasSlot(p) \/ p = v
  <2>1. \A i \in RamIdx \ {c} : ram_monitor[i].p_va # v
    BY Zenon, <1>1 DEF Distinct
  <2>2. \A p \in Page : HasEntry(p)' <=> (HasEntry(p) /\ p # v) \/ p = req
    BY Zenon, <1>1, <1>11, <2>1 DEF HasEntry
  <2>3. \A p \in Page : HasSlot(p)' <=> HasSlot(p) \/ p = v
    BY <1>4, <1>12 DEF HasSlot
  <2>. QED BY Zenon, <2>2, <2>3
<1>15. Distinct'
  <2>1. \A i \in RamIdx : ram_monitor[i].p_va # req
    BY <1>1, <1>3 DEF Agree, HasEntry, IsExtra
  <2>2. \A i \in SwapIdx : i < k => swap_monitor[i].p_va # v
    BY Zenon, <1>1, <1>4 DEF Agree, HasSlot
  <2>3. \A i \in SwapIdx : InSlot(i) <=> i < k
    BY Zenon, <1>3 DEF InSlot
  <2>4. \A i \in SwapIdx : InSlot(i)' <=> i < k \/ i = k
    BY SMTT(30), <1>3 DEF InSlot
  <2>5. \A i, j \in RamIdx : i # j => ram_monitor'[i].p_va # ram_monitor'[j].p_va
    BY SMTT(30), <1>1, <1>11, <2>1 DEF Distinct
  <2>6. \A i, j \in SwapIdx : InSlot(i)' /\ InSlot(j)' /\ i # j
                                => swap_monitor'[i].p_va # swap_monitor'[j].p_va
    BY SMTT(30), <1>12, <2>2, <2>3, <2>4 DEF Distinct
  <2>. QED BY Zenon, <2>5, <2>6 DEF Distinct
<1>16. Agree'
  BY Zenon, <1>1, <1>2, <1>3, <1>10, <1>14 DEF Agree, IsExtra
<1>17. Owned'
  <2>1. \A p \in Page : "P" \in flags'[p] => "P" \in flags[p] /\ p # v /\ frame'[p] = frame[p]
    BY Zenon, <1>6, <1>10 DEF TypeOK
  <2>2. \A f \in Frames : f \notin free' <=> f \notin free /\ f # frame[v]
    BY Zenon, <1>6
  <2>3. pc' = "alloc" /\ pc # "fault"
    BY Zenon, <1>2
  <2>4. \A p \in Page : "P" \in flags'[p] => frame'[p] \in Frames /\ frame'[p] \notin free'
    BY ZenonT(40), <1>1, <2>1, <2>2 DEF Owned
  <2>5. \A f \in Frames : f \notin free' => \E p \in Page : "P" \in flags'[p] /\ frame'[p] = f
    <3>1. ASSUME NEW f \in Frames, f \notin free'
          PROVE  \E p \in Page : "P" \in flags'[p] /\ frame'[p] = f
      <4>1. PICK p \in Page : "P" \in flags[p] /\ frame[p] = f
        BY Zenon, <2>2, <2>3, <3>1 DEF Owned
      <4>2. p # v
        BY Zenon, <2>2, <3>1, <4>1
      <4>3. "P" \in flags'[p] /\ frame'[p] = f
        BY Zenon, <1>6, <1>10, <4>1, <4>2 DEF TypeOK
      <4>. QED BY Zenon, <4>3
    <3>. QED BY Zenon, <3>1
  <2>. QED BY Zenon, <2>1, <2>3, <2>4, <2>5 DEF Owned
<1>18. Contents'
  <2>1. mem[frame[v]] = val[v]
    BY Zenon, <1>1 DEF Contents
  <2>2. \A p \in Page : p # v => frame'[p] = frame[p]
    BY Zenon, <1>6 DEF TypeOK
  <2>3. pc' = "alloc" /\ pc # "copy" /\ val' = val /\ mem' = mem
    BY Zenon, <1>2
  <2>4. \A i \in SwapIdx : swap_monitor'[i].used => file'[i] = val[swap_monitor'[i].p_va]
    BY <1>12, <2>1 DEF Contents
  <2>5. \A p \in Page : "P" \in flags'[p] => mem[frame'[p]] = val[p]
    BY Zenon, <1>10, <2>2, <2>3 DEF Contents
  <2>. QED BY Zenon, <2>3, <2>4, <2>5 DEF Contents
<1>. QED BY ZenonT(40), <1>8, <1>9, <1>13, <1>15, <1>16, <1>17, <1>18 DEF IInv
-----------------------------------------------------------------------------
(* What does not depend on the monitors: the types, how far allocuvm has   *)
(* come, the places in the queue, and that no frame is free and mapped, or *)
(* mapped twice.                                                           *)
Walk == (pc = "alloc" => cur <= newsz) /\ (pc = "swap" => cur < newsz)

Places == \A i \in RamIdx : ram_monitor[i].place_in_queue <= last_in_queue

Sound ==
  /\ \A p \in Page : "P" \in flags[p] => frame[p] \in Frames /\ frame[p] \notin free
  /\ \A p, q \in Page : "P" \in flags[p] /\ "P" \in flags[q] /\ frame[p] = frame[q] => p = q
  /\ pc = "fault" => /\ np \in Frames /\ np \notin free
                     /\ \A p \in Page : "P" \in flags[p] => frame[p] # np

HInv == TypeOK /\ Walk /\ Places /\ (Alive => Sound)

(* Pages may be unmapped, and their frames freed.                          *)
LEMMA FramesLost ==
  ASSUME Alive => Sound, pc' = pc \/ Alive,
         \A p \in Page : "P" \in flags'[p] => "P" \in flags[p] /\ frame'[p] = frame[p],
         \A f \in free' : f \in free \/ \E p \in Page : "P" \in flags[p] /\ "P" \notin flags'[p] /\ frame[p] = f,
         pc' = "fault" => pc = "fault" /\ np' = np /\ free' \subseteq free
  PROVE  Alive' => Sound'
<1>. SUFFICES ASSUME Alive' PROVE Sound'
  OBVIOUS
<1>. Sound
  BY Zenon DEF Alive, InKernel
<1>1. ASSUME NEW p \in Page, "P" \in flags'[p] PROVE frame'[p] \in Frames /\ frame'[p] \notin free'
  BY Zenon, <1>1 DEF Sound
<1>2. ASSUME NEW p \in Page, NEW q \in Page, "P" \in flags'[p], "P" \in flags'[q], frame'[p] = frame'[q]
      PROVE  p = q
  BY Zenon, <1>2 DEF Sound
<1>3. ASSUME pc' = "fault"
      PROVE  /\ np' \in Frames /\ np' \notin free'
             /\ \A p \in Page : "P" \in flags'[p] => frame'[p] # np'
  BY Zenon, <1>3 DEF Sound
<1>. QED BY Zenon, <1>1, <1>2, <1>3 DEF Sound

(* A page may be mapped to a frame that is no longer free and that no      *)
(* other page has.                                                         *)
LEMMA FrameGained ==
  ASSUME Sound, NEW q \in Page, NEW f \in Frames, f \notin free', frame'[q] = f,
         \A p \in Page : "P" \in flags[p] => frame[p] # f,
         \A p \in Page : p # q /\ "P" \in flags'[p] => "P" \in flags[p] /\ frame'[p] = frame[p],
         free' \subseteq free, pc' # "fault"
  PROVE  Sound'
<1>1. ASSUME NEW p \in Page, "P" \in flags'[p] PROVE frame'[p] \in Frames /\ frame'[p] \notin free'
  BY Zenon, <1>1 DEF Sound
<1>2. ASSUME NEW p \in Page, NEW r \in Page, "P" \in flags'[p], "P" \in flags'[r], frame'[p] = frame'[r]
      PROVE  p = r
  <2>1. CASE p = q
    BY Zenon, <1>2, <2>1
  <2>2. CASE r = q
    BY Zenon, <1>2, <2>2
  <2>3. CASE p # q /\ r # q
    BY Zenon, <1>2, <2>3 DEF Sound
  <2>. QED BY Zenon, <2>1, <2>2, <2>3
<1>. QED BY Zenon, <1>1, <1>2 DEF Sound

(* A step that stops the process or the machine.                           *)
LEMMA Stopped ==
  ASSUME HInv, pc' \in PC, pc' \notin {"user", "alloc", "swap", "fault", "copy"},
         UNCHANGED <<sz, locals, table, monitors, disk, buff, memory, counters, val>>
  PROVE  HInv'
<1>1. UNCHANGED <<sz, newsz, cur, req, np, page, flags, frame, ram_monitor, swap_monitor,
                  last_in_queue, file, fsize, buff, free, mem, pages_in_file, page_fault_counter, val>>
  BY Zenon DEF locals, table, monitors, disk, memory, counters
<1>2. TypeOK'
  BY Zenon, <1>1 DEF HInv, TypeOK
<1>3. ~ Alive' /\ Walk'
  BY Zenon DEF Alive, InKernel, Walk
<1>4. Places'
  BY Zenon, <1>1 DEF HInv, Places
<1>. QED BY Zenon, <1>2, <1>3, <1>4 DEF HInv

(* A step that changes bits of a pte other than PTE_P, or contents.        *)
LEMMA NoneMapped ==
  ASSUME HInv, UNCHANGED <<pc, sz, locals, frame, monitors, disk, free, counters>>,
         flags' \in [Page -> SUBSET Flag],
         \A p \in Page : "P" \in flags'[p] <=> "P" \in flags[p],
         buff' \in Data, mem' \in [Frames -> Data], val' \in [Page -> Data]
  PROVE  HInv'
<1>1. UNCHANGED <<pc, sz, newsz, cur, req, np, page, frame, ram_monitor, swap_monitor,
                  last_in_queue, file, fsize, free, pages_in_file, page_fault_counter>>
  BY Zenon DEF locals, monitors, disk, counters
<1>2. TypeOK'
  BY Zenon, <1>1 DEF HInv, TypeOK
<1>3. Walk' /\ Places'
  BY Zenon, <1>1 DEF HInv, Walk, Places
<1>4. Alive' => Sound'
  <2>1. Alive => Sound
    BY Zenon DEF HInv
  <2>. QED BY Zenon, <1>1, <2>1, FramesLost
<1>. QED BY Zenon, <1>2, <1>3, <1>4 DEF HInv
-----------------------------------------------------------------------------
(* What the pieces of the handlers leave behind, whatever the monitors say.*)

(* An entry that is queued last has a place after all the others.          *)
LEMMA QueuedLast ==
  ASSUME NEW ram \in [RamIdx -> [used : BOOLEAN, p_va : Page, place_in_queue : Nat]],
         last_in_queue \in Nat, \A i \in RamIdx : ram[i].place_in_queue <= last_in_queue,
         NEW k, NEW u \in BOOLEAN, NEW p \in Page,
         ram_monitor' = [ram EXCEPT ![k] = Entry(u, p, last_in_queue + 1)],
         last_in_queue' = last_in_queue + 1
  PROVE  /\ ram_monitor' \in [RamIdx -> [used : BOOLEAN, p_va : Page, place_in_queue : Nat]]
         /\ last_in_queue' \in Nat /\ Places'
<1>1. last_in_queue' \in Nat
  OBVIOUS
<1>2. PICK e \in [used : BOOLEAN, p_va : Page, place_in_queue : Nat] :
        ram_monitor' = [ram EXCEPT ![k] = e] /\ e.place_in_queue = last_in_queue'
  <2>1. PICK n \in Nat : n = last_in_queue + 1
    OBVIOUS
  <2>2. /\ Entry(u, p, n) \in [used : BOOLEAN, p_va : Page, place_in_queue : Nat]
        /\ Entry(u, p, n).place_in_queue = n
    <3>. HIDE DEF Page
    <3>. QED BY SMTT(30) DEF Entry
  <2>3. ram_monitor' = [ram EXCEPT ![k] = Entry(u, p, n)] /\ last_in_queue' = n
    BY Zenon, <2>1
  <2>. QED BY Zenon, <2>2, <2>3
<1>3. ram_monitor' \in [RamIdx -> [used : BOOLEAN, p_va : Page, place_in_queue : Nat]]
  BY Zenon, <1>2
<1>4. ASSUME NEW i \in RamIdx PROVE ram_monitor'[i].place_in_queue <= last_in_queue'
  <2>1. ram_monitor'[i] = e \/ ram_monitor'[i] = ram[i]
    BY Zenon, <1>2
  <2>2. PICK m \in Nat : m = ram[i].place_in_queue /\ m <= last_in_queue
    BY Zenon
  <2>3. m <= last_in_queue' /\ last_in_queue' <= last_in_queue'
    BY <1>1, <2>2
  <2>. QED BY Zenon, <1>2, <2>1, <2>2, <2>3
<1>. QED BY Zenon, <1>1, <1>3, <1>4 DEF Places

LEMMA add2ramTypes ==
  ASSUME NEW ram \in [RamIdx -> [used : BOOLEAN, p_va : Page, place_in_queue : Nat]],
         last_in_queue \in Nat, \A i \in RamIdx : ram[i].place_in_queue <= last_in_queue,
         NEW p \in Page, add2ram(ram, p)
  PROVE  /\ ram_monitor' \in [RamIdx -> [used : BOOLEAN, p_va : Page, place_in_queue : Nat]]
         /\ last_in_queue' \in Nat /\ Places'
<1>1. CASE ram_monitor' = ram /\ last_in_queue' = last_in_queue
  BY Zenon, <1>1 DEF Places
<1>2. CASE /\ last_in_queue' = last_in_queue + 1
           /\ \E k : ram_monitor' = [ram EXCEPT ![k] = Entry(TRUE, p, last_in_queue + 1)]
  <2>1. PICK k : ram_monitor' = [ram EXCEPT ![k] = Entry(TRUE, p, last_in_queue + 1)]
    BY Zenon, <1>2
  <2>. QED BY Zenon, <1>2, <2>1, QueuedLast
<1>. QED BY Zenon, <1>1, <1>2 DEF add2ram

LEMMA write2fileTypes ==
  ASSUME TypeOK, NEW p \in Page, NEW d \in Data, write2file(p, d)
  PROVE  /\ file' \in [SwapIdx -> Data] /\ fsize' \in 0 .. MAX_TOTAL_PAGES - MAX_PYSC_PAGES
         /\ swap_monitor' \in [SwapIdx -> [used : BOOLEAN, p_va : Page]]
<1>1. CASE ~ CanWrite
  BY Zenon, <1>1 DEF write2file, disk, TypeOK
<1>2. CASE CanWrite
  <2>1. FreeSwap \in SUBSET Nat /\ FreeSwap \subseteq SwapIdx
    BY DEF FreeSwap
  <2>2. PICK k \in SwapIdx : k = Lowest(FreeSwap)
    BY Zenon, <1>2, <2>1, LowestIsLeast DEF CanWrite
  <2>3. /\ file' = [file EXCEPT ![k] = d]
        /\ fsize' = IF k = fsize THEN fsize + 1 ELSE fsize
        /\ swap_monitor' = [swap_monitor EXCEPT ![k] = Slot(TRUE, p)]
    BY Zenon, <1>2, <2>2 DEF write2file
  <2>4. Slot(TRUE, p) \in [used : BOOLEAN, p_va : Page]
    BY DEF Slot
  <2>5. file' \in [SwapIdx -> Data] /\ swap_monitor' \in [SwapIdx -> [used : BOOLEAN, p_va : Page]]
    BY Zenon, <2>3, <2>4 DEF TypeOK
  <2>6. fsize' \in 0 .. MAX_TOTAL_PAGES - MAX_PYSC_PAGES
    BY <2>2, <2>3 DEF TypeOK
  <2>. QED BY Zenon, <2>5, <2>6
<1>. QED BY Zenon, <1>1, <1>2

LEMMA MatchesTypes ==
  ASSUME NEW p, CanRead(p)
  PROVE  Lowest(Matches(p)) \in SwapIdx
<1>1. Matches(p) \in SUBSET Nat /\ Matches(p) \subseteq SwapIdx
  BY DEF Matches
<1>. QED BY Zenon, <1>1, LowestIsLeast DEF CanRead

LEMMA PageReadTypes ==
  ASSUME TypeOK, NEW p, NEW old \in Data
  PROVE  PageRead(p, old) \in Data
<1>1. file \in [SwapIdx -> Data]
  BY Zenon DEF TypeOK
<1>2. CanRead(p) => file[Lowest(Matches(p))] \in Data
  BY Zenon, <1>1, MatchesTypes
<1>. QED BY Zenon, <1>2 DEF PageRead

LEMMA read_pageTypes ==
  ASSUME TypeOK, Places, NEW p \in Page, NEW k \in RamIdx, read_page_from_disk(p, k)
  PROVE  /\ ram_monitor' \in [RamIdx -> [used : BOOLEAN, p_va : Page, place_in_queue : Nat]]
         /\ swap_monitor' \in [SwapIdx -> [used : BOOLEAN, p_va : Page]]
         /\ last_in_queue' \in Nat /\ Places'
<1>1. CASE ~ CanRead(p)
  BY Zenon, <1>1 DEF read_page_from_disk, monitors, TypeOK, Places
<1>2. CASE CanRead(p)
  <2>1. PICK h \in SwapIdx : h = Lowest(Matches(p))
    BY Zenon, <1>2, MatchesTypes
  <2>2. /\ last_in_queue' = last_in_queue + 1
        /\ ram_monitor' = [ram_monitor EXCEPT ![k] = Entry(swap_monitor[h].used, p, last_in_queue + 1)]
        /\ swap_monitor' = [swap_monitor EXCEPT ![h] = Slot(FALSE, p)]
    BY Zenon, <1>2, <2>1 DEF read_page_from_disk
  <2>3. swap_monitor[h].used \in BOOLEAN /\ last_in_queue \in Nat
    BY Zenon DEF TypeOK
  <2>4. Slot(FALSE, p) \in [used : BOOLEAN, p_va : Page]
    BY DEF Slot
  <2>5. swap_monitor' \in [SwapIdx -> [used : BOOLEAN, p_va : Page]]
    BY Zenon, <2>2, <2>4 DEF TypeOK
  <2>6. /\ ram_monitor' \in [RamIdx -> [used : BOOLEAN, p_va : Page, place_in_queue : Nat]]
        /\ last_in_queue' \in Nat /\ Places'
    <3>1. ram_monitor \in [RamIdx -> [used : BOOLEAN, p_va : Page, place_in_queue : Nat]]
      BY Zenon DEF TypeOK
    <3>. QED BY Zenon, <2>2, <2>3, <3>1, QueuedLast DEF Places
  <2>. QED BY Zenon, <2>5, <2>6
<1>. QED BY Zenon, <1>1, <1>2

(* The page that the policy chooses is a page.                             *)
LEMMA CandidateTypes ==
  ASSUME TypeOK, Places, UsedRam # {}
  PROVE  Candidate \in RamIdx /\ CandidatePage \in Page
<1>1. Candidate \in RamIdx
  BY Zenon, CandidateUsed DEF Places
<1>. QED BY Zenon, <1>1 DEF CandidatePage, TypeOK

(* page_out: the page is unmapped, and only its frame is freed.            *)
LEMMA page_outTypes ==
  ASSUME TypeOK, Sound, NEW p \in Page, "P" \in flags[p], NEW touched \in SUBSET {"A"}, page_out(p, touched)
  PROVE  /\ flags' \in [Page -> SUBSET Flag] /\ frame' \in [Page -> Frames \cup {NoFrame}]
         /\ free' \in SUBSET Frames
         /\ \A q \in Page : "P" \in flags'[q] => "P" \in flags[q] /\ frame'[q] = frame[q]
         /\ \A f \in free' : f \in free \/ \E q \in Page : "P" \in flags[q] /\ "P" \notin flags'[q] /\ frame[q] = f
<1>1. /\ flags' = [flags EXCEPT ![p] = (@ \cup {"PG"} \cup touched) \ {"P"}]
      /\ frame' = [frame EXCEPT ![p] = NoFrame] /\ free' = free \cup {frame[p]}
  BY Zenon DEF page_out
<1>2. "P" \notin flags'[p] /\ \A q \in Page : q # p => flags'[q] = flags[q] /\ frame'[q] = frame[q]
  BY Zenon, <1>1 DEF TypeOK
<1>3. flags' \in [Page -> SUBSET Flag] /\ frame' \in [Page -> Frames \cup {NoFrame}]
  <2>1. touched \subseteq Flag /\ "PG" \in Flag
    BY Zenon DEF Flag
  <2>2. (flags[p] \cup {"PG"} \cup touched) \ {"P"} \in SUBSET Flag
    BY Zenon, <2>1 DEF TypeOK
  <2>. QED BY Zenon, <1>1, <2>2 DEF TypeOK
<1>4. free' \in SUBSET Frames
  BY Zenon, <1>1 DEF Sound, TypeOK
<1>. QED BY Zenon, <1>1, <1>2, <1>3, <1>4
-----------------------------------------------------------------------------
(* User code and system calls that map nothing.                            *)
LEMMA SoundAfterUser ==
  ASSUME HInv, NEW p \in Page, NEW d \in Data, NEW write \in BOOLEAN, NEW on \in BOOLEAN,
         NEW flag \in {"PTE_1", "W"},
         Access(p) \/ BadAccess(p) \/ Store(p, d) \/ KernelAccess(p, write, d) \/ TurnFlag(p, flag, on)
  PROVE  HInv'
<1>. TypeOK
  BY Zenon DEF HInv
<1>1. /\ buff \in Data /\ mem \in [Frames -> Data] /\ val \in [Page -> Data]
      /\ flags \in [Page -> SUBSET Flag]
  BY Zenon DEF TypeOK
<1>2. ASSUME flags' = [flags EXCEPT ![p] = @ \cup {"A"}]
      PROVE  /\ flags' \in [Page -> SUBSET Flag]
             /\ \A q \in Page : "P" \in flags'[q] <=> "P" \in flags[q]
  <2>1. "P" \notin {"A"} /\ "A" \in Flag
    BY Zenon DEF Flag
  <2>. QED BY Zenon, <1>1, <1>2, <2>1
<1>3. [mem EXCEPT ![frame[p]] = d] \in [Frames -> Data] /\ [val EXCEPT ![p] = d] \in [Page -> Data]
  BY Zenon, <1>1
<1>4. CASE Access(p)
  BY Zenon, <1>1, <1>2, <1>4, NoneMapped DEF Access, memory
<1>5. CASE BadAccess(p)
  BY Zenon, <1>5, Stopped DEF BadAccess, PC
<1>6. CASE Store(p, d)
  BY Zenon, <1>1, <1>2, <1>3, <1>6, NoneMapped DEF Store
<1>7. CASE KernelAccess(p, write, d)
  <2>1. CASE pc' = "panic_trap" /\ UNCHANGED <<flags, mem, val>>
    BY Zenon, <1>7, <2>1, Stopped DEF KernelAccess, PC, table, memory
  <2>2. CASE /\ flags' = [flags EXCEPT ![p] = @ \cup {"A"}]
             /\ mem' = IF write THEN [mem EXCEPT ![frame[p]] = d] ELSE mem
             /\ val' = IF write THEN [val EXCEPT ![p] = d] ELSE val
             /\ pc' = pc
    <3>1. mem' \in [Frames -> Data] /\ val' \in [Page -> Data]
      BY Zenon, <1>1, <1>3, <2>2
    <3>2. buff' = buff
      BY Zenon, <1>7 DEF KernelAccess
    <3>. QED BY Zenon, <1>1, <1>2, <1>7, <2>2, <3>1, <3>2, NoneMapped DEF KernelAccess
  <2>. QED BY Zenon, <1>7, <2>1, <2>2 DEF KernelAccess
<1>8. CASE TurnFlag(p, flag, on)
  <2>1. /\ flags' \in [Page -> SUBSET Flag]
        /\ \A q \in Page : "P" \in flags'[q] <=> "P" \in flags[q]
    <3>1. flag # "P" /\ flag \in Flag
      BY Zenon DEF Flag
    <3>2. flags' = [flags EXCEPT ![p] = IF on THEN @ \cup {flag} ELSE @ \ {flag}]
      BY Zenon, <1>8 DEF TurnFlag
    <3>. QED BY Zenon, <1>1, <3>1, <3>2
  <2>. QED BY Zenon, <1>1, <1>8, <2>1, NoneMapped DEF TurnFlag, memory
<1>. QED BY Zenon, <1>4, <1>5, <1>6, <1>7, <1>8

LEMMA SoundAfterSbrk ==
  ASSUME HInv, NEW n \in 1 .. MAX_TOTAL_PAGES, Sbrk(n)
  PROVE  HInv'
<1>1. /\ pc = "user" /\ pc' = "alloc" /\ newsz' = sz + n /\ cur' = sz /\ sz + n <= MAX_TOTAL_PAGES
      /\ UNCHANGED <<sz, req, np, page, flags, frame, ram_monitor, swap_monitor, last_in_queue,
                     file, fsize, buff, free, mem, pages_in_file, page_fault_counter, val>>
  BY Zenon DEF Sbrk, Running, table, monitors, disk, memory, counters
<1>2. newsz' \in 0 .. MAX_TOTAL_PAGES /\ cur' \in 0 .. MAX_TOTAL_PAGES /\ cur' <= newsz'
  BY <1>1 DEF HInv, TypeOK
<1>3. TypeOK'
  BY Zenon, <1>1, <1>2 DEF HInv, TypeOK, PC
<1>4. Walk' /\ Places'
  BY Zenon, <1>1, <1>2 DEF HInv, Walk, Places
<1>5. Alive' => Sound'
  BY Zenon, <1>1, FramesLost DEF HInv, Alive
<1>. QED BY Zenon, <1>3, <1>4, <1>5 DEF HInv

LEMMA SoundAfterFork ==
  ASSUME HInv, Fork
  PROVE  HInv'
<1>1. pc = "user" /\ UNCHANGED <<sz, newsz, cur, req, np, page, ram_monitor, swap_monitor,
                                 last_in_queue, buff, free, mem, val>>
  BY Zenon DEF Fork, Running, locals, monitors, memory
<1>2. CASE pc' \in {"panic_copyuvm", "panic_swapfile"} /\ UNCHANGED <<table, disk, counters>>
  BY Zenon, <1>1, <1>2, Stopped DEF PC, locals, monitors, memory
<1>3. CASE /\ flags' = [p \in Page |-> IF p < sz THEN flags[p] ELSE {}]
           /\ frame' = [p \in Page |-> IF p < sz THEN frame[p] ELSE NoFrame]
           /\ fsize' = Cardinality(UsedSwap)
           /\ file' = [i \in SwapIdx |-> IF i \in UsedSwap THEN file[i] ELSE Zero]
           /\ pages_in_file' = 0 /\ page_fault_counter' = 0
           /\ pc' = pc
  <2>1. flags' \in [Page -> SUBSET Flag] /\ frame' \in [Page -> Frames \cup {NoFrame}]
    BY Zenon, <1>3 DEF HInv, TypeOK
  <2>2. file' \in [SwapIdx -> Data]
    BY Zenon, <1>3 DEF HInv, TypeOK
  <2>3. fsize' \in 0 .. MAX_TOTAL_PAGES - MAX_PYSC_PAGES
    <3>1. IsFiniteSet(SwapIdx) /\ Cardinality(SwapIdx) = MAX_TOTAL_PAGES - MAX_PYSC_PAGES
      BY FS_Interval
    <3>2. UsedSwap \in SUBSET SwapIdx
      BY Zenon DEF UsedSwap
    <3>. HIDE DEF SwapIdx
    <3>3. IsFiniteSet(UsedSwap) /\ Cardinality(UsedSwap) <= Cardinality(SwapIdx)
      BY Zenon, <3>1, <3>2, FS_Subset
    <3>4. Cardinality(UsedSwap) \in Nat
      BY Zenon, <3>3, FS_CardinalityType
    <3>. QED BY <1>3, <3>1, <3>3, <3>4
  <2>4. pages_in_file' \in Nat /\ page_fault_counter' \in Nat
    BY <1>3
  <2>5. TypeOK'
    BY Zenon, <1>1, <1>3, <2>1, <2>2, <2>3, <2>4 DEF HInv, TypeOK
  <2>6. Walk' /\ Places'
    BY Zenon, <1>1, <1>3 DEF HInv, Walk, Places
  <2>7. ASSUME NEW p \in Page, "P" \in flags'[p] PROVE "P" \in flags[p] /\ frame'[p] = frame[p]
    <3>1. CASE p < sz
      BY Zenon, <1>3, <2>7, <3>1
    <3>2. CASE ~ (p < sz)
      BY Zenon, <1>3, <2>7, <3>2
    <3>. QED BY Zenon, <3>1, <3>2
  <2>8. Alive' => Sound'
    BY Zenon, <1>1, <1>3, <2>7, FramesLost DEF HInv
  <2>. QED BY Zenon, <2>5, <2>6, <2>8 DEF HInv
<1>. QED BY Zenon, <1>2, <1>3 DEF Fork

LEMMA SoundAfterAllocDone ==
  ASSUME HInv, AllocDone
  PROVE  HInv'
<1>1. /\ pc = "alloc" /\ pc' = "user" /\ sz' = newsz
      /\ newsz' = 0 /\ cur' = 0 /\ req' = 0 /\ np' = NoFrame /\ page' = 0
      /\ UNCHANGED <<flags, frame, ram_monitor, swap_monitor, last_in_queue,
                     file, fsize, buff, free, mem, pages_in_file, page_fault_counter, val>>
  BY Zenon DEF AllocDone, Return, table, monitors, disk, memory, counters
<1>2. 0 \in Page /\ 0 \in 0 .. MAX_TOTAL_PAGES
  OBVIOUS
<1>3. TypeOK'
  BY Zenon, <1>1, <1>2 DEF HInv, TypeOK, PC
<1>4. Walk' /\ Places'
  BY Zenon, <1>1 DEF HInv, Walk, Places
<1>5. Alive' => Sound'
  BY Zenon, <1>1, FramesLost DEF HInv, Alive, InKernel
<1>. QED BY Zenon, <1>3, <1>4, <1>5 DEF HInv

LEMMA SoundAfterMapPage ==
  ASSUME HInv, pc = "alloc", cur < newsz, "P" \notin flags[cur], MapPage
  PROVE  HInv'
<1>. TypeOK /\ Places /\ Sound
  BY Zenon DEF HInv, Alive, InKernel
<1>1. PICK f \in free : /\ free' = free \ {f}
                        /\ mem' = [mem EXCEPT ![f] = Zero]
                        /\ flags' = [flags EXCEPT ![cur] = {"P", "W", "U"}]
                        /\ frame' = [frame EXCEPT ![cur] = f]
  BY Zenon DEF MapPage
<1>2. cur \in Page /\ cur + 1 \in 0 .. MAX_TOTAL_PAGES /\ cur + 1 <= newsz
  BY DEF TypeOK
<1>3. /\ val' = [val EXCEPT ![cur] = Zero]
      /\ UNCHANGED <<sz, newsz, np, page, swap_monitor, file, fsize, buff, page_fault_counter>>
  BY Zenon DEF MapPage, disk
<1>4. /\ flags' \in [Page -> SUBSET Flag] /\ frame' \in [Page -> Frames \cup {NoFrame}]
      /\ f \in Frames /\ free' \in SUBSET Frames /\ mem' \in [Frames -> Data] /\ val' \in [Page -> Data]
  <2>1. {"P", "W", "U"} \in SUBSET Flag
    BY Zenon DEF Flag
  <2>2. f \in Frames
    BY Zenon DEF TypeOK
  <2>. QED BY Zenon, <1>1, <1>3, <2>1, <2>2 DEF TypeOK
<1>5. pc' # "fault" => Sound'
  <2>1. frame'[cur] = f /\ \A p \in Page : p # cur => flags'[p] = flags[p] /\ frame'[p] = frame[p]
    BY Zenon, <1>1, <1>2 DEF TypeOK
  <2>2. f \notin free' /\ free' \subseteq free
    BY Zenon, <1>1
  <2>3. \A p \in Page : "P" \in flags[p] => frame[p] # f
    BY Zenon DEF Sound
  <2>. QED BY Zenon, <1>2, <1>4, <2>1, <2>2, <2>3, FrameGained
<1>6. CASE cur + 1 <= MAX_PYSC_PAGES
  <2>1. add2ram(ram_monitor, cur) /\ cur' = cur + 1 /\ UNCHANGED <<pc, req, pages_in_file>>
    BY Zenon, <1>6 DEF MapPage
  <2>2. /\ ram_monitor' \in [RamIdx -> [used : BOOLEAN, p_va : Page, place_in_queue : Nat]]
        /\ last_in_queue' \in Nat /\ Places'
    BY Zenon, <1>2, <2>1, add2ramTypes DEF TypeOK, Places
  <2>3. TypeOK'
    BY Zenon, <1>2, <1>3, <1>4, <2>1, <2>2 DEF TypeOK
  <2>4. Walk'
    BY Zenon, <1>2, <1>3, <2>1 DEF Walk
  <2>. QED BY Zenon, <1>5, <2>1, <2>2, <2>3, <2>4 DEF HInv
<1>7. CASE ~ (cur + 1 <= MAX_PYSC_PAGES)
  <2>1. /\ pc' = "swap" /\ req' = cur /\ pages_in_file' = pages_in_file + 1
        /\ UNCHANGED <<cur, ram_monitor, last_in_queue>>
    BY Zenon, <1>7 DEF MapPage
  <2>2. pages_in_file' \in Nat
    BY <2>1 DEF TypeOK
  <2>3. TypeOK'
    BY Zenon, <1>2, <1>3, <1>4, <2>1, <2>2 DEF TypeOK, PC
  <2>4. Walk' /\ Places'
    BY Zenon, <1>3, <2>1 DEF Walk, Places
  <2>. QED BY Zenon, <1>5, <2>1, <2>3, <2>4 DEF HInv
<1>. QED BY Zenon, <1>6, <1>7

LEMMA SoundAfterSecondChance ==
  ASSUME HInv, SecondChance
  PROVE  HInv'
<1>. TypeOK /\ Places /\ Walk /\ Sound
  BY Zenon DEF HInv, SecondChance, Alive, InKernel
<1>1. Candidate \in RamIdx /\ CandidatePage \in Page
  BY Zenon, CandidateTypes DEF SecondChance
<1>2. /\ flags' = [flags EXCEPT ![CandidatePage] = @ \ {"A"}]
      /\ last_in_queue' = last_in_queue + 1
      /\ ram_monitor' = [ram_monitor EXCEPT ![Candidate] = Entry(TRUE, CandidatePage, last_in_queue + 1)]
      /\ UNCHANGED <<pc, sz, newsz, cur, req, np, page, frame, swap_monitor, file, fsize, buff,
                     free, mem, pages_in_file, page_fault_counter, val>>
  BY Zenon DEF SecondChance, locals, disk, memory, counters
<1>3. /\ ram_monitor' \in [RamIdx -> [used : BOOLEAN, p_va : Page, place_in_queue : Nat]]
      /\ last_in_queue' \in Nat /\ Places'
  <2>1. /\ ram_monitor \in [RamIdx -> [used : BOOLEAN, p_va : Page, place_in_queue : Nat]]
        /\ last_in_queue \in Nat /\ TRUE \in BOOLEAN
    BY Zenon DEF TypeOK
  <2>. QED BY Zenon, <1>1, <1>2, <2>1, QueuedLast DEF Places
<1>4. flags' \in [Page -> SUBSET Flag] /\ \A p \in Page : "P" \in flags'[p] <=> "P" \in flags[p]
  <2>1. "P" \notin {"A"}
    BY Zenon
  <2>. QED BY Zenon, <1>1, <1>2, <2>1 DEF TypeOK
<1>5. TypeOK'
  BY Zenon, <1>2, <1>3, <1>4 DEF TypeOK
<1>6. Walk'
  BY Zenon, <1>2 DEF Walk
<1>7. Alive' => Sound'
  BY Zenon, <1>2, <1>4, FramesLost
<1>. QED BY Zenon, <1>3, <1>5, <1>6, <1>7 DEF HInv

LEMMA SoundAfterSwap ==
  ASSUME HInv, Swap
  PROVE  HInv'
<1>. TypeOK /\ Places /\ Walk /\ Sound /\ pc = "swap"
  BY Zenon DEF HInv, Swap, Alive, InKernel
<1>1. CASE SelectNone \/ EvictAbsent(CandidatePage)
  BY Zenon, <1>1, Stopped DEF SelectNone, EvictAbsent, PC
<1>2. CASE Evict /\ UsedRam # {} /\ ~ EvictAbsent(CandidatePage)
  <2>1. PICK k \in RamIdx, v \in Page : k = Candidate /\ v = CandidatePage /\ v = ram_monitor[k].p_va
    BY Zenon, <1>2, CandidateTypes DEF CandidatePage
  <2>2. PICK touched \in SUBSET {"A"} :
        /\ "P" \in flags[v] /\ write2file(v, mem[frame[v]]) /\ page_out(v, touched)
        /\ add2ram([ram_monitor EXCEPT ![k] = Entry(FALSE, v, ram_monitor[k].place_in_queue)], req)
        /\ pc' = "alloc" /\ cur' = cur + 1
        /\ UNCHANGED <<sz, newsz, req, np, page, buff, mem, pages_in_file, page_fault_counter, val>>
    BY Zenon, <1>2, <2>1 DEF Evict, Present, counters
  <2>3. PICK ram \in [RamIdx -> [used : BOOLEAN, p_va : Page, place_in_queue : Nat]] :
          /\ ram = [ram_monitor EXCEPT ![k] = Entry(FALSE, v, ram_monitor[k].place_in_queue)]
          /\ \A i \in RamIdx : ram[i].place_in_queue <= last_in_queue
    <3>. DEFINE e == Entry(FALSE, v, ram_monitor[k].place_in_queue)
                ram == [ram_monitor EXCEPT ![k] = e]
    <3>1. ram_monitor[k].place_in_queue \in Nat
      BY Zenon DEF TypeOK
    <3>2. /\ e \in [used : BOOLEAN, p_va : Page, place_in_queue : Nat]
          /\ e.place_in_queue = ram_monitor[k].place_in_queue
      BY <3>1 DEF Entry
    <3>. HIDE DEF e
    <3>3. ram \in [RamIdx -> [used : BOOLEAN, p_va : Page, place_in_queue : Nat]]
      BY Zenon, <3>2 DEF TypeOK
    <3>4. ASSUME NEW i \in RamIdx PROVE ram[i].place_in_queue <= last_in_queue
      <4>1. ram[i] = IF i = k THEN e ELSE ram_monitor[i]
        BY Zenon DEF TypeOK
      <4>. QED BY Zenon, <3>2, <4>1 DEF Places
    <3>. QED BY Zenon, <3>3, <3>4 DEF e
  <2>4. /\ ram_monitor' \in [RamIdx -> [used : BOOLEAN, p_va : Page, place_in_queue : Nat]]
        /\ last_in_queue' \in Nat /\ Places'
    <3>1. add2ram(ram, req) /\ req \in Page /\ last_in_queue \in Nat
      BY Zenon, <2>2, <2>3 DEF TypeOK
    <3>. QED BY Zenon, <2>3, <3>1, add2ramTypes
  <2>5. mem[frame[v]] \in Data
    BY Zenon, <2>2 DEF Sound, TypeOK
  <2>6. /\ file' \in [SwapIdx -> Data] /\ fsize' \in 0 .. MAX_TOTAL_PAGES - MAX_PYSC_PAGES
        /\ swap_monitor' \in [SwapIdx -> [used : BOOLEAN, p_va : Page]]
    BY Zenon, <2>2, <2>5, write2fileTypes
  <2>7. /\ flags' \in [Page -> SUBSET Flag] /\ frame' \in [Page -> Frames \cup {NoFrame}]
        /\ free' \in SUBSET Frames
        /\ \A q \in Page : "P" \in flags'[q] => "P" \in flags[q] /\ frame'[q] = frame[q]
        /\ \A f \in free' : f \in free \/ \E q \in Page : "P" \in flags[q] /\ "P" \notin flags'[q] /\ frame[q] = f
    BY Zenon, <2>2, page_outTypes
  <2>8. cur' \in 0 .. MAX_TOTAL_PAGES /\ cur' <= newsz
    BY <2>2 DEF TypeOK, Walk
  <2>9. TypeOK'
    BY Zenon, <2>2, <2>4, <2>6, <2>7, <2>8 DEF TypeOK, PC
  <2>10. Walk'
    BY Zenon, <2>2, <2>8 DEF Walk
  <2>11. Alive' => Sound'
    <3>1. Alive
      BY Zenon DEF Alive, InKernel
    <3>. QED BY Zenon, <2>2, <2>7, <3>1, FramesLost
  <2>. QED BY Zenon, <2>4, <2>9, <2>10, <2>11 DEF HInv
<1>. QED BY Zenon, <1>1, <1>2 DEF Swap
-----------------------------------------------------------------------------
(* page_in: a page, present or not, is mapped to f.                        *)
LEMMA page_inTypes ==
  ASSUME TypeOK, NEW p \in Page, NEW f \in Frames, NEW touched \in SUBSET {"A"}, page_in(p, f, touched)
  PROVE  /\ flags' \in [Page -> SUBSET Flag] /\ frame' \in [Page -> Frames \cup {NoFrame}]
         /\ frame'[p] = f
         /\ \A q \in Page : q # p => flags'[q] = flags[q] /\ frame'[q] = frame[q]
<1>1. /\ flags' = [flags EXCEPT ![p] = (@ \cup {"P", "W", "U"} \cup touched) \ {"PG"}]
      /\ frame' = [frame EXCEPT ![p] = f]
  BY Zenon DEF page_in
<1>2. touched \subseteq Flag /\ {"P", "W", "U"} \subseteq Flag
  BY Zenon DEF Flag
<1>3. (flags[p] \cup {"P", "W", "U"} \cup touched) \ {"PG"} \in SUBSET Flag
  BY Zenon, <1>2 DEF TypeOK
<1>. QED BY Zenon, <1>1, <1>3 DEF TypeOK

LEMMA SoundAfterPageFault ==
  ASSUME HInv, NEW p \in Page, PageFault(p)
  PROVE  HInv'
<1>. TypeOK /\ Places /\ Walk /\ Sound /\ pc = "user"
  BY Zenon DEF HInv, PageFault, Alive
<1>1. PICK f \in free :
       /\ free' = free \ {f}
       /\ \/ /\ FreeRam # {}
             /\ page_in(p, f, {"A"})
             /\ mem' = [mem EXCEPT ![f] = PageRead(p, Zero)]
             /\ read_page_from_disk(p, Lowest(FreeRam))
             /\ UNCHANGED <<pc, req, np, pages_in_file>>
          \/ /\ FreeRam = {}
             /\ mem' = [mem EXCEPT ![f] = Zero]
             /\ pages_in_file' = pages_in_file + 1
             /\ pc' = "fault" /\ req' = p /\ np' = f
             /\ UNCHANGED <<flags, frame, ram_monitor, swap_monitor, last_in_queue>>
  BY Zenon DEF PageFault, table, monitors
<1>2. page_fault_counter' = page_fault_counter + 1 /\ UNCHANGED <<sz, newsz, cur, page, file, fsize, buff, val>>
  BY Zenon DEF PageFault, disk
<1>3. /\ f \in Frames /\ f \notin free' /\ free' \subseteq free /\ free' \in SUBSET Frames
      /\ \A q \in Page : "P" \in flags[q] => frame[q] # f
  <2>1. free \in SUBSET Frames
    BY Zenon DEF TypeOK
  <2>2. free' = free \ {f}
    BY Zenon, <1>1
  <2>3. \A q \in Page : "P" \in flags[q] => frame[q] # f
    BY Zenon DEF Sound
  <2>. QED BY Zenon, <2>1, <2>2, <2>3
<1>4. page_fault_counter' \in Nat /\ pages_in_file + 1 \in Nat
  BY <1>2 DEF TypeOK
<1>5. CASE FreeRam # {}
  <2>1. /\ page_in(p, f, {"A"})
        /\ mem' = [mem EXCEPT ![f] = PageRead(p, Zero)]
        /\ read_page_from_disk(p, Lowest(FreeRam))
        /\ UNCHANGED <<pc, req, np, pages_in_file>>
    BY Zenon, <1>1, <1>5
  <2>2. mem' \in [Frames -> Data]
    <3>1. PageRead(p, Zero) \in Data
      BY Zenon, PageReadTypes
    <3>. QED BY Zenon, <2>1, <3>1 DEF TypeOK
  <2>3. Lowest(FreeRam) \in RamIdx
    <3>1. FreeRam \in SUBSET Nat /\ FreeRam \subseteq RamIdx
      BY DEF FreeRam
    <3>. QED BY Zenon, <1>5, <3>1, LowestIsLeast
  <2>4. /\ ram_monitor' \in [RamIdx -> [used : BOOLEAN, p_va : Page, place_in_queue : Nat]]
        /\ swap_monitor' \in [SwapIdx -> [used : BOOLEAN, p_va : Page]]
        /\ last_in_queue' \in Nat /\ Places'
    BY Zenon, <2>1, <2>3, read_pageTypes
  <2>5. /\ flags' \in [Page -> SUBSET Flag] /\ frame' \in [Page -> Frames \cup {NoFrame}]
        /\ frame'[p] = f
        /\ \A q \in Page : q # p => flags'[q] = flags[q] /\ frame'[q] = frame[q]
    BY Zenon, <1>3, <2>1, page_inTypes
  <2>6. TypeOK'
    BY Zenon, <1>2, <1>3, <1>4, <2>1, <2>2, <2>4, <2>5 DEF TypeOK
  <2>7. Walk'
    BY Zenon, <1>2, <2>1 DEF Walk
  <2>8. Sound'
    BY Zenon, <1>3, <2>1, <2>5, FrameGained
  <2>. QED BY Zenon, <2>4, <2>6, <2>7, <2>8 DEF HInv
<1>6. CASE FreeRam = {}
  <2>1. /\ mem' = [mem EXCEPT ![f] = Zero] /\ pages_in_file' = pages_in_file + 1
        /\ pc' = "fault" /\ req' = p /\ np' = f
        /\ UNCHANGED <<flags, frame, ram_monitor, swap_monitor, last_in_queue>>
    BY Zenon, <1>1, <1>6
  <2>2. TypeOK'
    BY Zenon, <1>2, <1>3, <1>4, <2>1 DEF TypeOK, PC
  <2>3. Walk' /\ Places'
    BY Zenon, <2>1 DEF Walk, Places
  <2>4. Sound'
    BY Zenon, <1>3, <2>1 DEF Sound
  <2>. QED BY Zenon, <2>2, <2>3, <2>4 DEF HInv
<1>. QED BY Zenon, <1>5, <1>6

LEMMA SoundAfterFaultRead ==
  ASSUME HInv, FaultRead
  PROVE  HInv'
<1>. TypeOK /\ Places /\ Walk /\ Sound /\ pc = "fault"
  BY Zenon DEF HInv, FaultRead, Alive, InKernel
<1>1. Candidate \in RamIdx /\ CandidatePage \in Page
  BY Zenon, CandidateTypes DEF FaultRead, Selected
<1>2. /\ page' = CandidatePage /\ page_in(req, np, {}) /\ buff' = PageRead(req, buff)
      /\ read_page_from_disk(req, Candidate) /\ pc' = "copy"
      /\ UNCHANGED <<sz, newsz, cur, req, np, file, fsize, free, mem, pages_in_file, page_fault_counter, val>>
  BY Zenon DEF FaultRead, disk, memory, counters
<1>3. req \in Page /\ np \in Frames /\ np \notin free
  BY Zenon DEF TypeOK, Sound
<1>4. /\ ram_monitor' \in [RamIdx -> [used : BOOLEAN, p_va : Page, place_in_queue : Nat]]
      /\ swap_monitor' \in [SwapIdx -> [used : BOOLEAN, p_va : Page]]
      /\ last_in_queue' \in Nat /\ Places'
  BY Zenon, <1>1, <1>2, <1>3, read_pageTypes
<1>5. /\ flags' \in [Page -> SUBSET Flag] /\ frame' \in [Page -> Frames \cup {NoFrame}]
      /\ frame'[req] = np
      /\ \A q \in Page : q # req => flags'[q] = flags[q] /\ frame'[q] = frame[q]
  BY Zenon, <1>2, <1>3, page_inTypes
<1>6. buff' \in Data
  BY Zenon, <1>2, PageReadTypes DEF TypeOK
<1>7. TypeOK'
  BY Zenon, <1>1, <1>2, <1>4, <1>5, <1>6 DEF TypeOK, PC
<1>8. Walk'
  BY Zenon, <1>2 DEF Walk
<1>9. Sound'
  <2>1. \A q \in Page : "P" \in flags[q] => frame[q] # np
    BY Zenon DEF Sound
  <2>2. np \notin free' /\ free' \subseteq free /\ pc' # "fault"
    BY Zenon, <1>2, <1>3
  <2>. QED BY Zenon, <1>3, <1>5, <2>1, <2>2, FrameGained
<1>. QED BY Zenon, <1>4, <1>7, <1>8, <1>9 DEF HInv

LEMMA SoundAfterFaultCopy ==
  ASSUME HInv, FaultCopy
  PROVE  HInv'
<1>. TypeOK /\ Places /\ Walk /\ Sound /\ pc = "copy" /\ Alive
  BY Zenon DEF HInv, FaultCopy, Alive, InKernel
<1>1. CASE EvictAbsent(page)
  BY Zenon, <1>1, Stopped DEF EvictAbsent, PC
<1>2. CASE ~ EvictAbsent(page)
  <2>1. /\ "P" \in flags[page] /\ mem' = [mem EXCEPT ![np] = buff]
        /\ write2file(page, mem'[frame[page]]) /\ page_out(page, {"A"})
        /\ pc' = "user" /\ newsz' = 0 /\ cur' = 0 /\ req' = 0 /\ np' = NoFrame /\ page' = 0
        /\ UNCHANGED <<sz, ram_monitor, last_in_queue, buff, pages_in_file, page_fault_counter, val>>
    BY Zenon, <1>2 DEF FaultCopy, Return, Present, counters
  <2>2. 0 \in Page /\ 0 \in 0 .. MAX_TOTAL_PAGES
    OBVIOUS
  <2>3. page \in Page /\ mem' \in [Frames -> Data]
    BY Zenon, <2>1 DEF TypeOK
  <2>4. mem'[frame[page]] \in Data
    BY Zenon, <2>1, <2>3 DEF Sound
  <2>5. /\ file' \in [SwapIdx -> Data] /\ fsize' \in 0 .. MAX_TOTAL_PAGES - MAX_PYSC_PAGES
        /\ swap_monitor' \in [SwapIdx -> [used : BOOLEAN, p_va : Page]]
    BY Zenon, <2>1, <2>3, <2>4, write2fileTypes
  <2>6. /\ flags' \in [Page -> SUBSET Flag] /\ frame' \in [Page -> Frames \cup {NoFrame}]
        /\ free' \in SUBSET Frames
        /\ \A q \in Page : "P" \in flags'[q] => "P" \in flags[q] /\ frame'[q] = frame[q]
        /\ \A f \in free' : f \in free \/ \E q \in Page : "P" \in flags[q] /\ "P" \notin flags'[q] /\ frame[q] = f
    BY Zenon, <2>1, <2>3, page_outTypes
  <2>7. TypeOK'
    BY Zenon, <2>1, <2>2, <2>3, <2>5, <2>6 DEF TypeOK, PC
  <2>8. Walk' /\ Places'
    BY Zenon, <2>1 DEF Walk, Places
  <2>9. Alive' => Sound'
    BY Zenon, <2>1, <2>6, FramesLost
  <2>. QED BY Zenon, <2>7, <2>8, <2>9 DEF HInv
<1>. QED BY Zenon, <1>1, <1>2
-----------------------------------------------------------------------------
(* deallocuvm unmaps pages and frees their frames.                         *)
LEMMA deallocuvmTypes ==
  ASSUME TypeOK, Places, Sound, NEW range, deallocuvm(range), UNCHANGED last_in_queue
  PROVE  /\ flags' \in [Page -> SUBSET Flag] /\ frame' \in [Page -> Frames \cup {NoFrame}]
         /\ free' \in SUBSET Frames
         /\ \A q \in Page : "P" \in flags'[q] => "P" \in flags[q] /\ frame'[q] = frame[q]
         /\ \A f \in free' : f \in free \/ \E q \in Page : "P" \in flags[q] /\ "P" \notin flags'[q] /\ frame[q] = f
         /\ ram_monitor' \in [RamIdx -> [used : BOOLEAN, p_va : Page, place_in_queue : Nat]]
         /\ Places'
<1>. DEFINE gone == range \cap Resident
<1>1. /\ flags' = [p \in Page |-> IF p \in gone THEN {} ELSE flags[p]]
      /\ frame' = [p \in Page |-> IF p \in gone THEN NoFrame ELSE frame[p]]
      /\ free' = free \cup {frame[p] : p \in gone}
      /\ ram_monitor' = [i \in RamIdx |->
           IF ram_monitor[i].p_va \in gone THEN [ram_monitor[i] EXCEPT !.used = FALSE]
           ELSE ram_monitor[i]]
  BY Zenon DEF deallocuvm
<1>2. \A p \in gone : p \in Page /\ "P" \in flags[p]
  BY Zenon DEF Resident, Present
<1>. HIDE DEF gone
<1>3. flags' \in [Page -> SUBSET Flag] /\ frame' \in [Page -> Frames \cup {NoFrame}]
  BY Zenon, <1>1 DEF TypeOK
<1>4. ASSUME NEW q \in Page
      PROVE  /\ q \in gone => "P" \notin flags'[q]
             /\ q \notin gone => flags'[q] = flags[q] /\ frame'[q] = frame[q]
  BY Zenon, <1>1
<1>5. free' \in SUBSET Frames
  <2>1. free \in SUBSET Frames
    BY Zenon DEF TypeOK
  <2>2. \A p \in gone : frame[p] \in Frames
    BY Zenon, <1>2 DEF Sound
  <2>3. free' = free \cup {frame[p] : p \in gone}
    BY Zenon, <1>1
  <2>. QED BY Zenon, <2>1, <2>2, <2>3
<1>6. \A f \in free' : f \in free \/ \E q \in Page : "P" \in flags[q] /\ "P" \notin flags'[q] /\ frame[q] = f
  BY Zenon, <1>1, <1>2, <1>4
<1>7. ASSUME NEW i \in RamIdx
      PROVE  /\ ram_monitor'[i] \in [used : BOOLEAN, p_va : Page, place_in_queue : Nat]
             /\ ram_monitor'[i].place_in_queue <= last_in_queue'
  <2>1. PICK r \in [used : BOOLEAN, p_va : Page, place_in_queue : Nat] : r = ram_monitor[i]
    BY Zenon DEF TypeOK
  <2>2. ram_monitor'[i] = [r EXCEPT !.used = FALSE] \/ ram_monitor'[i] = r
    BY Zenon, <1>1, <2>1
  <2>3. r.place_in_queue <= last_in_queue
    BY Zenon, <2>1 DEF Places
  <2>4. /\ [r EXCEPT !.used = FALSE] \in [used : BOOLEAN, p_va : Page, place_in_queue : Nat]
        /\ [r EXCEPT !.used = FALSE].place_in_queue = r.place_in_queue
    BY Zenon
  <2>. QED BY Zenon, <2>2, <2>3, <2>4
<1>8. ram_monitor' \in [RamIdx -> [used : BOOLEAN, p_va : Page, place_in_queue : Nat]]
  <2>1. \E g : ram_monitor' = [i \in RamIdx |-> g[i]]
    <3>1. ram_monitor' = [i \in RamIdx |-> ram_monitor'[i]]
      BY Zenon, <1>1
    <3>. QED BY Zenon, <3>1
  <2>. QED BY Zenon, <1>7, <2>1
<1>. QED BY Zenon, <1>3, <1>4, <1>5, <1>6, <1>7, <1>8 DEF Places

LEMMA SoundAfterShrink ==
  ASSUME HInv, NEW n \in 1 .. MAX_TOTAL_PAGES, Shrink(n)
  PROVE  HInv'
<1>. TypeOK /\ Places /\ Walk /\ Sound /\ pc = "user" /\ Alive
  BY Zenon DEF HInv, Shrink, Running, Alive
<1>1. /\ deallocuvm(n .. sz - 1) /\ sz' = n
      /\ UNCHANGED <<pc, newsz, cur, req, np, page, swap_monitor, last_in_queue,
                     file, fsize, buff, mem, pages_in_file, page_fault_counter, val>>
  BY Zenon DEF Shrink, locals, disk, counters
<1>2. /\ flags' \in [Page -> SUBSET Flag] /\ frame' \in [Page -> Frames \cup {NoFrame}]
      /\ free' \in SUBSET Frames
      /\ \A q \in Page : "P" \in flags'[q] => "P" \in flags[q] /\ frame'[q] = frame[q]
      /\ \A f \in free' : f \in free \/ \E q \in Page : "P" \in flags[q] /\ "P" \notin flags'[q] /\ frame[q] = f
      /\ ram_monitor' \in [RamIdx -> [used : BOOLEAN, p_va : Page, place_in_queue : Nat]]
      /\ Places'
  BY Zenon, <1>1, deallocuvmTypes
<1>3. sz' \in 0 .. MAX_TOTAL_PAGES
  BY <1>1
<1>4. TypeOK'
  BY Zenon, <1>1, <1>2, <1>3 DEF TypeOK
<1>5. Walk'
  BY Zenon, <1>1 DEF Walk
<1>6. Alive' => Sound'
  BY Zenon, <1>1, <1>2, FramesLost
<1>. QED BY Zenon, <1>2, <1>4, <1>5, <1>6 DEF HInv

LEMMA SoundAfterAllocFails ==
  ASSUME HInv, AllocFails
  PROVE  HInv'
<1>. TypeOK /\ Places /\ Walk /\ Sound /\ pc = "alloc" /\ Alive
  BY Zenon DEF HInv, AllocFails, Alive, InKernel
<1>1. /\ deallocuvm(sz .. newsz - 1)
      /\ pc' = "user" /\ newsz' = 0 /\ cur' = 0 /\ req' = 0 /\ np' = NoFrame /\ page' = 0
      /\ UNCHANGED <<sz, swap_monitor, last_in_queue, file, fsize, buff, mem,
                     pages_in_file, page_fault_counter, val>>
  BY Zenon DEF AllocFails, Return, disk, counters
<1>2. /\ flags' \in [Page -> SUBSET Flag] /\ frame' \in [Page -> Frames \cup {NoFrame}]
      /\ free' \in SUBSET Frames
      /\ \A q \in Page : "P" \in flags'[q] => "P" \in flags[q] /\ frame'[q] = frame[q]
      /\ \A f \in free' : f \in free \/ \E q \in Page : "P" \in flags[q] /\ "P" \notin flags'[q] /\ frame[q] = f
      /\ ram_monitor' \in [RamIdx -> [used : BOOLEAN, p_va : Page, place_in_queue : Nat]]
      /\ Places'
  BY Zenon, <1>1, deallocuvmTypes
<1>3. 0 \in Page /\ 0 \in 0 .. MAX_TOTAL_PAGES
  OBVIOUS
<1>4. TypeOK'
  BY Zenon, <1>1, <1>2, <1>3 DEF TypeOK, PC
<1>5. Walk'
  BY Zenon, <1>1 DEF Walk
<1>6. Alive' => Sound'
  BY Zenon, <1>1, <1>2, FramesLost
<1>. QED BY Zenon, <1>2, <1>4, <1>5, <1>6 DEF HInv

(* A kalloc that fails in page_from_disk, one of another process that      *)
(* succeeds, and another process's page fault.                             *)
LEMMA SoundAfterOthers ==
  ASSUME HInv, NEW p \in Page, NEW d \in Data, FaultFails(p) \/ OtherKalloc \/ OtherFault(d)
  PROVE  HInv'
<1>. TypeOK /\ Places /\ Walk /\ (Alive => Sound)
  BY Zenon DEF HInv
<1>1. CASE FaultFails(p)
  <2>1. /\ page_fault_counter' = page_fault_counter + 1
        /\ pc' \in {"panic_trap", "wild"} /\ (mem' = mem \/ mem' = [mem EXCEPT ![frame[0]] = Zero])
        /\ UNCHANGED <<sz, newsz, cur, req, np, page, flags, frame, ram_monitor, swap_monitor,
                       last_in_queue, file, fsize, buff, free, pages_in_file, val>>
    BY Zenon, <1>1 DEF FaultFails, locals, table, monitors, disk
  <2>2. page_fault_counter' \in Nat
    BY <2>1 DEF TypeOK
  <2>3. mem' \in [Frames -> Data] /\ pc' \in PC
    <3>1. mem \in [Frames -> Data]
      BY Zenon DEF TypeOK
    <3>2. mem' \in [Frames -> Data]
      BY Zenon, <2>1, <3>1
    <3>3. pc' \in PC
      BY Zenon, <2>1 DEF PC
    <3>. QED BY Zenon, <3>2, <3>3
  <2>4. TypeOK'
    BY Zenon, <2>1, <2>2, <2>3 DEF TypeOK
  <2>5. Walk' /\ Places' /\ ~ Alive'
    BY Zenon, <2>1 DEF Walk, Places, Alive, InKernel
  <2>. QED BY Zenon, <2>4, <2>5 DEF HInv
<1>2. CASE OtherKalloc
  <2>1. /\ free' \subseteq free
        /\ UNCHANGED <<pc, sz, newsz, cur, req, np, page, flags, frame, ram_monitor, swap_monitor,
                       last_in_queue, file, fsize, buff, mem, pages_in_file, page_fault_counter, val>>
    BY Zenon, <1>2 DEF OtherKalloc, locals, table, monitors, disk, counters
  <2>2. TypeOK'
    BY Zenon, <2>1 DEF TypeOK
  <2>3. Walk' /\ Places'
    BY Zenon, <2>1 DEF Walk, Places
  <2>4. Alive' => Sound'
    BY Zenon, <2>1, FramesLost
  <2>. QED BY Zenon, <2>2, <2>3, <2>4 DEF HInv
<1>3. CASE OtherFault(d)
  <2>1. UNCHANGED <<flags, frame, free, mem, val, pc>> /\ buff' = d
    BY Zenon, <1>3 DEF OtherFault, table, memory
  <2>. QED BY Zenon, <1>3, <2>1, NoneMapped DEF OtherFault, table, memory, TypeOK
<1>. QED BY Zenon, <1>1, <1>2, <1>3

(* exec enters the new image in the free entries, in their order.          *)
LEMMA EnterImageTypes ==
  ASSUME TypeOK, Places, EnterImage(ImagePages)
  PROVE  /\ ram_monitor' \in [RamIdx -> [used : BOOLEAN, p_va : Page, place_in_queue : Nat]]
         /\ last_in_queue' \in Nat /\ Places'
<1>. DEFINE n == ImagePages
            c == Cardinality(FreeRam)
<1>1. IsFiniteSet(FreeRam) /\ c \in Nat
  <2>1. IsFiniteSet(RamIdx)
    BY FS_Interval
  <2>2. FreeRam \in SUBSET RamIdx
    BY Zenon DEF FreeRam
  <2>. HIDE DEF RamIdx
  <2>3. IsFiniteSet(FreeRam)
    BY Zenon, <2>1, <2>2, FS_Subset
  <2>. QED BY Zenon, <2>3, FS_CardinalityType
<1>2. ASSUME NEW i \in FreeRam PROVE Rank(i) \in Nat /\ Rank(i) < c
  <2>. DEFINE S == {j \in FreeRam : j < i}
  <2>1. i \notin S /\ S \subseteq FreeRam
    <3>1. i \in RamIdx
      BY Zenon DEF FreeRam
    <3>2. ~ (i < i)
      BY <3>1
    <3>. QED BY Zenon, <3>2
  <2>2. IsFiniteSet(S) /\ Cardinality(S) <= c /\ (c = Cardinality(S) => S = FreeRam)
    <3>. HIDE DEF S
    <3>. QED BY Zenon, <1>1, <2>1, FS_Subset
  <2>3. Cardinality(S) \in Nat
    BY Zenon, <2>2, FS_CardinalityType
  <2>4. Cardinality(S) # c
    BY Zenon, <2>1, <2>2
  <2>5. Cardinality(S) < c
    <3>. HIDE DEF S, c
    <3>. QED BY <1>1, <2>2, <2>3, <2>4
  <2>. QED BY Zenon, <2>3, <2>5 DEF Rank
<1>3. /\ ram_monitor' = [i \in RamIdx |->
           IF i \in FreeRam /\ Rank(i) < n
           THEN [used |-> TRUE, p_va |-> Rank(i), place_in_queue |-> last_in_queue + Rank(i) + 1]
           ELSE ram_monitor[i]]
      /\ last_in_queue' = last_in_queue + (IF c < n THEN c ELSE n)
  BY Zenon DEF EnterImage
<1>. HIDE DEF c
<1>4. last_in_queue \in Nat /\ last_in_queue' \in Nat /\ last_in_queue <= last_in_queue'
  BY <1>1, <1>3 DEF TypeOK
<1>5. ASSUME NEW i \in RamIdx
      PROVE  /\ ram_monitor'[i] \in [used : BOOLEAN, p_va : Page, place_in_queue : Nat]
             /\ ram_monitor'[i].place_in_queue <= last_in_queue'
  <2>1. CASE i \in FreeRam /\ Rank(i) < n
    <3>1. PICK r \in Nat : r = Rank(i) /\ r < c /\ r < n
      BY Zenon, <1>2, <2>1
    <3>2. ram_monitor'[i] = [used |-> TRUE, p_va |-> r, place_in_queue |-> last_in_queue + r + 1]
      BY Zenon, <1>3, <2>1, <3>1
    <3>3. r \in Page /\ last_in_queue + r + 1 \in Nat /\ last_in_queue + r + 1 <= last_in_queue'
      BY SMTT(30), <1>1, <1>3, <1>4, <3>1
    <3>. QED BY <3>2, <3>3
  <2>2. CASE ~ (i \in FreeRam /\ Rank(i) < n)
    <3>1. ram_monitor'[i] = ram_monitor[i]
      BY Zenon, <1>3, <2>2
    <3>2. /\ ram_monitor[i] \in [used : BOOLEAN, p_va : Page, place_in_queue : Nat]
          /\ ram_monitor[i].place_in_queue <= last_in_queue
          /\ ram_monitor[i].place_in_queue \in Nat
      BY Zenon DEF TypeOK, Places
    <3>. QED BY <1>4, <3>1, <3>2
  <2>. QED BY Zenon, <2>1, <2>2
<1>6. ram_monitor' \in [RamIdx -> [used : BOOLEAN, p_va : Page, place_in_queue : Nat]]
  <2>1. ram_monitor' = [i \in RamIdx |-> ram_monitor'[i]]
    BY Zenon, <1>3
  <2>. QED BY Zenon, <1>5, <2>1
<1>. QED BY Zenon, <1>4, <1>5, <1>6 DEF Places

(* exec: the pages of the new image go to different free frames, and the   *)
(* old ones are freed.                                                     *)
LEMMA SoundAfterExec ==
  ASSUME HInv, Exec(ImagePages)
  PROVE  HInv'
<1>. TypeOK /\ Places /\ Walk /\ Sound /\ pc = "user"
  BY Zenon DEF HInv, Exec, Running, Alive
<1>. DEFINE n == ImagePages
<1>1. n \in Nat /\ n \in 0 .. MAX_TOTAL_PAGES /\ (\A p \in Page : p < n <=> p \in 0 .. n - 1)
  OBVIOUS
<1>2. PICK image \in [0 .. n - 1 -> free] :
        /\ \A p, q \in 0 .. n - 1 : image[p] = image[q] => p = q
        /\ frame' = [p \in Page |-> IF p < n THEN image[p] ELSE NoFrame]
        /\ free' = (free \ {image[p] : p \in 0 .. n - 1}) \cup {frame[p] : p \in Resident}
        /\ mem' = [f \in Frames |-> IF \E p \in 0 .. n - 1 : image[p] = f THEN Zero ELSE mem[f]]
  <2>1. PICK image \in [0 .. n - 1 -> free] :
        /\ \A p, q \in DOMAIN image : image[p] = image[q] => p = q
        /\ frame' = [p \in Page |-> IF p < n THEN image[p] ELSE NoFrame]
        /\ free' = (free \ {image[p] : p \in DOMAIN image}) \cup {frame[p] : p \in Resident}
        /\ mem' = [f \in Frames |-> IF \E p \in DOMAIN image : image[p] = f THEN Zero ELSE mem[f]]
    BY Zenon DEF Exec
  <2>2. DOMAIN image = 0 .. n - 1
    BY Zenon
  <2>. QED BY Zenon, <2>1, <2>2
<1>3. /\ flags' = [p \in Page |-> IF p >= n THEN {} ELSE IF p = n - 2 THEN {"P", "W"} ELSE {"P", "W", "U"}]
      /\ EnterImage(n) /\ sz' = n
      /\ val' = [p \in Page |-> IF p < n THEN Zero ELSE val[p]]
      /\ UNCHANGED <<pc, newsz, cur, req, np, page, swap_monitor, file, fsize, buff,
                     pages_in_file, page_fault_counter>>
  BY Zenon DEF Exec, locals, disk, counters
<1>4. ASSUME NEW p \in Page, "P" \in flags'[p]
      PROVE  p \in 0 .. n - 1 /\ frame'[p] = image[p] /\ image[p] \in free
  <2>1. p < n
    BY <1>3, <1>4
  <2>2. p \in 0 .. n - 1
    BY Zenon, <1>1, <2>1
  <2>. QED BY Zenon, <1>2, <2>1, <2>2
<1>5. flags' \in [Page -> SUBSET Flag]
  <2>1. {} \in SUBSET Flag /\ {"P", "W"} \in SUBSET Flag /\ {"P", "W", "U"} \in SUBSET Flag
    BY Zenon DEF Flag
  <2>. QED BY Zenon, <1>3, <2>1
<1>6. frame' \in [Page -> Frames \cup {NoFrame}] /\ val' \in [Page -> Data] /\ mem' \in [Frames -> Data]
  <2>1. ASSUME NEW p \in Page, p < n PROVE image[p] \in Frames
    BY Zenon, <1>1, <1>2, <2>1 DEF TypeOK
  <2>2. frame' \in [Page -> Frames \cup {NoFrame}]
    BY Zenon, <1>2, <2>1
  <2>3. val' \in [Page -> Data] /\ mem' \in [Frames -> Data]
    BY Zenon, <1>2, <1>3 DEF TypeOK
  <2>. QED BY Zenon, <2>2, <2>3
<1>7. \A f \in free' : f \in Frames /\ (f \in free => \A p \in 0 .. n - 1 : image[p] # f)
  <2>1. ASSUME NEW q \in Resident PROVE frame[q] \in Frames /\ frame[q] \notin free
    BY Zenon DEF Resident, Present, Sound
  <2>2. ASSUME NEW f \in free' PROVE f \in Frames /\ (f \in free => \A p \in 0 .. n - 1 : image[p] # f)
    <3>1. CASE f \in free \ {image[p] : p \in 0 .. n - 1}
      BY Zenon, <3>1 DEF TypeOK
    <3>2. CASE \E q \in Resident : f = frame[q]
      BY Zenon, <2>1, <3>2
    <3>. QED BY Zenon, <1>2, <3>1, <3>2
  <2>. QED BY Zenon, <2>2
<1>8. /\ ram_monitor' \in [RamIdx -> [used : BOOLEAN, p_va : Page, place_in_queue : Nat]]
      /\ last_in_queue' \in Nat /\ Places'
  BY Zenon, EnterImageTypes, <1>3
<1>9. TypeOK'
  <2>1. free' \in SUBSET Frames
    BY Zenon, <1>7
  <2>. QED BY Zenon, <1>1, <1>3, <1>5, <1>6, <1>8, <2>1 DEF TypeOK
<1>10. Sound'
  <2>1. ASSUME NEW p \in Page, "P" \in flags'[p] PROVE frame'[p] \in Frames /\ frame'[p] \notin free'
    BY Zenon, <1>4, <1>7, <2>1 DEF TypeOK
  <2>2. ASSUME NEW p \in Page, NEW q \in Page, "P" \in flags'[p], "P" \in flags'[q], frame'[p] = frame'[q]
        PROVE  p = q
    BY Zenon, <1>2, <1>4, <2>2
  <2>. QED BY Zenon, <1>3, <2>1, <2>2 DEF Sound
<1>11. Walk'
  BY Zenon, <1>3 DEF Walk
<1>. QED BY Zenon, <1>8, <1>9, <1>10, <1>11 DEF HInv

(* Every step of the process, and every disturbance, keeps frames apart.   *)
LEMMA HazardStep ==
  ASSUME HInv, [Next \/ Shrinks \/ Exec(ImagePages) \/ NoMemory \/ \E d \in Data : OtherFault(d)]_vars
  PROVE  HInv'
<1>. Zero \in Data /\ 0 \in Page
  OBVIOUS
<1>1. CASE User
  <2>1. ASSUME NEW p \in Page, NEW d \in Data, NEW write \in BOOLEAN, NEW on \in BOOLEAN,
               NEW flag \in {"PTE_1", "W"},
               Access(p) \/ BadAccess(p) \/ Store(p, d) \/ KernelAccess(p, write, d) \/ TurnFlag(p, flag, on)
        PROVE  HInv'
    BY Zenon, <2>1, SoundAfterUser
  <2>2. ASSUME NEW p \in Page, Access(p) \/ BadAccess(p) \/ PageFault(p) PROVE HInv'
    BY Zenon, <2>1, <2>2, SoundAfterPageFault
  <2>3. ASSUME NEW p \in Page, NEW d \in Data, Store(p, d) PROVE HInv'
    BY Zenon, <2>1, <2>3
  <2>4. ASSUME NEW p \in Page, NEW write \in BOOLEAN, NEW d \in Data, KernelAccess(p, write, d) PROVE HInv'
    BY Zenon, <2>1, <2>4
  <2>5. ASSUME NEW p \in Page, NEW flag \in {"PTE_1", "W"}, NEW on \in BOOLEAN, TurnFlag(p, flag, on) PROVE HInv'
    BY Zenon, <2>1, <2>5
  <2>6. ASSUME NEW n \in 1 .. MAX_TOTAL_PAGES, Sbrk(n) PROVE HInv'
    BY Zenon, <2>6, SoundAfterSbrk
  <2>7. CASE NoPte
    BY Zenon, <2>7, Stopped DEF NoPte, PC
  <2>. QED BY Zenon, <1>1, <2>2, <2>3, <2>4, <2>5, <2>6, <2>7, SoundAfterFork DEF User, Grow
<1>2. CASE AllocPage
  <2>1. CASE Remap
    BY Zenon, <2>1, Stopped DEF Remap, PC
  <2>. QED BY Zenon, <1>2, <2>1, SoundAfterMapPage DEF AllocPage, Present
<1>3. CASE Kernel
  BY Zenon, <1>2, <1>3, SoundAfterAllocDone, SoundAfterSecondChance, SoundAfterSwap,
     SoundAfterFaultRead, SoundAfterFaultCopy DEF Kernel
<1>4. CASE Shrinks
  BY Zenon, <1>4, SoundAfterShrink DEF Shrinks
<1>5. CASE NoMemory
  BY Zenon, <1>5, SoundAfterAllocFails, SoundAfterOthers DEF NoMemory
<1>6. ASSUME NEW d \in Data, OtherFault(d) PROVE HInv'
  BY Zenon, <1>6, SoundAfterOthers
<1>7. CASE UNCHANGED vars
  <2>1. UNCHANGED <<pc, sz, locals, flags, frame, monitors, disk, buff, free, mem, counters, val>>
    BY Zenon, <1>7 DEF vars, table, memory
  <2>. QED BY Zenon, <2>1, NoneMapped DEF HInv, TypeOK
<1>. QED BY Zenon, <1>1, <1>3, <1>4, <1>5, <1>6, <1>7, SoundAfterExec DEF Next
=============================================================================
