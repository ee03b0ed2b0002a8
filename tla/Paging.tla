------------------------------- MODULE Paging -------------------------------
(***************************************************************************)
(* The swap framework of one user process (pid > 2): its page table, the   *)
(* two monitors in struct proc, its swap file, and the frames it owns, as  *)
(* sbrk, page faults, page replacement, fork, exec and the page-protection *)
(* calls change them (vm.c, the end of fs.c, growproc and fork in proc.c,  *)
(* exec.c, the T_PGFLT case of trap.c).                                    *)
(*                                                                         *)
(* Addresses are page numbers: every operation here works on whole pages,  *)
(* and a size in bytes matters only through PGROUNDUP.  What a page holds  *)
(* is one abstract value.  The pgdir field of a monitor entry is left out: *)
(* outside exec every used entry carries the pgdir of its process.         *)
(***************************************************************************)
EXTENDS Integers, FiniteSets

CONSTANTS
  MAX_PYSC_PAGES,   \* entries of ram_monitor
  MAX_TOTAL_PAGES,  \* pages of the largest process
  Policy,           \* SELECTION in the Makefile: "LIFO" or "SCFIFO"
  ImagePages,       \* pages of the program image, guard and stack included
  Frames, NoFrame,  \* physical pages; NoFrame is address 0 in a pte
  Data, Zero,       \* what a page can hold; Zero is a page of zeroes
  MaxQueue          \* bound: no call that queues a page starts above it, and
                    \* no page fault is taken after as many

ASSUME PagingAssumption ==
  /\ MAX_PYSC_PAGES \in Nat /\ MAX_TOTAL_PAGES \in Nat /\ MaxQueue \in Nat
  /\ ImagePages \in 3 .. MAX_PYSC_PAGES
  /\ MAX_PYSC_PAGES < MAX_TOTAL_PAGES
  /\ Policy \in {"LIFO", "SCFIFO"}
  /\ NoFrame \notin Frames
  /\ Zero \in Data

Page    == 0 .. MAX_TOTAL_PAGES - 1
RamIdx  == 0 .. MAX_PYSC_PAGES - 1
SwapIdx == 0 .. MAX_TOTAL_PAGES - MAX_PYSC_PAGES - 1
Flag    == {"P", "W", "U", "A", "PG", "PTE_1"}

Text  == 0               \* the page the process makes its system calls from
Guard == ImagePages - 2  \* exec: the inaccessible page beneath the stack

VARIABLES
  pc,             \* "user", or where in the kernel the process is, or its end
  sz,             \* p->sz in pages
  newsz, cur,     \* allocuvm: size asked for, page being allocated
  req, np,        \* page being brought in by swap or page_from_disk, its frame
  page,           \* page_from_disk: the page it evicts
  flags, frame,   \* the page table
  ram_monitor, swap_monitor, last_in_queue,
  file, fsize,    \* the swap file: what its pages hold, how many it has
  buff,           \* the static page buffer of vm.c
  free, mem,      \* kalloc's free frames; what each frame holds
  pages_in_file, page_fault_counter,
  val             \* history: what the program last put in each of its pages

table    == <<flags, frame>>
monitors == <<ram_monitor, swap_monitor, last_in_queue>>
disk     == <<file, fsize>>
memory   == <<free, mem>>
counters == <<pages_in_file, page_fault_counter>>
locals   == <<newsz, cur, req, np, page>>
vars == <<pc, sz, locals, table, monitors, disk, buff, memory, counters, val>>

UsedRam  == {i \in RamIdx : ram_monitor[i].used}
FreeRam  == RamIdx \ UsedRam
UsedSwap == {i \in SwapIdx : swap_monitor[i].used}
FreeSwap == SwapIdx \ UsedSwap
Lowest(S) == CHOOSE i \in S : \A j \in S : i <= j

(* struct p_monitor, in ram_monitor and in swap_monitor.                   *)
Entry(used, p, place) == [used |-> used, p_va |-> p, place_in_queue |-> place]
Slot(used, p) == [used |-> used, p_va |-> p]

Present(p) == "P" \in flags[p]

(* The process runs user code: the page it runs from is mapped, and        *)
(* fetching from it has set PTE_A.                                         *)
Running == pc = "user" /\ {"P", "A"} \subseteq flags[Text]
-----------------------------------------------------------------------------
(* A process that has just run exec from clean monitors, such as the shell *)
(* that init starts again.  Its slot of ptable may be a recycled one:      *)
(* wait() clears used and keeps p_va.                                      *)
Init ==
  /\ pc = "user" /\ sz = ImagePages
  /\ newsz = 0 /\ cur = 0 /\ req = 0 /\ np = NoFrame /\ page = 0
  /\ flags = [p \in Page |-> IF p >= ImagePages THEN {}
                             ELSE IF p = Guard THEN {"P", "W"}
                             ELSE {"P", "W", "U"}]
  /\ frame \in [Page -> Frames \cup {NoFrame}]
  /\ \A p \in Page : p >= ImagePages <=> frame[p] = NoFrame
  /\ \A p, q \in 0 .. ImagePages - 1 : frame[p] = frame[q] => p = q
  /\ ram_monitor = [i \in RamIdx |->
        IF i < ImagePages THEN Entry(TRUE, i, i + 1) ELSE Entry(FALSE, 0, 0)]
  /\ swap_monitor \in [SwapIdx -> [used : {FALSE}, p_va : Page]]
  /\ last_in_queue = ImagePages
  /\ file = [i \in SwapIdx |-> Zero] /\ fsize = 0
  /\ buff = Zero
  /\ free = Frames \ {frame[p] : p \in 0 .. ImagePages - 1}
  /\ mem = [f \in Frames |-> Zero]
  /\ pages_in_file = 0 /\ page_fault_counter = 0
  /\ val = [p \in Page |-> Zero]
-----------------------------------------------------------------------------
(* The pieces the handlers share.                                          *)

(* Back to user mode: the handler's local variables are gone.              *)
Return ==
  /\ pc' = "user"
  /\ newsz' = 0 /\ cur' = 0 /\ req' = 0 /\ np' = NoFrame /\ page' = 0

(* Faulty variant of page_in: the pte keeps PTE_PG.                        *)
page_inKeepsPG(p, f, touched) ==
  /\ flags' = [flags EXCEPT ![p] = @ \cup {"P", "W", "U"} \cup touched]
  /\ frame' = [frame EXCEPT ![p] = f]

(* page_in, and PTE_A if the page is then filled through its user address. *)
page_in(p, f, touched) ==
  /\ flags' = [flags EXCEPT ![p] = (@ \cup {"P", "W", "U"} \cup touched) \ {"PG"}]
  /\ frame' = [frame EXCEPT ![p] = f]

(* Faulty variant of page_out: no kfree.                                   *)
page_outNoFree(p, touched) ==
  /\ flags' = [flags EXCEPT ![p] = (@ \cup {"PG"} \cup touched) \ {"P"}]
  /\ frame' = [frame EXCEPT ![p] = NoFrame]
  /\ UNCHANGED free

(* swap and page_from_disk page a victim out and give its frame back.      *)
(* write2file has read it through its user address, which sets PTE_A       *)
(* unless the translation is still in the TLB.                             *)
page_out(p, touched) ==
  /\ flags' = [flags EXCEPT ![p] = (@ \cup {"PG"} \cup touched) \ {"P"}]
  /\ frame' = [frame EXCEPT ![p] = NoFrame]
  /\ free' = free \cup {frame[p]}

add2ram(ram, p) ==
  LET unused == {i \in RamIdx : ~ ram[i].used}
  IN IF unused = {} THEN UNCHANGED last_in_queue /\ ram_monitor' = ram
     ELSE /\ last_in_queue' = last_in_queue + 1
          /\ ram_monitor' = [ram EXCEPT ![Lowest(unused)] =
               Entry(TRUE, p, last_in_queue + 1)]

(* write2file stores page p, holding d, in the lowest free slot.  It       *)
(* fails, unnoticed by its callers, when there is none or when writei      *)
(* refuses to leave a gap in the file.                                     *)
CanWrite == FreeSwap # {} /\ Lowest(FreeSwap) <= fsize

(* Faulty variant of write2file: each page goes to the end of the file.    *)
write2fileAppends(p, d) ==
  LET i == Lowest(FreeSwap)
  IN IF CanWrite
     THEN /\ file' = [file EXCEPT ![i] = d]
          /\ fsize' = fsize + 1
          /\ swap_monitor' = [swap_monitor EXCEPT ![i] = Slot(TRUE, p)]
     ELSE UNCHANGED <<disk, swap_monitor>>

write2file(p, d) ==
  LET i == Lowest(FreeSwap)
  IN IF CanWrite
     THEN /\ file' = [file EXCEPT ![i] = d]
          /\ fsize' = IF i = fsize THEN fsize + 1 ELSE fsize
          /\ swap_monitor' = [swap_monitor EXCEPT ![i] = Slot(TRUE, p)]
     ELSE UNCHANGED <<disk, swap_monitor>>

(* read_page_from_disk looks for p_va without looking at used.  readi      *)
(* refuses an offset beyond the end and reads nothing at the end.          *)
Matches(p) == {i \in SwapIdx : swap_monitor[i].p_va = p}

CanRead(p) == Matches(p) # {} /\ Lowest(Matches(p)) <= fsize

(* Faulty variant of PageRead: the search runs from the top.               *)
PageReadTop(p, old) ==
  LET i == CHOOSE j \in Matches(p) : \A k \in Matches(p) : k <= j
  IN IF Matches(p) # {} /\ i < fsize THEN file[i] ELSE old

PageRead(p, old) ==
  LET i == Lowest(Matches(p))
  IN IF CanRead(p) /\ i < fsize THEN file[i] ELSE old

(* Faulty variant of read_page_from_disk: the slot stays used.             *)
read_pageKeepsSlot(p, ram_idx) ==
  IF CanRead(p)
  THEN /\ last_in_queue' = last_in_queue + 1
       /\ ram_monitor' = [ram_monitor EXCEPT ![ram_idx] =
            Entry(swap_monitor[Lowest(Matches(p))].used, p, last_in_queue + 1)]
       /\ UNCHANGED swap_monitor
  ELSE UNCHANGED monitors

read_page_from_disk(p, ram_idx) ==
  IF CanRead(p)
  THEN /\ last_in_queue' = last_in_queue + 1
       /\ ram_monitor' = [ram_monitor EXCEPT ![ram_idx] =
            Entry(swap_monitor[Lowest(Matches(p))].used, p, last_in_queue + 1)]
       /\ swap_monitor' = [swap_monitor EXCEPT ![Lowest(Matches(p))] = Slot(FALSE, p)]
  ELSE UNCHANGED monitors

(* Faulty variant of Candidate: the oldest page whatever the policy.       *)
CandidateOldest ==
  CHOOSE i \in UsedRam : \A j \in UsedRam :
    ram_monitor[i].place_in_queue <= ram_monitor[j].place_in_queue

(* replace_page_by_policy without the second chances, which are steps.     *)
Candidate ==
  CHOOSE i \in UsedRam : \A j \in UsedRam :
    IF Policy = "LIFO"
    THEN ram_monitor[j].place_in_queue <= ram_monitor[i].place_in_queue
    ELSE ram_monitor[i].place_in_queue <= ram_monitor[j].place_in_queue

CandidatePage == ram_monitor[Candidate].p_va

Selected == UsedRam # {} /\ (Policy = "SCFIFO" => "A" \notin flags[CandidatePage])
-----------------------------------------------------------------------------
(* What user code does to its memory.                                      *)

Access(p) ==
  /\ pc = "user" /\ {"P", "U"} \subseteq flags[p]
  /\ flags' = [flags EXCEPT ![p] = @ \cup {"A"}]
  /\ UNCHANGED <<pc, sz, locals, frame, monitors, disk, buff, memory, counters, val>>

Store(p, d) ==
  /\ pc = "user" /\ {"P", "W", "U"} \subseteq flags[p]
  /\ flags' = [flags EXCEPT ![p] = @ \cup {"A"}]
  /\ mem' = [mem EXCEPT ![frame[p]] = d]
  /\ val' = [val EXCEPT ![p] = d]
  /\ UNCHANGED <<pc, sz, locals, frame, monitors, disk, buff, free, counters>>

(* trap: an access the page table refuses, to a page that was not paged    *)
(* out, kills the process; at an address without a page table see NoPte.   *)
BadAccess(p) ==
  /\ pc = "user" /\ "PG" \notin flags[p] /\ ~ ({"P", "W", "U"} \subseteq flags[p])
  /\ pc' = "killed"
  /\ UNCHANGED <<sz, locals, table, monitors, disk, buff, memory, counters, val>>

(* is_flag_on and turn_flag panic on an address that has no page table:    *)
(* trap calls the first for every fault before it kills, and both are      *)
(* system calls.  The pages of a process all lie in one page table, so     *)
(* this needs an address outside Page, and nothing else.                   *)
NoPte ==
  /\ pc = "user" /\ pc' = "panic_flag"
  /\ UNCHANGED <<sz, locals, table, monitors, disk, buff, memory, counters, val>>

(* A system call reads (write = FALSE) or fills a user page.  A fault in   *)
(* the kernel is never taken to page_from_disk.                            *)
KernelAccess(p, write, d) ==
  /\ Running /\ p < sz
  /\ IF Present(p) /\ (write => "W" \in flags[p])
     THEN /\ flags' = [flags EXCEPT ![p] = @ \cup {"A"}]
          /\ mem' = IF write THEN [mem EXCEPT ![frame[p]] = d] ELSE mem
          /\ val' = IF write THEN [val EXCEPT ![p] = d] ELSE val
          /\ pc' = pc
     ELSE pc' = "panic_trap" /\ UNCHANGED <<flags, mem, val>>
  /\ UNCHANGED <<sz, locals, frame, monitors, disk, buff, free, counters>>

(* turn_flag, as pmalloc, protect_page and pfree of umalloc.c call it on a *)
(* page of the heap; the page may be paged out.                            *)
TurnFlag(p, flag, on) ==
  /\ Running /\ ImagePages <= p /\ p < sz
  /\ \/ flag = "PTE_1" /\ on
     \/ flag = "W" /\ ~ on /\ "PTE_1" \in flags[p]
     \/ flag = "W" /\ on /\ "PTE_1" \in flags[p] /\ "W" \notin flags[p]
  /\ flags' = [flags EXCEPT ![p] = IF on THEN @ \cup {flag} ELSE @ \ {flag}]
  /\ UNCHANGED <<pc, sz, locals, frame, monitors, disk, buff, memory, counters, val>>
-----------------------------------------------------------------------------
(* sbrk(n), n > 0: growproc and the loop of allocuvm.                      *)
Sbrk(n) ==
  /\ Running /\ sz + n <= MAX_TOTAL_PAGES /\ last_in_queue < MaxQueue
  /\ pc' = "alloc" /\ newsz' = sz + n /\ cur' = sz
  /\ UNCHANGED <<sz, req, np, page, table, monitors, disk, buff, memory, counters, val>>

(* mappages panics on a page that is already mapped.                       *)
Remap ==
  /\ free # {} /\ pc' = "panic_remap"
  /\ UNCHANGED <<sz, locals, table, monitors, disk, buff, memory, counters, val>>

MapPage ==
  /\ \E f \in free :
       /\ free' = free \ {f}
       /\ mem' = [mem EXCEPT ![f] = Zero]
       /\ flags' = [flags EXCEPT ![cur] = {"P", "W", "U"}]
       /\ frame' = [frame EXCEPT ![cur] = f]
  /\ val' = [val EXCEPT ![cur] = Zero]
  /\ IF cur + 1 <= MAX_PYSC_PAGES
     THEN /\ add2ram(ram_monitor, cur)
          /\ cur' = cur + 1
          /\ UNCHANGED <<pc, req, pages_in_file>>
     ELSE /\ pc' = "swap" /\ req' = cur
          /\ pages_in_file' = pages_in_file + 1
          /\ UNCHANGED <<cur, ram_monitor, last_in_queue>>
  /\ UNCHANGED <<sz, newsz, np, page, swap_monitor, disk, buff, page_fault_counter>>

AllocPage ==
  /\ pc = "alloc" /\ cur < newsz
  /\ IF Present(cur) THEN Remap ELSE MapPage

(* Faulty variant of AllocDone: growproc does not store the new size.      *)
AllocDoneKeepsSz ==
  /\ pc = "alloc" /\ cur = newsz
  /\ Return
  /\ UNCHANGED <<sz, table, monitors, disk, buff, memory, counters, val>>

AllocDone ==
  /\ pc = "alloc" /\ cur = newsz
  /\ sz' = newsz /\ Return
  /\ UNCHANGED <<table, monitors, disk, buff, memory, counters, val>>

(* Faulty variants of SecondChance: PTE_A and the place are changed in a   *)
(* copy of the entry; the page is not requeued.                            *)
SecondChanceOnCopy ==
  /\ pc \in {"swap", "fault"} /\ UsedRam # {} /\ ~ Selected
  /\ UNCHANGED vars

SecondChanceInPlace ==
  /\ pc \in {"swap", "fault"} /\ UsedRam # {} /\ ~ Selected
  /\ flags' = [flags EXCEPT ![CandidatePage] = @ \ {"A"}]
  /\ UNCHANGED <<pc, sz, locals, frame, monitors, disk, buff, memory, counters, val>>

(* One round of the loop of select_SCFIFO that does not end it.            *)
SecondChance ==
  /\ pc \in {"swap", "fault"} /\ UsedRam # {} /\ ~ Selected
  /\ flags' = [flags EXCEPT ![CandidatePage] = @ \ {"A"}]
  /\ last_in_queue' = last_in_queue + 1
  /\ ram_monitor' = [ram_monitor EXCEPT ![Candidate] =
       Entry(TRUE, CandidatePage, last_in_queue + 1)]
  /\ UNCHANGED <<pc, sz, locals, frame, swap_monitor, disk, buff, memory, counters, val>>

(* write2file reads the victim through its user address, and kfree is      *)
(* given its frame: the kernel panics when it is not mapped.               *)
EvictAbsent(p) ==
  /\ ~ Present(p)
  /\ pc' = "panic_trap"
  /\ UNCHANGED <<sz, locals, table, monitors, disk, buff, memory, counters, val>>

(* select on a monitor with no used entry indexes it with -1.              *)
SelectNone ==
  /\ pc' = "wild"
  /\ UNCHANGED <<sz, locals, table, monitors, disk, buff, memory, counters, val>>

(* The rest of swap once the victim is chosen, back in allocuvm.           *)
Evict ==
  /\ Selected
  /\ \/ EvictAbsent(CandidatePage)
     \/ /\ Present(CandidatePage)
        /\ write2file(CandidatePage, mem[frame[CandidatePage]])
        /\ \E touched \in SUBSET {"A"} : page_out(CandidatePage, touched)
        /\ add2ram([ram_monitor EXCEPT ![Candidate] =
                      Entry(FALSE, CandidatePage, ram_monitor[Candidate].place_in_queue)], req)
        /\ pc' = "alloc" /\ cur' = cur + 1
        /\ UNCHANGED <<sz, newsz, req, np, page, buff, mem, counters, val>>

Swap ==
  /\ pc = "swap"
  /\ IF UsedRam = {} THEN SelectNone ELSE Evict
-----------------------------------------------------------------------------
(* T_PGFLT on a paged-out page, from user mode: page_from_disk up to the   *)
(* choice of a victim, or all of it when ram_monitor has a free entry.     *)
PageFault(p) ==
  /\ pc = "user" /\ "PG" \in flags[p]
  /\ last_in_queue < MaxQueue /\ page_fault_counter < MaxQueue
  /\ page_fault_counter' = page_fault_counter + 1
  /\ \E f \in free :
       /\ free' = free \ {f}
       /\ \/ /\ FreeRam # {}
             /\ page_in(p, f, {"A"})
             /\ mem' = [mem EXCEPT ![f] = PageRead(p, Zero)]
             /\ read_page_from_disk(p, Lowest(FreeRam))
             /\ UNCHANGED <<pc, req, np, pages_in_file>>
          \/ /\ FreeRam = {}
             /\ mem' = [mem EXCEPT ![f] = Zero]
             /\ pages_in_file' = pages_in_file + 1
             /\ pc' = "fault" /\ req' = p /\ np' = f
             /\ UNCHANGED <<table, monitors>>
  /\ UNCHANGED <<sz, newsz, cur, page, disk, buff, val>>

(* The victim is chosen: map the new frame and read the page into buff.    *)
FaultRead ==
  /\ pc = "fault" /\ Selected
  /\ page' = CandidatePage
  /\ page_in(req, np, {})
  /\ buff' = PageRead(req, buff)
  /\ read_page_from_disk(req, Candidate)
  /\ pc' = "copy"
  /\ UNCHANGED <<sz, newsz, cur, req, np, disk, memory, counters, val>>

(* The read has slept and returned: copy buff, then page the victim out.   *)
FaultCopy ==
  /\ pc = "copy"
  /\ \/ EvictAbsent(page)
     \/ /\ Present(page)
        /\ mem' = [mem EXCEPT ![np] = buff]
        /\ write2file(page, mem'[frame[page]])
        /\ page_out(page, {"A"})
        /\ Return
        /\ UNCHANGED <<sz, ram_monitor, last_in_queue, buff, counters, val>>
-----------------------------------------------------------------------------
(* copyuvm copies the pages below sz and panics on one that is absent.     *)
copyuvm == \A p \in 0 .. sz - 1 : Present(p)

(* copyParentSwapFile fails on a used slot above an unused one, which      *)
(* would leave a gap in the child's empty file; fork panics then.          *)
copyParentSwapFile == ~ \E i \in UsedSwap, j \in FreeSwap : j < i

(* fork.  The model goes on as the child, whose frames keep the names of   *)
(* the parent's; as the parent nothing here changes.                       *)
Fork ==
  /\ Running
  /\ IF ~ copyuvm
     THEN pc' = "panic_copyuvm" /\ UNCHANGED <<table, disk, counters>>
     ELSE IF ~ copyParentSwapFile
     THEN pc' = "panic_swapfile" /\ UNCHANGED <<table, disk, counters>>
     ELSE /\ flags' = [p \in Page |-> IF p < sz THEN flags[p] ELSE {}]
          /\ frame' = [p \in Page |-> IF p < sz THEN frame[p] ELSE NoFrame]
          /\ fsize' = Cardinality(UsedSwap)
          /\ file' = [i \in SwapIdx |-> IF i \in UsedSwap THEN file[i] ELSE Zero]
          /\ pages_in_file' = 0 /\ page_fault_counter' = 0
          /\ pc' = pc
  /\ UNCHANGED <<sz, locals, monitors, buff, memory, val>>

Grow == \E n \in 1 .. MAX_TOTAL_PAGES : Sbrk(n)

User ==
  \/ \E p \in Page : Access(p) \/ BadAccess(p) \/ PageFault(p)
  \/ \E p \in Page, d \in Data : Store(p, d)
  \/ \E p \in Page, write \in BOOLEAN, d \in Data : KernelAccess(p, write, d)
  \/ \E p \in Page, flag \in {"PTE_1", "W"}, on \in BOOLEAN : TurnFlag(p, flag, on)
  \/ NoPte \/ Grow \/ Fork

Kernel ==
  \/ AllocPage \/ AllocDone
  \/ SecondChance \/ Swap
  \/ FaultRead \/ FaultCopy

Next == User \/ Kernel

Spec == Init /\ [][Next]_vars

(* The kernel runs its handlers to the end, and the disk answers.          *)
FairSpec == Spec /\ WF_vars(Kernel)
-----------------------------------------------------------------------------
PC == {"user", "alloc", "swap", "fault", "copy",
       "killed", "panic_trap", "panic_copyuvm", "panic_swapfile",
       "panic_remap", "panic_flag", "wild"}

TypeOK ==
  /\ pc \in PC
  /\ sz \in 0 .. MAX_TOTAL_PAGES /\ newsz \in 0 .. MAX_TOTAL_PAGES
  /\ cur \in 0 .. MAX_TOTAL_PAGES
  /\ req \in Page /\ page \in Page /\ np \in Frames \cup {NoFrame}
  /\ flags \in [Page -> SUBSET Flag]
  /\ frame \in [Page -> Frames \cup {NoFrame}]
  /\ ram_monitor \in [RamIdx -> [used : BOOLEAN, p_va : Page, place_in_queue : Nat]]
  /\ swap_monitor \in [SwapIdx -> [used : BOOLEAN, p_va : Page]]
  /\ last_in_queue \in Nat
  /\ file \in [SwapIdx -> Data] /\ fsize \in 0 .. MAX_TOTAL_PAGES - MAX_PYSC_PAGES
  /\ buff \in Data /\ free \in SUBSET Frames /\ mem \in [Frames -> Data]
  /\ pages_in_file \in Nat /\ page_fault_counter \in Nat
  /\ val \in [Page -> Data]

InKernel == pc \in {"alloc", "swap", "fault", "copy"}
Alive    == pc = "user" \/ InKernel

Limit == IF pc = "alloc" THEN cur ELSE IF pc = "swap" THEN cur + 1 ELSE sz

Resident == {p \in Page : Present(p)}
Out      == {p \in Page : "PG" \in flags[p]}
Entered  == {ram_monitor[i].p_va : i \in UsedRam}

(* A page swap or page_from_disk has mapped beyond ram_monitor's entries.  *)
Extra == IF pc = "swap" THEN {req} ELSE IF pc = "copy" THEN {page} ELSE {}

(* ram_monitor names every resident page, once, and no other page: what    *)
(* select_LIFO and select_SCFIFO choose from is what can be evicted.       *)
RamExact ==
  Alive => /\ Resident = Entered \cup Extra
           /\ Entered \cap Extra = {}
           /\ \A i, j \in UsedRam : ram_monitor[i].p_va = ram_monitor[j].p_va => i = j

(* A page is either resident or paged out, and a used slot of swap_monitor *)
(* stands for every page that is paged out (PTE_PG), and for no other.     *)
SwapExact ==
  Alive => /\ Resident \cup Out = 0 .. Limit - 1
           /\ Resident \cap Out = {}
           /\ Out = {swap_monitor[i].p_va : i \in UsedSwap}

(* read_page_from_disk takes the first slot whose p_va matches and never   *)
(* looks at used: no slot below a used one may carry the same address.     *)
FirstMatch ==
  Alive => \A i \in SwapIdx, j \in UsedSwap :
             i < j => swap_monitor[i].p_va # swap_monitor[j].p_va

(* No callers look at the result of write2file: when a page leaves memory  *)
(* it is mapped, there is a free slot for it and the file has no gap.      *)
NothingLost ==
  /\ pc = "swap" => UsedRam # {} /\ CanWrite
  /\ pc = "copy" => Present(page) /\ CanWrite

(* The two monitors say the truth about every page, whenever a victim may  *)
(* be chosen or a page looked up, and every exchange can be carried out.   *)
MonitorsExact == RamExact /\ SwapExact /\ FirstMatch /\ NothingLost

(* What the program wrote is what it will read: in the page's frame, in    *)
(* the swap slot read_page_from_disk would find, or on its way in buff.    *)
Holds(p) ==
  IF p \in Out THEN PageRead(p, Zero)
  ELSE IF pc = "copy" /\ p = req THEN buff
  ELSE mem[frame[p]]

DataIntact == Alive => \A p \in 0 .. Limit - 1 : Holds(p) = val[p]

(* Frames are neither shared nor leaked: each is free, mapped by one page, *)
(* or waiting in page_from_disk to be mapped.                              *)
FramesConserved ==
  Alive => /\ \A p, q \in Resident : frame[p] = frame[q] => p = q
           /\ LET owned == {frame[p] : p \in Resident} \cup (IF pc = "fault" THEN {np} ELSE {})
              IN free = Frames \ owned
           /\ pc = "fault" => \A p \in Resident : frame[p] # np

(* "In any given time, a process should have no more than MAX_PSYC_PAGES   *)
(* pages in the physical memory" (README.md:197), whenever user code runs; *)
(* swap and page_from_disk hold one more while they exchange two pages.    *)
ResidentBound ==
  Alive => Cardinality(Resident) <= MAX_PYSC_PAGES + (IF pc \in {"swap", "copy"} THEN 1 ELSE 0)

(* As long as a process keeps to addresses that have a page table (NoPte   *)
(* is any other), the kernel panics only for what the framework does not   *)
(* support: a fork or a system call that meets a page that is paged out,   *)
(* or a system call that fills a protected page.  No process that stays    *)
(* within MAX_PYSC_PAGES meets the first two.                              *)
PanicsExplained ==
  /\ pc \notin {"panic_remap", "panic_swapfile", "wild"}
  /\ pc = "panic_copyuvm" => Out # {} /\ MAX_PYSC_PAGES < sz
  /\ pc = "panic_trap" => \/ Out # {} /\ MAX_PYSC_PAGES < sz
                          \/ \E p \in Page : "PTE_1" \in flags[p] /\ "W" \notin flags[p]

(* The counters that procdump prints agree with the page table: pages      *)
(* written out less pages faulted in are the pages that are out now.       *)
CountersAgree == pc = "user" => pages_in_file - page_fault_counter = Cardinality(Out)

(* A page fault ends, and with the page mapped ("should not generate a     *)
(* page fault now", README.md:251): the loop of select_SCFIFO terminates.  *)
FaultServed ==
  \A p \in Page : (pc = "fault" /\ req = p) ~> (pc = "user" /\ Present(p))

(* sbrk returns: allocuvm and the evictions it needs come to an end.       *)
SbrkReturns == pc = "alloc" ~> pc = "user"

(* Whatever has to be paged in or out for it, the kernel returns to user   *)
(* code.                                                                   *)
PagingEnds == FaultServed /\ SbrkReturns
=============================================================================
