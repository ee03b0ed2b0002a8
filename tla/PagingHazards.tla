--------------------------- MODULE PagingHazards ----------------------------
(***************************************************************************)
(* The calls and the surroundings that Paging!Spec leaves out, because     *)
(* after them the monitors no longer describe the page table: sbrk with a  *)
(* negative argument, a second exec, a kalloc that fails, and another      *)
(* process whose page fault uses the page buffer that all processes share. *)
(***************************************************************************)
EXTENDS Paging

(* Faulty variant of deallocuvm: the pte is not cleared.                   *)
deallocuvmKeepsPte(range) ==
  LET gone == range \cap Resident
  IN /\ UNCHANGED table
     /\ free' = free \cup {frame[p] : p \in gone}
     /\ ram_monitor' = [i \in RamIdx |->
          IF ram_monitor[i].p_va \in gone THEN [ram_monitor[i] EXCEPT !.used = FALSE]
          ELSE ram_monitor[i]]

(* deallocuvm over a range of pages.  It frees what is present and drops   *)
(* its monitor entry; a page that is not present it passes over, so its    *)
(* pte keeps PTE_PG and its slot of swap_monitor stays used.               *)
deallocuvm(range) ==
  LET gone == range \cap Resident
  IN /\ flags' = [p \in Page |-> IF p \in gone THEN {} ELSE flags[p]]
     /\ frame' = [p \in Page |-> IF p \in gone THEN NoFrame ELSE frame[p]]
     /\ free' = free \cup {frame[p] : p \in gone}
     /\ ram_monitor' = [i \in RamIdx |->
          IF ram_monitor[i].p_va \in gone THEN [ram_monitor[i] EXCEPT !.used = FALSE]
          ELSE ram_monitor[i]]

(* sbrk(n), n < 0.                                                         *)
Shrink(n) ==
  /\ Running /\ n < sz
  /\ deallocuvm(n .. sz - 1)
  /\ sz' = n
  /\ UNCHANGED <<pc, locals, swap_monitor, last_in_queue, disk, buff, mem, counters, val>>

(* allocuvm runs out of memory and takes back the pages it added.          *)
AllocFails ==
  /\ pc = "alloc" /\ cur < newsz /\ free = {}
  /\ deallocuvm(sz .. newsz - 1)
  /\ Return
  /\ UNCHANGED <<sz, swap_monitor, last_in_queue, disk, buff, mem, counters, val>>

(* page_from_disk does not look at what kalloc returned: memset clears the *)
(* process's own page 0 and the pte is pointed at no memory at all.        *)
FaultFails(p) ==
  /\ pc = "user" /\ "PG" \in flags[p] /\ free = {}
  /\ page_fault_counter' = page_fault_counter + 1
  /\ \/ ~ ({"P", "W"} \subseteq flags[0]) /\ pc' = "panic_trap" /\ UNCHANGED mem
     \/ {"P", "W"} \subseteq flags[0] /\ pc' = "wild" /\ mem' = [mem EXCEPT ![frame[0]] = Zero]
  /\ UNCHANGED <<sz, locals, table, monitors, disk, buff, free, pages_in_file, val>>

(* Another process takes a frame.                                          *)
OtherKalloc ==
  /\ \E f \in free : free' = free \ {f}
  /\ UNCHANGED <<pc, sz, locals, table, monitors, disk, buff, mem, counters, val>>

(* exec of a program of n pages: the new image is entered in what is free  *)
(* of ram_monitor, add2ram dropping what does not fit; the old image's     *)
(* entries are kept and handed to the new page table before freevm looks   *)
(* for entries of the old one.                                             *)
Rank(i) == Cardinality({j \in FreeRam : j < i})

EnterImage(n) ==
  /\ ram_monitor' = [i \in RamIdx |->
       IF i \in FreeRam /\ Rank(i) < n
       THEN [used |-> TRUE, p_va |-> Rank(i), place_in_queue |-> last_in_queue + Rank(i) + 1]
       ELSE ram_monitor[i]]
  /\ last_in_queue' = last_in_queue +
       (IF Cardinality(FreeRam) < n THEN Cardinality(FreeRam) ELSE n)

Exec(n) ==
  /\ Running /\ last_in_queue < MaxQueue
  /\ \E image \in [0 .. n - 1 -> free] :
       /\ \A p, q \in DOMAIN image : image[p] = image[q] => p = q
       /\ frame' = [p \in Page |-> IF p < n THEN image[p] ELSE NoFrame]
       /\ free' = (free \ {image[p] : p \in DOMAIN image}) \cup {frame[p] : p \in Resident}
       /\ mem' = [f \in Frames |-> IF \E p \in DOMAIN image : image[p] = f THEN Zero ELSE mem[f]]
  /\ flags' = [p \in Page |-> IF p >= n THEN {} ELSE IF p = n - 2 THEN {"P", "W"} ELSE {"P", "W", "U"}]
  /\ EnterImage(n)
  /\ sz' = n
  /\ val' = [p \in Page |-> IF p < n THEN Zero ELSE val[p]]
  /\ UNCHANGED <<pc, locals, swap_monitor, disk, buff, counters>>

(* While this process sleeps in read_page_from_disk, the page fault of     *)
(* another one reads its own page into buff.                               *)
OtherFault(d) ==
  /\ pc = "copy" /\ buff' = d
  /\ UNCHANGED <<pc, sz, locals, table, monitors, disk, memory, counters, val>>

Shrinks == \E n \in 1 .. MAX_TOTAL_PAGES : Shrink(n)
NoMemory == OtherKalloc \/ AllocFails \/ \E p \in Page : FaultFails(p)

ShrinkSpec == Init /\ [][Next \/ Shrinks]_vars
SharedSpec == Init /\ [][Next \/ \E d \in Data : OtherFault(d)]_vars

HazardSpec ==
  Init /\ [][Next \/ Shrinks \/ Exec(ImagePages) \/ NoMemory \/ \E d \in Data : OtherFault(d)]_vars

(* Whatever the monitors have come to say, no frame is given away while it *)
(* is still mapped: pages that are lost or stale never share memory with   *)
(* another page, of this process or of a later owner of the frame.         *)
FramesSound ==
  Alive => /\ \A p, q \in Resident : frame[p] = frame[q] => p = q
           /\ \A p \in Resident : frame[p] \in Frames \ free
           /\ pc = "fault" => np \in Frames \ free /\ \A p \in Resident : frame[p] # np
-----------------------------------------------------------------------------
(* What the documents and comments of the repository promise and the code  *)
(* does not do.                                                            *)

(* "make sure that xv6 can still support a fork system call"               *)
(* (README.md:260): fork never panics in copyuvm.                          *)
ForkSupported == pc # "panic_copyuvm"

(* "any attempt to write on a protected page will lead to process          *)
(* termination" (README.md:101): only pfree makes a protected page         *)
(* writable again.                                                         *)
ProtectionKept ==
  [][\A p \in Page : {"PTE_1", "W"} \cap flags[p] = {"PTE_1"} /\ "W" \in flags'[p]
                      => TurnFlag(p, "W", TRUE)]_vars
=============================================================================
