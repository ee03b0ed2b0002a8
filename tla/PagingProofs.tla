---------------------------- MODULE PagingProofs ----------------------------
(***************************************************************************)
(* What is proved of Paging, for every number of pages, frames and data    *)
(* values and for both policies: its type invariant, the safety of the     *)
(* page table, the monitors, the swap file and the frames, why the kernel  *)
(* panics on behalf of a process, what procdump prints, and what is left   *)
(* of all this after the calls of PagingHazards.  First, the other steps   *)
(* that preserve the invariant: page_from_disk, in its three parts, fork.  *)
(***************************************************************************)
EXTENDS PagingInvariant

USE PagingAssumption DEF Page, RamIdx, SwapIdx

(* A paged-out page has one slot, below the end of the file; it is the     *)
(* first one that carries the page's address, and it holds its contents.   *)
LEMMA FindSlot ==
  ASSUME IInv, Alive, NEW p \in Page, "PG" \in flags[p]
  PROVE  \E h \in SwapIdx :
           /\ InSlot(h) /\ swap_monitor[h].used /\ swap_monitor[h].p_va = p
           /\ h < fsize /\ CanRead(p) /\ Lowest(Matches(p)) = h
           /\ file[h] = val[p] /\ \A old : PageRead(p, old) = val[p]
           /\ MAX_PYSC_PAGES < Base
<1>. TypeOK /\ Control /\ Shape /\ Distinct /\ Agree /\ Owned /\ Contents
  BY Zenon DEF IInv
<1>1. PICK h \in SwapIdx : swap_monitor[h].used /\ swap_monitor[h].p_va = p
  BY Zenon DEF Agree, HasSlot
<1>2. Base \in Nat
  BY DEF Base, TypeOK
<1>3. InSlot(h) /\ h < fsize /\ MAX_PYSC_PAGES < Base
  BY SMTT(30), <1>1, <1>2 DEF Shape, InSlot
<1>4. h \in Matches(p) /\ \A j \in Matches(p) : h <= j
  <2>1. \A j \in SwapIdx : swap_monitor[j].p_va = p /\ InSlot(j) => j = h
    BY Zenon, <1>1, <1>3 DEF Distinct
  <2>2. \A j \in SwapIdx : ~ InSlot(j) => h <= j
    BY <1>2, <1>3 DEF InSlot
  <2>. QED BY <1>1, <2>1, <2>2 DEF Matches
<1>5. Lowest(Matches(p)) = h
  <2>1. Matches(p) \in SUBSET Nat
    BY DEF Matches
  <2>. QED BY Zenon, <1>4, <2>1, LowestIs
<1>6. CanRead(p)
  BY SMTT(30), <1>3, <1>4, <1>5 DEF CanRead, TypeOK
<1>7. file[h] = val[p]
  BY Zenon, <1>1 DEF Contents
<1>8. \A old : PageRead(p, old) = val[p]
  BY Zenon, <1>3, <1>5, <1>6, <1>7 DEF PageRead
<1>. QED BY Zenon, <1>1, <1>3, <1>5, <1>6, <1>7, <1>8

(* A fault finds every entry used: page_from_disk has to evict.            *)
LEMMA PageFaultStep ==
  ASSUME IInv, NEW p \in Page, PageFault(p)
  PROVE  IInv'
<1>. pc = "user" /\ "PG" \in flags[p]
  BY Zenon DEF PageFault
<1>. TypeOK /\ Control /\ Shape /\ Distinct /\ Agree /\ Owned /\ Contents /\ Alive
  BY Zenon DEF IInv, Alive
<1>1. MAX_PYSC_PAGES < sz /\ sz \in Nat
  <2>1. MAX_PYSC_PAGES < Base
    BY Zenon, FindSlot
  <2>. QED BY <2>1 DEF Base, TypeOK
<1>2. FreeRam = {}
  BY <1>1 DEF FreeRam, UsedRam, Shape, Base
<1>3. PICK f \in free :
        /\ free' = free \ {f}
        /\ mem' = [mem EXCEPT ![f] = Zero]
        /\ pages_in_file' = pages_in_file + 1
        /\ pc' = "fault" /\ req' = p /\ np' = f
        /\ UNCHANGED <<flags, frame, ram_monitor, swap_monitor, last_in_queue>>
  BY Zenon, <1>2 DEF PageFault, table, monitors
<1>4. /\ page_fault_counter' = page_fault_counter + 1
      /\ UNCHANGED <<sz, newsz, cur, page, file, fsize, buff, val>>
  BY Zenon DEF PageFault, disk
<1>5. Base' = Base /\ Limit' = Limit
  BY ZenonT(40), <1>3, <1>4 DEF Base, Limit
<1>6. TypeOK'
  BY <1>3, <1>4 DEF TypeOK, PC
<1>7. Control'
  BY Zenon, <1>1, <1>3, <1>4 DEF Control
<1>8. Shape' /\ Distinct'
  BY Zenon, <1>3, <1>4, <1>5 DEF Shape, Distinct, InSlot
<1>9. Agree'
  BY ZenonT(40), <1>3, <1>4, <1>5 DEF Agree, HasEntry, HasSlot, IsExtra
<1>10. Owned'
  BY <1>3, <1>4 DEF Owned, TypeOK
<1>11. Contents'
  <2>1. \A q \in Page : "P" \in flags[q] => mem'[frame[q]] = mem[frame[q]]
    BY <1>3 DEF Owned, TypeOK
  <2>. QED BY ZenonT(40), <1>3, <1>4, <2>1 DEF Contents
<1>. QED BY ZenonT(40), <1>6, <1>7, <1>8, <1>9, <1>10, <1>11 DEF IInv

(* The page is mapped in its new frame and takes over the victim's entry;  *)
(* its slot becomes the hole that the victim will fill.                    *)
LEMMA FaultReadStep ==
  ASSUME IInv, FaultRead
  PROVE  IInv'
<1>. DEFINE c == Candidate
            v == CandidatePage
<1>. pc = "fault" /\ Alive
  BY Zenon DEF FaultRead, Alive, InKernel
<1>. TypeOK /\ Control /\ Shape /\ Distinct /\ Agree /\ Owned /\ Contents
  BY Zenon DEF IInv
<1>1. /\ \A i \in RamIdx : ram_monitor[i].used
      /\ c \in RamIdx /\ v \in Page /\ v = ram_monitor[c].p_va
      /\ "P" \in flags[v] /\ "PG" \notin flags[v]
  BY Zenon, FullRam DEF CandidatePage
<1>2. req \in Page /\ "PG" \in flags[req] /\ "P" \notin flags[req] /\ req # v
  BY Zenon, <1>1 DEF Control, TypeOK, Agree
<1>3. PICK h \in SwapIdx :
        /\ InSlot(h) /\ swap_monitor[h].used /\ swap_monitor[h].p_va = req
        /\ h < fsize /\ CanRead(req) /\ Lowest(Matches(req)) = h
        /\ PageRead(req, buff) = val[req]
  BY Zenon, <1>2, FindSlot
<1>4. /\ ram_monitor' = [ram_monitor EXCEPT ![c] = Entry(swap_monitor[h].used, req, last_in_queue + 1)]
      /\ last_in_queue' = last_in_queue + 1
      /\ swap_monitor' = [swap_monitor EXCEPT ![h] = Slot(FALSE, req)]
  BY ZenonT(30), <1>3 DEF FaultRead, read_page_from_disk
<1>5. /\ flags' = [flags EXCEPT ![req] = (@ \cup {"P", "W", "U"} \cup {}) \ {"PG"}]
      /\ frame' = [frame EXCEPT ![req] = np]
      /\ pc' = "copy" /\ page' = v /\ buff' = val[req]
      /\ UNCHANGED <<sz, newsz, cur, req, np, file, fsize, free, mem, pages_in_file, page_fault_counter, val>>
  BY ZenonT(40), <1>3 DEF FaultRead, page_in, disk, memory, counters
<1>6. Base' = Base /\ Limit' = Limit /\ Base = sz /\ MAX_PYSC_PAGES < sz /\ sz \in Nat
  BY <1>5 DEF Base, Limit, Control, TypeOK
<1>7. TypeOK'
  <2>1. pc' \in PC /\ page' \in Page /\ buff' \in Data
    BY Zenon, <1>1, <1>2, <1>5 DEF TypeOK, PC
  <2>2. flags' \in [Page -> SUBSET Flag] /\ frame' \in [Page -> Frames \cup {NoFrame}]
    BY Zenon, <1>2, <1>5 DEF TypeOK, Flag
  <2>3. /\ ram_monitor' \in [RamIdx -> [used : BOOLEAN, p_va : Page, place_in_queue : Nat]]
        /\ last_in_queue' \in Nat
    BY SMTT(30), <1>1, <1>2, <1>4 DEF TypeOK, Entry
  <2>4. swap_monitor' \in [SwapIdx -> [used : BOOLEAN, p_va : Page]]
    BY Zenon, <1>2, <1>4 DEF TypeOK, Slot
  <2>. QED BY ZenonT(40), <1>5, <2>1, <2>2, <2>3, <2>4 DEF TypeOK
<1>8. /\ \A p \in Page : "P" \in flags'[p] <=> "P" \in flags[p] \/ p = req
      /\ \A p \in Page : "PG" \in flags'[p] <=> "PG" \in flags[p] /\ p # req
  BY Zenon, <1>2, <1>5 DEF TypeOK
<1>9. Control'
  BY Zenon, <1>1, <1>2, <1>5, <1>8 DEF Control
<1>10. /\ \A i \in RamIdx \ {c} : ram_monitor'[i] = ram_monitor[i]
       /\ ram_monitor'[c].used /\ ram_monitor'[c].p_va = req
       /\ ram_monitor'[c].place_in_queue = last_in_queue'
  BY Zenon, <1>1, <1>3, <1>4 DEF TypeOK, Entry
<1>11. /\ \A i \in SwapIdx \ {h} : swap_monitor'[i] = swap_monitor[i]
       /\ ~ swap_monitor'[h].used /\ swap_monitor'[h].p_va = req
  BY Zenon, <1>4 DEF TypeOK, Slot
<1>12. \A i \in SwapIdx : InSlot(i)' <=> InSlot(i)
  BY Zenon, <1>6 DEF InSlot
<1>13. \A i \in SwapIdx \ {h} : InSlot(i) => swap_monitor[i].p_va # req
  BY Zenon, <1>3 DEF Distinct
<1>14. Shape'
  <2>1. \A i \in RamIdx : ram_monitor[i].place_in_queue <= last_in_queue + 1
    BY SMTT(30) DEF Shape, TypeOK
  <2>2. last_in_queue' \in Nat
    BY Zenon, <1>7 DEF TypeOK
  <2>3. \A i \in RamIdx \ {c} : ram_monitor'[i].used /\ ram_monitor'[i].place_in_queue <= last_in_queue'
    BY ZenonT(40), <1>1, <1>4, <1>10, <2>1
  <2>4. \A i \in RamIdx : /\ (ram_monitor'[i].used <=> i < Base')
                          /\ ram_monitor'[i].place_in_queue <= last_in_queue'
    BY SMTT(30), <1>6, <1>10, <2>2, <2>3
  <2>5. \A i \in SwapIdx : swap_monitor'[i].used <=>
           InSlot(i)' /\ ~ (pc' = "copy" /\ swap_monitor'[i].p_va = req')
    BY Zenon, <1>5, <1>11, <1>12, <1>13 DEF Shape
  <2>6. fsize' = IF Base' <= MAX_PYSC_PAGES THEN 0 ELSE Base' - MAX_PYSC_PAGES
    BY Zenon, <1>5, <1>6 DEF Shape
  <2>. QED BY ZenonT(40), <1>3, <1>5, <1>11, <1>12, <2>4, <2>5, <2>6 DEF Shape
<1>15. /\ \A p \in Page : HasEntry(p)' <=> (HasEntry(p) /\ p # v) \/ p = req
       /\ \A p \in Page : HasSlot(p)' <=> HasSlot(p) /\ p # req
  <2>1. \A i \in RamIdx \ {c} : ram_monitor[i].p_va # v
    BY Zenon, <1>1 DEF Distinct
  <2>2. \A p \in Page : HasEntry(p)' <=> (HasEntry(p) /\ p # v) \/ p = req
    BY Zenon, <1>1, <1>10, <2>1 DEF HasEntry
  <2>3. \A i \in SwapIdx \ {h} : swap_monitor[i].used => swap_monitor[i].p_va # req
    BY Zenon, <1>13 DEF Shape
  <2>4. \A p \in Page : HasSlot(p)' <=> HasSlot(p) /\ p # req
    BY <1>3, <1>11, <2>3 DEF HasSlot
  <2>. QED BY Zenon, <2>2, <2>4
<1>16. Distinct'
  <2>1. \A i \in RamIdx : ram_monitor[i].p_va # req
    BY Zenon, <1>1, <1>2 DEF Agree, HasEntry
  <2>2. \A i, j \in RamIdx : i # j => ram_monitor'[i].p_va # ram_monitor'[j].p_va
    BY SMTT(30), <1>1, <1>10, <2>1 DEF Distinct
  <2>3. \A i \in SwapIdx : swap_monitor'[i].p_va = swap_monitor[i].p_va
    BY Zenon, <1>3, <1>11
  <2>. QED BY ZenonT(40), <1>12, <2>2, <2>3 DEF Distinct
<1>17. Agree'
  BY ZenonT(40), <1>1, <1>2, <1>5, <1>6, <1>8, <1>15 DEF Agree, IsExtra
<1>18. Owned'
  <2>1. \A p \in Page : p # req => frame'[p] = frame[p]
    BY Zenon, <1>5 DEF TypeOK
  <2>2. frame'[req] = np
    BY ZenonT(40), <1>2, <1>5 DEF TypeOK
  <2>. QED BY SMTT(30), <1>2, <1>5, <1>8, <2>1, <2>2 DEF Owned
<1>19. Contents'
  <2>1. \A p \in Page : p # req => frame'[p] = frame[p]
    BY Zenon, <1>5 DEF TypeOK
  <2>. QED BY SMTT(30), <1>5, <1>8, <1>11, <2>1 DEF Contents
<1>. QED BY ZenonT(40), <1>7, <1>9, <1>14, <1>16, <1>17, <1>18, <1>19 DEF IInv

(* The victim fills the hole that the page read in has left.               *)
LEMMA FaultCopyStep ==
  ASSUME IInv, FaultCopy
  PROVE  IInv'
<1>. pc = "copy" /\ Alive
  BY Zenon DEF FaultCopy, Alive, InKernel
<1>. TypeOK /\ Control /\ Shape /\ Distinct /\ Agree /\ Owned /\ Contents
  BY Zenon DEF IInv
<1>1. /\ req \in Page /\ page \in Page /\ req # page
      /\ "P" \in flags[req] /\ "P" \in flags[page] /\ "PG" \notin flags[page]
  BY Zenon DEF Control, TypeOK, Agree
<1>2. /\ mem' = [mem EXCEPT ![np] = buff]
      /\ write2file(page, mem'[frame[page]]) /\ page_out(page, {"A"})
      /\ pc' = "user" /\ newsz' = 0 /\ cur' = 0 /\ req' = 0 /\ np' = NoFrame /\ page' = 0
      /\ UNCHANGED <<sz, ram_monitor, last_in_queue, buff, pages_in_file, page_fault_counter, val>>
  BY ZenonT(40), <1>1 DEF FaultCopy, EvictAbsent, Present, Return, counters
<1>3. Base' = Base /\ Limit' = Limit /\ Base = sz /\ MAX_PYSC_PAGES < sz /\ sz \in Nat
  BY <1>2 DEF Base, Limit, Control, TypeOK
<1>4. PICK h \in SwapIdx : InSlot(h) /\ swap_monitor[h].p_va = req
  BY Zenon DEF Shape
<1>5. \A i \in SwapIdx : swap_monitor[i].used <=> InSlot(i) /\ i # h
  BY Zenon, <1>4 DEF Shape, Distinct
<1>6. h < fsize
  BY <1>3, <1>4 DEF Shape, InSlot
<1>7. /\ file' = [file EXCEPT ![h] = mem'[frame[page]]]
      /\ fsize' = fsize
      /\ swap_monitor' = [swap_monitor EXCEPT ![h] = Slot(TRUE, page)]
  <2>1. h \in FreeSwap /\ \A j \in FreeSwap : h <= j
    BY <1>3, <1>4, <1>5 DEF FreeSwap, UsedSwap, InSlot
  <2>2. h <= fsize /\ h # fsize
    BY <1>6 DEF TypeOK
  <2>. QED BY ZenonT(60), <1>2, <2>1, <2>2, WriteAt
<1>8. /\ flags' = [flags EXCEPT ![page] = (@ \cup {"PG"} \cup {"A"}) \ {"P"}]
      /\ frame' = [frame EXCEPT ![page] = NoFrame]
      /\ free' = free \cup {frame[page]}
  BY Zenon, <1>2 DEF page_out
<1>9. /\ np \in Frames /\ frame[req] = np /\ frame[page] \in Frames /\ frame[page] # np
  BY <1>1 DEF Owned
<1>10. mem'[frame[page]] = val[page] /\ mem'[np] = val[req]
  BY Zenon, <1>1, <1>2, <1>9 DEF Contents, TypeOK
<1>11. TypeOK'
  <2>1. flags' \in [Page -> SUBSET Flag] /\ frame' \in [Page -> Frames \cup {NoFrame}]
    BY Zenon, <1>1, <1>8 DEF TypeOK, Flag
  <2>2. /\ free' \in SUBSET Frames /\ mem' \in [Frames -> Data]
    BY Zenon, <1>2, <1>8, <1>9 DEF TypeOK
  <2>3. /\ swap_monitor' \in [SwapIdx -> [used : BOOLEAN, p_va : Page]]
        /\ file' \in [SwapIdx -> Data]
    BY ZenonT(40), <1>1, <1>7, <1>10 DEF TypeOK, Slot
  <2>4. /\ pc' \in PC /\ sz' \in 0 .. MAX_TOTAL_PAGES
        /\ newsz' \in 0 .. MAX_TOTAL_PAGES /\ cur' \in 0 .. MAX_TOTAL_PAGES
        /\ req' \in Page /\ page' \in Page /\ np' \in Frames \cup {NoFrame}
    BY <1>2 DEF TypeOK, PC
  <2>5. /\ ram_monitor' \in [RamIdx -> [used : BOOLEAN, p_va : Page, place_in_queue : Nat]]
        /\ last_in_queue' \in Nat /\ fsize' \in 0 .. MAX_TOTAL_PAGES - MAX_PYSC_PAGES
        /\ buff' \in Data /\ pages_in_file' \in Nat /\ page_fault_counter' \in Nat
        /\ val' \in [Page -> Data]
    BY Zenon, <1>2, <1>7 DEF TypeOK
  <2>. QED BY ZenonT(30), <2>1, <2>2, <2>3, <2>4, <2>5 DEF TypeOK
<1>12. Control'
  BY Zenon, <1>2 DEF Control
<1>13. /\ \A p \in Page : "P" \in flags'[p] <=> "P" \in flags[p] /\ p # page
       /\ \A p \in Page : "PG" \in flags'[p] <=> "PG" \in flags[p] \/ p = page
  BY Zenon, <1>1, <1>8 DEF TypeOK
<1>14. /\ \A i \in SwapIdx \ {h} : swap_monitor'[i] = swap_monitor[i] /\ file'[i] = file[i]
       /\ swap_monitor'[h].used /\ swap_monitor'[h].p_va = page /\ file'[h] = val[page]
  BY Zenon, <1>7, <1>10 DEF TypeOK, Slot
<1>15. \A i \in SwapIdx : InSlot(i)' <=> InSlot(i)
  BY Zenon, <1>3 DEF InSlot
<1>16. Shape'
  <2>1. \A i \in SwapIdx : swap_monitor'[i].used <=> InSlot(i)'
    BY Zenon, <1>4, <1>5, <1>14, <1>15
  <2>. QED BY ZenonT(30), <1>2, <1>3, <1>7, <2>1 DEF Shape
<1>17. \A i \in SwapIdx \ {h} : InSlot(i) => swap_monitor[i].p_va # page
  <2>1. ~ HasSlot(page)
    BY Zenon, <1>1 DEF Agree
  <2>. QED BY Zenon, <1>5, <2>1 DEF HasSlot
<1>18. Distinct'
  BY <1>2, <1>14, <1>15, <1>17 DEF Distinct
<1>19. \A p \in Page : HasSlot(p)' <=> HasSlot(p) \/ p = page
  BY Zenon, <1>5, <1>14 DEF HasSlot
<1>20. Agree'
  BY Zenon, <1>1, <1>2, <1>3, <1>13, <1>19 DEF Agree, HasEntry, IsExtra
<1>21. \A p \in Page : p # page => frame'[p] = frame[p]
  BY ZenonT(40), <1>8 DEF TypeOK
<1>22. Owned'
  BY SMTT(30), <1>1, <1>2, <1>8, <1>9, <1>13, <1>21 DEF Owned
<1>23. Contents'
  <2>1. \A p \in Page : "P" \in flags[p] /\ p # req => mem'[frame[p]] = mem[frame[p]]
    BY <1>1, <1>2, <1>9 DEF Owned, TypeOK
  <2>2. \A p \in Page : "P" \in flags'[p] => mem'[frame'[p]] = val[p]
    BY Zenon, <1>9, <1>10, <1>13, <1>21, <2>1 DEF Contents
  <2>3. pc' = "user" /\ val' = val
    BY Zenon, <1>2
  <2>4. \A i \in SwapIdx : swap_monitor'[i].used => file'[i] = val[swap_monitor'[i].p_va]
    BY <1>5, <1>14 DEF Contents
  <2>. QED BY ZenonT(40), <2>2, <2>3, <2>4 DEF Contents
<1>. QED BY ZenonT(40), <1>11, <1>12, <1>16, <1>18, <1>20, <1>22, <1>23 DEF IInv
-----------------------------------------------------------------------------
(* fork, when it succeeds, finds no page paged out and no slot used.       *)
LEMMA ForkStep ==
  ASSUME IInv, Fork
  PROVE  IInv'
<1>. pc = "user" /\ Alive
  BY Zenon DEF Fork, Running, Alive
<1>. TypeOK /\ Control /\ Shape /\ Distinct /\ Agree /\ Owned /\ Contents
  BY Zenon DEF IInv
<1>1. UNCHANGED <<sz, newsz, cur, req, np, page, ram_monitor, swap_monitor, last_in_queue, buff, free, mem, val>>
  BY Zenon DEF Fork, locals, monitors, memory
<1>2. CASE pc' \in {"panic_copyuvm", "panic_swapfile"}
  <2>1. UNCHANGED <<sz, locals, table, monitors, disk, buff, memory, counters, val>>
    BY Zenon, <1>2 DEF Fork, Running
  <2>. QED BY Zenon, <1>2, <2>1, EndStep DEF PC, Alive, InKernel
<1>3. CASE pc' \notin {"panic_copyuvm", "panic_swapfile"}
  <2>1. /\ \A p \in 0 .. sz - 1 : Present(p)
        /\ flags' = [p \in Page |-> IF p < sz THEN flags[p] ELSE {}]
        /\ frame' = [p \in Page |-> IF p < sz THEN frame[p] ELSE NoFrame]
        /\ fsize' = Cardinality(UsedSwap)
        /\ file' = [i \in SwapIdx |-> IF i \in UsedSwap THEN file[i] ELSE Zero]
        /\ pages_in_file' = 0 /\ page_fault_counter' = 0
        /\ pc' = "user"
    BY ZenonT(40), <1>3 DEF Fork, copyuvm
  <2>2. Limit = sz /\ Base = sz /\ Limit' = sz /\ Base' = sz /\ sz \in Nat
    BY SMTT(30), <1>1, <2>1 DEF Limit, Base, TypeOK
  <2>3. \A p \in Page : ("P" \in flags[p] <=> p < sz) /\ "PG" \notin flags[p]
    BY SMTT(30), <2>1, <2>2 DEF Agree, Present
  <2>4. \A i \in SwapIdx : ~ swap_monitor[i].used
    BY Zenon, <2>3 DEF Agree, HasSlot, TypeOK
  <2>5. UsedSwap = {}
    BY Zenon, <2>4 DEF UsedSwap
  <2>6. fsize' = 0
    BY Zenon, <2>1, <2>5, FS_EmptySet
  <2>7. sz <= MAX_PYSC_PAGES
    <3>1. 0 \in SwapIdx
      OBVIOUS
    <3>2. ~ InSlot(0)
      BY Zenon, <2>4, <3>1 DEF Shape
    <3>. QED BY <2>2, <3>2 DEF InSlot
  <2>8. /\ \A p \in Page : "P" \in flags'[p] <=> "P" \in flags[p]
        /\ \A p \in Page : "PG" \in flags'[p] <=> "PG" \in flags[p]
        /\ \A p \in Page : "P" \in flags[p] => frame'[p] = frame[p]
    BY Zenon, <2>1, <2>3
  <2>9. TypeOK'
    <3>1. flags' \in [Page -> SUBSET Flag] /\ frame' \in [Page -> Frames \cup {NoFrame}]
      BY Zenon, <2>1 DEF TypeOK
    <3>2. file' \in [SwapIdx -> Data]
      BY Zenon, <2>1 DEF TypeOK
    <3>3. pc' \in PC /\ fsize' \in 0 .. MAX_TOTAL_PAGES - MAX_PYSC_PAGES
      BY <2>1, <2>6 DEF PC
    <3>4. pages_in_file' \in Nat /\ page_fault_counter' \in Nat
      BY Zenon, <2>1
    <3>. QED BY Zenon, <1>1, <3>1, <3>2, <3>3, <3>4 DEF TypeOK
  <2>10. Control'
    BY Zenon, <1>1, <2>1 DEF Control
  <2>11. Shape' /\ Distinct'
    BY Zenon, <1>1, <2>1, <2>2, <2>6, <2>7 DEF Shape, Distinct, InSlot
  <2>12. Agree'
    <3>1. \A p \in Page : /\ HasEntry(p)' <=> HasEntry(p)
                          /\ HasSlot(p)' <=> HasSlot(p)
                          /\ IsExtra(p)' <=> IsExtra(p)
      BY Zenon, <1>1, <2>1 DEF HasEntry, HasSlot, IsExtra
    <3>. QED BY Zenon, <2>2, <2>8, <3>1 DEF Agree
  <2>13. Owned'
    BY Zenon, <1>1, <2>1, <2>8 DEF Owned
  <2>14. Contents'
    BY Zenon, <1>1, <2>1, <2>4, <2>8 DEF Contents
  <2>. QED BY Zenon, <2>9, <2>10, <2>11, <2>12, <2>13, <2>14 DEF IInv
<1>. QED BY Zenon, <1>2, <1>3

LEMMA InitStep ==
  ASSUME Init
  PROVE  IInv
<1>. pc = "user" /\ sz = ImagePages /\ Base = sz /\ Limit = sz /\ Alive
  BY Zenon DEF Init, Base, Limit, Alive
<1>1. \A p \in Page : /\ ("P" \in flags[p] <=> p < ImagePages) /\ "PG" \notin flags[p]
                      /\ flags[p] \in SUBSET Flag
  BY SMTT(30) DEF Init, Flag
<1>2. /\ \A i \in RamIdx : i < ImagePages => /\ ram_monitor[i].used /\ ram_monitor[i].p_va = i
                                             /\ ram_monitor[i].place_in_queue = i + 1
      /\ \A i \in RamIdx : ~ (i < ImagePages) => /\ ~ ram_monitor[i].used
                                                 /\ ram_monitor[i].place_in_queue = 0
      /\ last_in_queue = ImagePages
  BY Zenon DEF Init, Entry
<1>3. /\ swap_monitor \in [SwapIdx -> [used : BOOLEAN, p_va : Page]]
      /\ \A i \in SwapIdx : ~ swap_monitor[i].used
  BY ZenonT(30) DEF Init
<1>4. TypeOK
  <2>1. flags \in [Page -> SUBSET Flag]
    BY Zenon, <1>1 DEF Init
  <2>2. ram_monitor \in [RamIdx -> [used : BOOLEAN, p_va : Page, place_in_queue : Nat]]
    BY SMTT(30) DEF Init, Entry
  <2>3. /\ sz \in 0 .. MAX_TOTAL_PAGES /\ newsz \in 0 .. MAX_TOTAL_PAGES
        /\ cur \in 0 .. MAX_TOTAL_PAGES /\ req \in Page /\ page \in Page
        /\ np \in Frames \cup {NoFrame}
        /\ fsize \in 0 .. MAX_TOTAL_PAGES - MAX_PYSC_PAGES /\ last_in_queue \in Nat
        /\ pages_in_file \in Nat /\ page_fault_counter \in Nat
    BY SMTT(30) DEF Init
  <2>4. /\ frame \in [Page -> Frames \cup {NoFrame}] /\ free \in SUBSET Frames
        /\ mem \in [Frames -> Data] /\ val \in [Page -> Data] /\ file \in [SwapIdx -> Data]
        /\ buff \in Data
    BY Zenon DEF Init
  <2>. QED BY Zenon, <1>3, <2>1, <2>2, <2>3, <2>4 DEF TypeOK, PC
<1>5. Control
  BY DEF Control
<1>6. Shape
  <2>1. \A i \in RamIdx : (ram_monitor[i].used <=> i < Base) /\ ram_monitor[i].place_in_queue <= last_in_queue
    BY <1>2
  <2>2. fsize = 0
    BY Zenon DEF Init
  <2>. QED BY SMTT(30), <1>3, <2>1, <2>2 DEF Shape, InSlot
<1>7. Distinct
  BY SMTT(30), <1>2 DEF Distinct, InSlot
<1>8. Agree
  BY SMTT(30), <1>1, <1>2, <1>3 DEF Agree, HasEntry, HasSlot, IsExtra
<1>9. Owned
  <2>1. \A p \in Page : p < ImagePages => frame[p] \in Frames
    BY DEF Init
  <2>2. \A p, q \in Page : p < ImagePages /\ q < ImagePages /\ frame[p] = frame[q] => p = q
    <3>1. \A p \in Page : p < ImagePages => p \in 0 .. ImagePages - 1
      OBVIOUS
    <3>2. \A p, q \in 0 .. ImagePages - 1 : frame[p] = frame[q] => p = q
      BY Zenon DEF Init
    <3>. QED BY Zenon, <3>1, <3>2
  <2>3. \A f \in Frames : f \notin free <=> \E p \in Page : p < ImagePages /\ frame[p] = f
    <3>1. \A p \in Page : p < ImagePages <=> p \in 0 .. ImagePages - 1
      OBVIOUS
    <3>2. 0 .. ImagePages - 1 \subseteq Page
      BY PagingAssumption
    <3>3. free = Frames \ {frame[p] : p \in 0 .. ImagePages - 1}
      BY Zenon DEF Init
    <3>. QED BY Zenon, <3>1, <3>2, <3>3
  <2>. QED BY ZenonT(40), <1>1, <2>1, <2>2, <2>3 DEF Owned
<1>10. Contents
  BY Zenon, <1>1, <1>3, <1>9 DEF Contents, Owned, Init
<1>. QED BY ZenonT(40), <1>4, <1>5, <1>6, <1>7, <1>8, <1>9, <1>10 DEF IInv

(* Every operation preserves the inductive invariant.                      *)
LEMMA NextStep ==
  ASSUME IInv, [Next]_vars
  PROVE  IInv'
<1>1. CASE User
  <2>1. ASSUME NEW p \in Page, Access(p) \/ BadAccess(p) \/ PageFault(p) PROVE IInv'
    BY Zenon, <2>1, AccessStep, BadAccessStep, PageFaultStep
  <2>2. ASSUME NEW p \in Page, NEW d \in Data, Store(p, d) PROVE IInv'
    BY Zenon, <2>2, StoreStep
  <2>3. ASSUME NEW p \in Page, NEW write \in BOOLEAN, NEW d \in Data, KernelAccess(p, write, d) PROVE IInv'
    BY Zenon, <2>3, KernelAccessStep
  <2>4. ASSUME NEW p \in Page, NEW flag \in {"PTE_1", "W"}, NEW on \in BOOLEAN, TurnFlag(p, flag, on) PROVE IInv'
    BY Zenon, <2>4, TurnFlagStep
  <2>5. ASSUME NEW n \in 1 .. MAX_TOTAL_PAGES, Sbrk(n) PROVE IInv'
    BY Zenon, <2>5, SbrkStep
  <2>. QED BY Zenon, <1>1, <2>1, <2>2, <2>3, <2>4, <2>5, ForkStep, NoPteStep DEF User, Grow
<1>2. CASE Kernel
  <2>1. CASE AllocPage
    BY Zenon, <2>1, RemapStep, MapPageStep DEF AllocPage
  <2>2. CASE Swap
    BY Zenon, <2>2, SelectNoneStep, EvictStep DEF Swap
  <2>. QED BY ZenonT(40), <1>2, <2>1, <2>2, AllocDoneStep, SecondChanceStep, FaultReadStep, FaultCopyStep DEF Kernel
<1>3. CASE UNCHANGED vars
  <2>1. UNCHANGED <<pc, sz, newsz, cur, req, np, page, flags, frame, ram_monitor, swap_monitor,
                    last_in_queue, file, fsize, buff, free, mem, pages_in_file,
                    page_fault_counter, val>>
    BY Zenon, <1>3 DEF vars, locals, table, monitors, disk, memory, counters
  <2>2. TypeOK' <=> TypeOK
    BY Zenon, <2>1 DEF TypeOK
  <2>3. (Alive' <=> Alive) /\ Base' = Base /\ Limit' = Limit
    BY Zenon, <2>1 DEF Alive, InKernel, Base, Limit
  <2>4. Control' <=> Control
    BY Zenon, <2>1 DEF Control
  <2>5. (Shape' <=> Shape) /\ (Distinct' <=> Distinct)
    BY Zenon, <2>1, <2>3 DEF Shape, Distinct, InSlot
  <2>6. Agree' <=> Agree
    BY <2>1, <2>3 DEF Agree, HasEntry, HasSlot, IsExtra
  <2>7. (Owned' <=> Owned) /\ (Contents' <=> Contents)
    BY Zenon, <2>1 DEF Owned, Contents
  <2>. QED BY Zenon, <2>2, <2>3, <2>4, <2>5, <2>6, <2>7 DEF IInv
<1>. QED BY Zenon, <1>1, <1>2, <1>3 DEF Next

(* The invariant holds in every reachable state.                           *)
THEOREM Invariant == Spec => []IInv
<1>1. Init => IInv
  BY Zenon, InitStep
<1>2. IInv /\ [Next]_vars => IInv'
  BY Zenon, NextStep
<1>. QED BY <1>1, <1>2, PTL DEF Spec


(* Every variable keeps its type, whatever the process does.               *)
THEOREM TypeCorrect == Spec => []TypeOK
<1>1. IInv => TypeOK
  BY Zenon DEF IInv
<1>. QED BY <1>1, Invariant, PTL

(* select_LIFO and select_SCFIFO always choose from exactly the resident   *)
(* pages.                                                                  *)
THEOREM RamExactAlways == Spec => []RamExact
<1>1. ASSUME IInv
      PROVE  RamExact
  <2>. SUFFICES ASSUME Alive
                PROVE  /\ Resident = Entered \cup Extra
                       /\ Entered \cap Extra = {}
                       /\ \A i, j \in UsedRam : ram_monitor[i].p_va = ram_monitor[j].p_va => i = j
    BY Zenon DEF RamExact
  <2>. TypeOK /\ Distinct /\ Agree
    BY Zenon, <1>1 DEF IInv
  <2>1. \A p \in Page : (p \in Entered <=> HasEntry(p)) /\ (p \in Extra <=> IsExtra(p))
    BY Zenon DEF Entered, UsedRam, HasEntry, Extra, IsExtra
  <2>2. Entered \subseteq Page /\ Extra \subseteq Page
    <3>1. \A i \in RamIdx : ram_monitor[i].p_va \in Page
      BY Zenon DEF TypeOK
    <3>2. Entered \subseteq Page
      BY Zenon, <3>1 DEF Entered, UsedRam
    <3>3. Extra \subseteq Page
      BY SMTT(30) DEF Extra, TypeOK
    <3>. QED BY Zenon, <3>2, <3>3
  <2>3. \A p \in Page : p \in Resident <=> "P" \in flags[p]
    BY Zenon DEF Resident, Present
  <2>4. Resident = Entered \cup Extra
    BY ZenonT(30), <2>1, <2>2, <2>3 DEF Agree, Resident
  <2>5. Entered \cap Extra = {}
    BY Zenon, <2>1, <2>2 DEF Agree
  <2>. QED BY Zenon, <2>4, <2>5 DEF Distinct, UsedRam
<1>. QED BY <1>1, Invariant, PTL

(* Every page is resident or paged out, and the used slots of swap_monitor *)
(* are the pages that are out.                                             *)
THEOREM SwapExactAlways == Spec => []SwapExact
<1>1. ASSUME IInv
      PROVE  SwapExact
  <2>. SUFFICES ASSUME Alive
                PROVE  /\ Resident \cup Out = 0 .. Limit - 1
                       /\ Resident \cap Out = {}
                       /\ Out = {swap_monitor[i].p_va : i \in UsedSwap}
    BY Zenon DEF SwapExact
  <2>. TypeOK /\ Agree /\ Control
    BY Zenon, <1>1 DEF IInv
  <2>1. Limit \in 0 .. MAX_TOTAL_PAGES
    BY DEF Limit, Control, TypeOK
  <2>2. Resident \cup Out = 0 .. Limit - 1
    <3>1. \A p \in Page : p \in Resident \cup Out <=> p < Limit
      BY Zenon DEF Resident, Out, Present, Agree
    <3>2. Resident \cup Out \subseteq Page
      BY Zenon DEF Resident, Out
    <3>. QED BY <2>1, <3>1, <3>2
  <2>3. Resident \cap Out = {}
    BY Zenon DEF Resident, Out, Present, Agree
  <2>4. Out = {swap_monitor[i].p_va : i \in UsedSwap}
    BY SMTT(30) DEF Out, Agree, HasSlot, UsedSwap, TypeOK
  <2>. QED BY Zenon, <2>2, <2>3, <2>4
<1>. QED BY <1>1, Invariant, PTL

(* No stale address lies beneath the slot of a page that is out.           *)
THEOREM FirstMatchAlways == Spec => []FirstMatch
<1>1. ASSUME IInv
      PROVE  FirstMatch
  BY <1>1 DEF IInv, FirstMatch, Shape, Distinct, UsedSwap, InSlot, Base, TypeOK
<1>. QED BY <1>1, Invariant, PTL


(* When swap or page_from_disk evicts a page, there is a victim and        *)
(* write2file has a slot for it.                                           *)
THEOREM NothingLostAlways == Spec => []NothingLost
<1>1. ASSUME IInv
      PROVE  NothingLost
  <2>1. CASE pc = "swap"
    <3>. TypeOK /\ Control /\ Shape
      BY Zenon, <1>1, <2>1 DEF IInv, Alive, InKernel
    <3>1. Base = cur /\ MAX_PYSC_PAGES <= cur /\ cur < MAX_TOTAL_PAGES /\ cur \in Nat
      BY SMTT(30), <2>1 DEF Base, Control, TypeOK
    <3>2. 0 \in UsedRam
      BY SMTT(30), <3>1 DEF UsedRam, Shape
    <3>3. fsize = cur - MAX_PYSC_PAGES /\ fsize \in SwapIdx
      BY <3>1 DEF Shape
    <3>4. fsize \in FreeSwap /\ \A j \in FreeSwap : fsize <= j
      BY <2>1, <3>1, <3>3 DEF FreeSwap, UsedSwap, Shape, InSlot
    <3>5. FreeSwap \in SUBSET Nat
      BY DEF FreeSwap
    <3>6. Lowest(FreeSwap) = fsize
      BY Zenon, <3>4, <3>5, LowestIs
    <3>. QED BY Zenon, <2>1, <3>2, <3>3, <3>4, <3>6 DEF NothingLost, CanWrite
  <2>2. CASE pc = "copy"
    <3>. TypeOK /\ Control /\ Shape
      BY Zenon, <1>1, <2>2 DEF IInv, Alive, InKernel
    <3>1. PICK h \in SwapIdx : InSlot(h) /\ swap_monitor[h].p_va = req
      BY Zenon, <2>2 DEF Shape
    <3>2. h \in FreeSwap
      BY Zenon, <2>2, <3>1 DEF FreeSwap, UsedSwap, Shape
    <3>3. FreeSwap \in SUBSET Nat
      BY DEF FreeSwap
    <3>4. Lowest(FreeSwap) \in FreeSwap /\ Lowest(FreeSwap) <= h
      BY Zenon, <3>2, <3>3, LowestIsLeast
    <3>5. h < fsize /\ fsize \in Nat
      BY <2>2, <3>1 DEF Shape, InSlot, Base, Control, TypeOK
    <3>6. Lowest(FreeSwap) \in Nat /\ h \in Nat
      <4>1. \A i \in FreeSwap : i \in Nat
        BY Zenon, <3>3
      <4>. QED BY ZenonT(30), <3>2, <3>4, <4>1
    <3>7. Lowest(FreeSwap) <= fsize
      BY <3>4, <3>5, <3>6
    <3>8. CanWrite
      BY Zenon, <3>2, <3>7 DEF CanWrite
    <3>. QED BY Zenon, <2>2, <3>8 DEF NothingLost, Control, Present
  <2>. QED BY Zenon, <2>1, <2>2 DEF NothingLost
<1>. QED BY <1>1, Invariant, PTL

(* The monitors, which the code consults instead of the page table, say    *)
(* the truth about every page, and every exchange can be carried out.      *)
THEOREM MonitorsExactAlways == Spec => []MonitorsExact
<1>1. RamExact /\ SwapExact /\ FirstMatch /\ NothingLost => MonitorsExact
  BY Zenon DEF MonitorsExact
<1>. QED BY <1>1, RamExactAlways, SwapExactAlways, FirstMatchAlways, NothingLostAlways, PTL

(* What the program wrote is what it will read, through any number of      *)
(* evictions and page faults.                                              *)
THEOREM DataIntactAlways == Spec => []DataIntact
<1>1. ASSUME IInv
      PROVE  DataIntact
  <2>. SUFFICES ASSUME Alive, NEW p \in 0 .. Limit - 1
                PROVE  Holds(p) = val[p]
    BY Zenon DEF DataIntact
  <2>. TypeOK /\ Control /\ Agree /\ Contents
    BY Zenon, <1>1 DEF IInv
  <2>1. p \in Page /\ p < Limit
    BY DEF Limit, Control, TypeOK
  <2>2. CASE p \in Out
    <3>1. "PG" \in flags[p]
      BY Zenon, <2>2 DEF Out
    <3>2. \A old : PageRead(p, old) = val[p]
      BY Zenon, <1>1, <2>1, <3>1, FindSlot
    <3>. QED BY Zenon, <2>2, <3>2 DEF Holds
  <2>3. CASE p \notin Out
    <3>1. "P" \in flags[p]
      BY Zenon, <2>1, <2>3 DEF Out, Agree
    <3>. QED BY Zenon, <2>1, <2>3, <3>1 DEF Holds, Contents
  <2>. QED BY Zenon, <2>2, <2>3
<1>. QED BY <1>1, Invariant, PTL

(* Frames are neither shared nor leaked.                                   *)
THEOREM FramesConservedAlways == Spec => []FramesConserved
<1>1. ASSUME IInv
      PROVE  FramesConserved
  <2>. SUFFICES ASSUME Alive
                PROVE  /\ \A p, q \in Resident : frame[p] = frame[q] => p = q
                       /\ free = Frames \ ({frame[p] : p \in Resident}
                                             \cup (IF pc = "fault" THEN {np} ELSE {}))
                       /\ pc = "fault" => \A p \in Resident : frame[p] # np
    BY Zenon DEF FramesConserved
  <2>. TypeOK /\ Owned
    BY Zenon, <1>1 DEF IInv
  <2>1. \A p : p \in Resident <=> p \in Page /\ "P" \in flags[p]
    BY Zenon DEF Resident, Present
  <2>2. free = Frames \ ({frame[p] : p \in Resident} \cup (IF pc = "fault" THEN {np} ELSE {}))
    <3>1. free \subseteq Frames
      BY Zenon DEF TypeOK
    <3>2. \A f \in free : f \notin {frame[p] : p \in Resident} /\ ~ (pc = "fault" /\ f = np)
      BY <2>1 DEF Owned
    <3>3. \A f \in Frames : f \in free \/ f \in {frame[p] : p \in Resident} \/ (pc = "fault" /\ f = np)
      BY <2>1 DEF Owned
    <3>. QED BY Zenon, <3>1, <3>2, <3>3
  <2>. QED BY Zenon, <2>1, <2>2 DEF Owned
<1>. QED BY <1>1, Invariant, PTL

(* The process never has more than MAX_PYSC_PAGES pages in memory, one     *)
(* more while two pages are exchanged.                                     *)
THEOREM ResidentBoundAlways == Spec => []ResidentBound
<1>1. ASSUME RamExact, TypeOK
      PROVE  ResidentBound
  <2>. SUFFICES ASSUME Alive
                PROVE  Cardinality(Resident) <=
                         MAX_PYSC_PAGES + (IF pc \in {"swap", "copy"} THEN 1 ELSE 0)
    BY Zenon DEF ResidentBound
  <2>1. IsFiniteSet(RamIdx) /\ Cardinality(RamIdx) = MAX_PYSC_PAGES
    BY FS_Interval
  <2>2. IsFiniteSet(UsedRam) /\ Cardinality(UsedRam) <= MAX_PYSC_PAGES
    <3>1. UsedRam \in SUBSET RamIdx
      BY Zenon DEF UsedRam
    <3>. HIDE DEF RamIdx
    <3>2. IsFiniteSet(UsedRam) /\ Cardinality(UsedRam) <= Cardinality(RamIdx)
      BY Zenon, <2>1, <3>1, FS_Subset
    <3>. QED BY Zenon, <2>1, <3>2
  <2>3. IsFiniteSet(Entered) /\ Cardinality(Entered) <= Cardinality(UsedRam)
    <3>1. [i \in UsedRam |-> ram_monitor[i].p_va] \in Surjection(UsedRam, Entered)
      BY Zenon DEF Surjection, Entered
    <3>. QED BY Zenon, <2>2, <3>1, FS_Surjection
  <2>4. Cardinality(Entered) \in Nat /\ Cardinality(UsedRam) \in Nat
    BY Zenon, <2>2, <2>3, FS_CardinalityType
  <2>5. CASE pc \in {"swap", "copy"}
    <3>1. PICK x : Extra = {x}
      BY Zenon, <2>5 DEF Extra
    <3>2. Resident = Entered \cup {x} /\ x \notin Entered
      BY Zenon, <1>1, <3>1 DEF RamExact
    <3>3. Cardinality(Resident) = Cardinality(Entered) + 1
      BY Zenon, <2>3, <3>2, FS_AddElement
    <3>. QED BY <2>2, <2>3, <2>4, <2>5, <3>3
  <2>6. CASE pc \notin {"swap", "copy"}
    <3>1. Resident = Entered
      BY Zenon, <1>1, <2>6 DEF RamExact, Extra
    <3>. QED BY <2>2, <2>3, <2>4, <2>6, <3>1
  <2>. QED BY Zenon, <2>5, <2>6
<1>. QED BY <1>1, RamExactAlways, TypeCorrect, PTL
-----------------------------------------------------------------------------
(* A page without PTE_W is one that pmalloc marked.                        *)
Writable ==
  \A p \in Page : "P" \in flags[p] \/ "PG" \in flags[p]
                    => "W" \in flags[p] \/ "PTE_1" \in flags[p]

LEMMA WritableStep ==
  ASSUME IInv, Writable, [Next]_vars
  PROVE  Writable'
<1>. flags \in [Page -> SUBSET Flag]
  BY Zenon DEF IInv, TypeOK
<1>. USE DEF Writable
<1>1. ASSUME NEW p \in Page, Access(p) \/ BadAccess(p) PROVE Writable'
  BY Zenon, <1>1 DEF Access, BadAccess, table
<1>13. CASE NoPte
  BY Zenon, <1>13 DEF NoPte, table
<1>2. ASSUME NEW p \in Page, PageFault(p) PROVE Writable'
  BY <1>2 DEF PageFault, page_in, table
<1>3. ASSUME NEW p \in Page, NEW d \in Data, Store(p, d) PROVE Writable'
  BY Zenon, <1>3 DEF Store
<1>4. ASSUME NEW p \in Page, NEW write \in BOOLEAN, NEW d \in Data, KernelAccess(p, write, d) PROVE Writable'
  BY <1>4 DEF KernelAccess
<1>5. ASSUME NEW p \in Page, NEW flag \in {"PTE_1", "W"}, NEW on \in BOOLEAN, TurnFlag(p, flag, on) PROVE Writable'
  BY Zenon, <1>5 DEF TurnFlag
<1>6. CASE Grow \/ Fork
  <2>1. \/ flags' = flags
        \/ flags' = [p \in Page |-> IF p < sz THEN flags[p] ELSE {}]
    BY Zenon, <1>6 DEF Grow, Sbrk, Fork, table
  <2>. QED BY Zenon, <2>1
<1>7. CASE AllocPage \/ AllocDone
  <2>1. flags' = flags \/ flags' = [flags EXCEPT ![cur] = {"P", "W", "U"}]
    BY Zenon, <1>7 DEF AllocPage, Remap, MapPage, AllocDone, table
  <2>. QED BY Zenon, <2>1
<1>8. CASE SecondChance
  BY Zenon, <1>8 DEF SecondChance
<1>9. CASE Swap
  <2>1. CASE SelectNone \/ EvictAbsent(CandidatePage)
    BY Zenon, <2>1 DEF SelectNone, EvictAbsent, table
  <2>2. CASE Evict /\ ~ EvictAbsent(CandidatePage)
    <3>1. PICK touched \in SUBSET {"A"} : Present(CandidatePage) /\ page_out(CandidatePage, touched)
      BY Zenon, <2>2 DEF Evict
    <3>. QED BY Zenon, <3>1 DEF page_out, Present
  <2>3. SelectNone \/ Evict
    BY Zenon, <1>9 DEF Swap
  <2>. QED BY Zenon, <2>1, <2>2, <2>3
<1>10. CASE FaultRead
  BY Zenon, <1>10 DEF FaultRead, page_in
<1>11. CASE FaultCopy
  BY <1>11 DEF FaultCopy, EvictAbsent, page_out, Present, table
<1>12. CASE UNCHANGED vars
  BY Zenon, <1>12 DEF vars, table
<1>. QED BY SMTT(30), <1>1, <1>2, <1>3, <1>4, <1>5, <1>6, <1>7, <1>8, <1>9, <1>10, <1>11, <1>12, <1>13 DEF Next, User, Kernel

(* Each way to a panic or to a wild access needs a page that is out, or a  *)
(* protected one.                                                          *)
LEMMA PanicStep ==
  ASSUME IInv, Writable, PanicsExplained, [Next]_vars
  PROVE  PanicsExplained'
<1>. DEFINE Calm == pc' \in {"user", "alloc", "swap", "fault", "copy", "killed", "panic_flag"}
<1>. SUFFICES ASSUME ~ Calm, ~ UNCHANGED vars
              PROVE  PanicsExplained'
  <2>1. Calm => PanicsExplained'
    BY Zenon DEF PanicsExplained
  <2>2. UNCHANGED vars => PanicsExplained'
    BY Zenon DEF PanicsExplained, vars, table, Out
  <2>. QED BY Zenon, <2>1, <2>2
<1>. TypeOK
  BY Zenon DEF IInv
<1>1. ASSUME pc = "user", NEW p \in Page, p < sz, "P" \notin flags[p]
      PROVE  Out # {} /\ MAX_PYSC_PAGES < sz
  <2>. Alive /\ Agree
    BY Zenon, <1>1 DEF IInv, Alive
  <2>1. "PG" \in flags[p]
    BY Zenon, <1>1 DEF Agree, Limit
  <2>2. MAX_PYSC_PAGES < Base
    BY Zenon, <2>1, FindSlot
  <2>. QED BY Zenon, <1>1, <2>1, <2>2 DEF Out, Base
<1>2. ASSUME NEW p \in Page, NEW write \in BOOLEAN, NEW d \in Data, KernelAccess(p, write, d) PROVE PanicsExplained'
  <2>1. /\ pc = "user" /\ p < sz /\ pc' = "panic_trap" /\ UNCHANGED <<flags, sz>>
        /\ "P" \notin flags[p] \/ "W" \notin flags[p]
    BY Zenon, <1>2 DEF KernelAccess, Running, Present
  <2>2. "P" \in flags[p] => "PTE_1" \in flags[p] /\ "W" \notin flags[p]
    BY Zenon, <2>1 DEF Writable
  <2>. QED BY Zenon, <1>1, <2>1, <2>2 DEF PanicsExplained, Out
<1>3. CASE Fork
  <2>1. pc = "user" /\ Alive /\ UNCHANGED <<flags, sz>> /\ ~ (copyuvm /\ copyParentSwapFile)
    BY Zenon, <1>3 DEF Fork, Running, Alive, table
  <2>. Agree
    BY Zenon, <2>1 DEF IInv
  <2>2. CASE ~ copyuvm
    <3>1. PICK p \in 0 .. sz - 1 : "P" \notin flags[p]
      BY Zenon, <2>2 DEF copyuvm, Present
    <3>2. p \in Page /\ p < sz
      BY <3>1 DEF TypeOK
    <3>3. pc' = "panic_copyuvm"
      BY Zenon, <1>3, <2>2 DEF Fork
    <3>. QED BY ZenonT(40), <1>1, <2>1, <3>1, <3>2, <3>3 DEF PanicsExplained, Out
  <2>3. CASE copyuvm
    <3>1. \A p \in Page : p < sz => "P" \in flags[p]
      BY <2>3 DEF copyuvm, Present, TypeOK
    <3>2. \A p \in Page : "PG" \notin flags[p]
      BY Zenon, <2>1, <3>1 DEF Agree, Limit
    <3>3. UsedSwap = {}
      BY Zenon, <3>2 DEF Agree, HasSlot, UsedSwap, TypeOK
    <3>. QED BY Zenon, <2>1, <2>3, <3>3 DEF copyParentSwapFile
  <2>. QED BY Zenon, <2>2, <2>3
<1>4. CASE AllocPage
  <2>1. pc = "alloc" /\ cur \in Page
    BY <1>4 DEF AllocPage, TypeOK
  <2>2. Agree /\ Limit = cur
    BY Zenon, <2>1 DEF IInv, Alive, InKernel, Limit
  <2>3. ~ Present(cur)
    BY <2>1, <2>2 DEF Agree, Present
  <2>4. MapPage
    BY Zenon, <1>4, <2>3 DEF AllocPage
  <2>. QED BY Zenon, <2>1, <2>4 DEF MapPage
<1>5. CASE Swap
  <2>1. pc = "swap"
    BY Zenon, <1>5 DEF Swap
  <2>2. (\A i \in RamIdx : ram_monitor[i].used) /\ Present(CandidatePage)
    BY Zenon, <2>1, FullRam DEF Present
  <2>3. UsedRam # {}
    BY <2>2 DEF UsedRam
  <2>4. Evict
    BY Zenon, <1>5, <2>3 DEF Swap
  <2>. QED BY Zenon, <2>2, <2>4 DEF Evict, EvictAbsent
<1>6. CASE FaultCopy
  <2>1. Present(page)
    BY Zenon, <1>6 DEF FaultCopy, IInv, Alive, InKernel, Control, Present
  <2>. QED BY Zenon, <1>6, <2>1 DEF FaultCopy, EvictAbsent, Return
<1>7. ASSUME NEW p \in Page, Access(p) \/ BadAccess(p) \/ PageFault(p) \/ \E d \in Data : Store(p, d) PROVE FALSE
  BY Zenon, <1>7 DEF Access, BadAccess, PageFault, Store
<1>8. ASSUME NEW p \in Page, NEW flag \in {"PTE_1", "W"}, NEW on \in BOOLEAN, TurnFlag(p, flag, on) PROVE FALSE
  BY Zenon, <1>8 DEF TurnFlag, Running
<1>9. CASE NoPte \/ Grow \/ AllocDone
  BY Zenon, <1>9 DEF NoPte, Grow, Sbrk, AllocDone, Return
<1>10. CASE SecondChance \/ FaultRead
  <2>1. SecondChance => pc' = pc /\ pc \in {"swap", "fault"}
    BY Zenon DEF SecondChance
  <2>2. FaultRead => pc' = "copy"
    BY Zenon DEF FaultRead
  <2>. QED BY Zenon, <1>10, <2>1, <2>2
<1>. QED
  BY ZenonT(40), <1>2, <1>3, <1>4, <1>5, <1>6, <1>7, <1>8, <1>9, <1>10 DEF Next, User, Kernel

(* Apart from addresses that have no page table (NoPte), the kernel stops  *)
(* only for what the framework does not support: fork and system calls on  *)
(* pages that are out, system calls on protected pages.                    *)
THEOREM PanicsExplainedAlways == Spec => []PanicsExplained
<1>1. Init => Writable /\ PanicsExplained
  <2>1. Init => Writable
    BY DEF Init, Writable
  <2>2. Init => pc = "user"
    BY Zenon DEF Init
  <2>. QED BY Zenon, <2>1, <2>2 DEF PanicsExplained
<1>2. IInv /\ (Writable /\ PanicsExplained) /\ [Next]_vars => (Writable /\ PanicsExplained)'
  BY Zenon, WritableStep, PanicStep
<1>. QED BY <1>1, <1>2, Invariant, PTL DEF Spec
-----------------------------------------------------------------------------
(* Pages beyond MAX_PYSC_PAGES, the one that swap is finding room for      *)
(* included: each was counted when it, or another for it, was written out, *)
(* and a page fault counts once on either side.                            *)
Beyond == IF MAX_PYSC_PAGES < Limit THEN Limit - MAX_PYSC_PAGES ELSE 0

Counted == Alive => pages_in_file - page_fault_counter = Beyond

(* The counters follow every operation: only allocuvm, beyond the monitor, *)
(* and page faults change them, and fork starts a child that has nothing   *)
(* in its file at zero.                                                    *)
LEMMA CountedStep ==
  ASSUME IInv, Counted, [Next]_vars
  PROVE  Counted'
<1>. SUFFICES ASSUME Alive' PROVE Counted'
  BY Zenon DEF Counted
<1>. TypeOK /\ (Alive => Control /\ Shape /\ Agree)
  BY Zenon DEF IInv
<1>1. ASSUME UNCHANGED <<pc, sz, cur, pages_in_file, page_fault_counter>>
      PROVE  Counted'
  BY Zenon, <1>1 DEF Counted, Alive, InKernel, Beyond, Limit
<1>2. ASSUME pc' \notin {"user", "alloc", "swap", "fault", "copy"}
      PROVE  FALSE
  BY Zenon, <1>2 DEF Alive, InKernel
<1>3. ASSUME NEW p \in Page, Access(p) \/ BadAccess(p) PROVE Counted'
  BY Zenon, <1>1, <1>2, <1>3 DEF Access, BadAccess, locals, counters
<1>20. CASE NoPte
  BY Zenon, <1>2, <1>20 DEF NoPte
<1>4. ASSUME NEW p \in Page, PageFault(p) PROVE Counted'
  <2>1. pc = "user" /\ "PG" \in flags[p] /\ Alive
    BY Zenon, <1>4 DEF PageFault, Alive
  <2>2. MAX_PYSC_PAGES < Base
    BY Zenon, <2>1, FindSlot
  <2>3. FreeRam = {}
    BY <2>1, <2>2 DEF FreeRam, UsedRam, Shape, Base, TypeOK
  <2>4. /\ pc' = "fault" /\ UNCHANGED <<sz, cur>>
        /\ pages_in_file' = pages_in_file + 1
        /\ page_fault_counter' = page_fault_counter + 1
    BY Zenon, <1>4, <2>3 DEF PageFault
  <2>5. Beyond' = Beyond
    BY Zenon, <2>1, <2>4 DEF Beyond, Limit
  <2>. QED BY <2>1, <2>4, <2>5 DEF Counted, TypeOK
<1>5. ASSUME NEW p \in Page, NEW d \in Data, Store(p, d) PROVE Counted'
  BY Zenon, <1>1, <1>5 DEF Store, locals, counters
<1>6. ASSUME NEW p \in Page, NEW write \in BOOLEAN, NEW d \in Data, KernelAccess(p, write, d)
      PROVE  Counted'
  BY Zenon, <1>1, <1>2, <1>6 DEF KernelAccess, locals, counters
<1>7. ASSUME NEW p \in Page, NEW flag \in {"PTE_1", "W"}, NEW on \in BOOLEAN, TurnFlag(p, flag, on)
      PROVE  Counted'
  BY Zenon, <1>1, <1>7 DEF TurnFlag, locals, counters
<1>8. ASSUME NEW n \in 1 .. MAX_TOTAL_PAGES, Sbrk(n) PROVE Counted'
  <2>1. pc = "user" /\ pc' = "alloc" /\ cur' = sz /\ UNCHANGED <<pages_in_file, page_fault_counter>>
    BY Zenon, <1>8 DEF Sbrk, Running, counters
  <2>2. Beyond' = Beyond /\ Alive
    BY Zenon, <2>1 DEF Beyond, Limit, Alive
  <2>. QED BY Zenon, <2>1, <2>2 DEF Counted
<1>9. CASE Fork
  <2>1. Running /\ UNCHANGED sz
    BY Zenon, <1>9 DEF Fork
  <2>2. pc = "user" /\ Alive
    BY Zenon, <2>1 DEF Running, Alive
  <2>3. /\ copyuvm /\ pages_in_file' = 0 /\ page_fault_counter' = 0 /\ pc' = "user"
    BY Zenon, <1>2, <1>9, <2>2 DEF Fork
  <2>4. sz <= MAX_PYSC_PAGES
    <3>. SUFFICES ASSUME MAX_PYSC_PAGES < sz PROVE FALSE
      BY DEF TypeOK
    <3>1. 0 \in SwapIdx /\ swap_monitor[0].used
      BY <2>2 DEF Shape, InSlot, Base, TypeOK
    <3>2. PICK q \in Page : q = swap_monitor[0].p_va
      BY Zenon, <3>1 DEF TypeOK
    <3>3. "PG" \in flags[q]
      BY Zenon, <2>2, <3>1, <3>2 DEF Agree, HasSlot
    <3>4. q < sz /\ "P" \notin flags[q]
      BY Zenon, <2>2, <3>3 DEF Agree, Limit
    <3>5. q \in 0 .. sz - 1
      BY <3>4 DEF TypeOK
    <3>. QED BY Zenon, <2>3, <3>4, <3>5 DEF copyuvm, Present
  <2>. QED BY SMTT(30), <2>1, <2>3, <2>4 DEF Counted, Beyond, Limit, TypeOK
<1>10. CASE AllocPage
  <2>1. pc = "alloc" /\ Alive
    BY Zenon, <1>10 DEF AllocPage, Alive, InKernel
  <2>2. MapPage
    BY Zenon, <1>2, <1>10 DEF AllocPage, Remap
  <2>3. CASE cur + 1 <= MAX_PYSC_PAGES
    <3>1. cur' = cur + 1 /\ UNCHANGED <<pc, sz, pages_in_file, page_fault_counter>>
      BY Zenon, <2>2, <2>3 DEF MapPage
    <3>. QED BY <2>1, <2>3, <3>1 DEF Counted, Beyond, Limit, TypeOK
  <2>4. CASE ~ (cur + 1 <= MAX_PYSC_PAGES)
    <3>1. /\ pc' = "swap" /\ UNCHANGED <<sz, cur, page_fault_counter>>
          /\ pages_in_file' = pages_in_file + 1
      BY Zenon, <2>2, <2>4 DEF MapPage
    <3>. QED BY SMTT(30), <2>1, <2>4, <3>1 DEF Counted, Beyond, Limit, TypeOK
  <2>. QED BY Zenon, <2>3, <2>4
<1>11. CASE AllocDone
  <2>1. /\ pc = "alloc" /\ pc' = "user" /\ sz' = cur
        /\ UNCHANGED <<pages_in_file, page_fault_counter>>
    BY Zenon, <1>11 DEF AllocDone, Return, counters
  <2>2. Beyond' = Beyond /\ Alive
    BY Zenon, <2>1 DEF Beyond, Limit, Alive, InKernel
  <2>. QED BY Zenon, <2>1, <2>2 DEF Counted
<1>12. CASE SecondChance
  BY Zenon, <1>1, <1>12 DEF SecondChance, locals, counters
<1>13. CASE Swap
  <2>1. pc = "swap" /\ Alive /\ (SelectNone \/ Evict)
    BY Zenon, <1>13 DEF Swap, Alive, InKernel
  <2>2. ~ SelectNone /\ ~ EvictAbsent(CandidatePage)
    BY Zenon, <1>2 DEF SelectNone, EvictAbsent
  <2>3. /\ pc' = "alloc" /\ cur' = cur + 1
        /\ UNCHANGED <<sz, pages_in_file, page_fault_counter>>
    BY Zenon, <2>1, <2>2 DEF Evict, counters
  <2>4. Beyond' = Beyond
    BY Zenon, <2>1, <2>3 DEF Beyond, Limit
  <2>. QED BY Zenon, <2>1, <2>3, <2>4 DEF Counted
<1>14. CASE FaultRead
  <2>1. /\ pc = "fault" /\ pc' = "copy" /\ UNCHANGED <<sz, cur, pages_in_file, page_fault_counter>>
    BY Zenon, <1>14 DEF FaultRead, counters
  <2>2. Beyond' = Beyond /\ Alive
    BY Zenon, <2>1 DEF Beyond, Limit, Alive, InKernel
  <2>. QED BY Zenon, <2>1, <2>2 DEF Counted
<1>15. CASE FaultCopy
  <2>1. ~ EvictAbsent(page)
    BY Zenon, <1>2 DEF EvictAbsent
  <2>2. /\ pc = "copy" /\ pc' = "user" /\ UNCHANGED <<sz, pages_in_file, page_fault_counter>>
    BY Zenon, <1>15, <2>1 DEF FaultCopy, Return, counters
  <2>3. Beyond' = Beyond /\ Alive
    BY Zenon, <2>2 DEF Beyond, Limit, Alive, InKernel
  <2>. QED BY Zenon, <2>2, <2>3 DEF Counted
<1>16. CASE UNCHANGED vars
  BY Zenon, <1>1, <1>16 DEF vars, locals, counters
<1>17. CASE User
  BY ZenonT(40), <1>17, <1>20, <1>3, <1>4, <1>5, <1>6, <1>7, <1>8, <1>9 DEF User, Grow
<1>18. CASE Kernel
  BY Zenon, <1>18, <1>10, <1>11, <1>12, <1>13, <1>14, <1>15 DEF Kernel
<1>. QED BY Zenon, <1>16, <1>17, <1>18 DEF Next

(* The pages that are out are as many as those that do not fit the         *)
(* monitor, since each has one slot of a prefix of swap_monitor.           *)
LEMMA OutCount ==
  ASSUME IInv, pc = "user"
  PROVE  Cardinality(Out) = Beyond
<1>. TypeOK /\ Control /\ Shape /\ Distinct /\ Agree
  BY Zenon DEF IInv, Alive
<1>. DEFINE last == Beyond - 1
            Prefix == 0 .. last
            f == [i \in Prefix |-> swap_monitor[i].p_va]
<1>1. Beyond \in Nat /\ \A i \in Nat : i \in Prefix <=> i \in SwapIdx /\ InSlot(i)
  BY DEF Beyond, Limit, InSlot, Base, TypeOK
<1>2. IsFiniteSet(Prefix) /\ Cardinality(Prefix) = Beyond
  BY SMTT(30), <1>1, FS_Interval
<1>3. \A i \in Prefix : i \in SwapIdx /\ InSlot(i)
  BY <1>1
<1>4. \A i \in SwapIdx : swap_monitor[i].used <=> i \in Prefix
  <2>1. \A i \in SwapIdx : swap_monitor[i].used <=> InSlot(i)
    BY Zenon DEF Shape
  <2>. QED BY <1>1, <2>1
<1>. HIDE DEF Prefix
<1>5. f \in Bijection(Prefix, Out)
  <2>1. \A i \in Prefix : swap_monitor[i].p_va \in Out
    <3>1. \A i \in Prefix : swap_monitor[i].p_va \in Page
      BY Zenon, <1>3 DEF TypeOK
    <3>. QED BY Zenon, <1>3, <1>4, <3>1 DEF Out, Agree, HasSlot
  <2>2. \A i, j \in Prefix : f[i] = f[j] => i = j
    BY Zenon, <1>3 DEF Distinct
  <2>3. \A q \in Out : \E i \in Prefix : f[i] = q
    BY Zenon, <1>4 DEF Out, Agree, HasSlot
  <2>4. f \in [Prefix -> Out]
    BY Zenon, <2>1
  <2>. HIDE DEF f
  <2>5. f \in Injection(Prefix, Out)
    <3>1. DOMAIN f = Prefix
      BY Zenon, <2>4
    <3>. QED BY Zenon, <2>2, <2>4, <3>1 DEF Injection, IsInjective
  <2>6. f \in Surjection(Prefix, Out)
    BY Zenon, <2>3, <2>4 DEF Surjection
  <2>. QED BY Zenon, <2>5, <2>6 DEF Bijection
<1>. QED BY Zenon, <1>2, <1>5, FS_Bijection DEF ExistsBijection

(* What procdump prints is true: pages written out less pages faulted in   *)
(* are the pages that are out, whenever user code runs.                    *)
THEOREM CountersAgreeAlways == Spec => []CountersAgree
<1>1. Init => Counted
  BY DEF Init, Counted, Beyond, Limit
<1>2. IInv /\ Counted /\ [Next]_vars => Counted'
  BY Zenon, CountedStep
<1>3. IInv /\ Counted => CountersAgree
  BY Zenon, OutCount DEF Counted, CountersAgree, Alive
<1>. QED BY <1>1, <1>2, <1>3, Invariant, PTL DEF Spec
-----------------------------------------------------------------------------
(* Whatever sbrk, exec, a lack of memory and other processes have done to  *)
(* the monitors, no frame is given away while a page is mapped to it, and  *)
(* no two pages are mapped to one frame.                                   *)
THEOREM FramesSoundAlways == HazardSpec => []FramesSound
<1>1. Init => HInv
  <2>. SUFFICES ASSUME Init PROVE HInv
    OBVIOUS
  <2>1. IInv /\ pc = "user" /\ Alive
    BY Zenon, InitStep DEF Init, Alive
  <2>2. TypeOK /\ Owned /\ Shape
    BY Zenon, <2>1 DEF IInv
  <2>3. Walk /\ Places
    BY Zenon, <2>1, <2>2 DEF Walk, Places, Shape
  <2>4. Sound
    BY Zenon, <2>1, <2>2 DEF Sound, Owned
  <2>. QED BY Zenon, <2>2, <2>3, <2>4 DEF HInv
<1>2. HInv /\ [Next \/ Shrinks \/ Exec(ImagePages) \/ NoMemory \/ \E d \in Data : OtherFault(d)]_vars => HInv'
  BY Zenon, HazardStep
<1>3. HInv => FramesSound
  BY Zenon DEF HInv, FramesSound, Sound, Resident, Present
<1>. QED BY <1>1, <1>2, <1>3, PTL DEF HazardSpec
=============================================================================
