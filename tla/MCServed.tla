------------------------------ MODULE MCServed ------------------------------
(***************************************************************************)
(* The page allocator while the machine boots (kalloc.c, main.c), the      *)
(* paging of a process (vm.c) and a pipeline (pipe.c, sh.c): pages are     *)
(* given to one user at a time, and page faults, sbrk and pipelines come   *)
(* to their ends.  The modules share no state: a behaviour is that of one  *)
(* unit, chosen at the start, while the others rest.  The constants of the *)
(* allocator are those of the configuration.                               *)
(***************************************************************************)
EXTENDS Kmem

CONSTANTS g1, g2, g3, g4, f1, f2, f3, f4, NoFrame, sh, left, right, helper

VARIABLES
  unit,
  gpc, sz, newsz, cur, req, np, page, flags, frame, ram_monitor, swap_monitor, last_in_queue,
  file, fsize, buff, free, mem, pages_in_file, page_fault_counter, val,
  data, nread, nwrite, readopen, writeopen, freed, plock, ppc, killed, fd, addr, n, ret, step,
  calls

LowPages == <<g1, g2, g3>>
HighPages == <<g4>>

gvars == <<gpc, sz, newsz, cur, req, np, page, flags, frame, ram_monitor, swap_monitor,
           last_in_queue, file, fsize, buff, free, mem, pages_in_file, page_fault_counter, val>>
pvars == <<data, nread, nwrite, readopen, writeopen, freed, plock, ppc, killed, fd, addr, n,
           ret, step, calls>>
all == <<unit, vars, gvars, pvars>>

G == INSTANCE PagingQueue WITH
  MAX_PYSC_PAGES <- 3, MAX_TOTAL_PAGES <- 4, Policy <- "SCFIFO", ImagePages <- 3,
  Frames <- {f1, f2, f3, f4}, Data <- {0}, Zero <- 0, MaxQueue <- 7, pc <- gpc

P == INSTANCE Pipeline WITH
  Sh <- sh, Left <- left, Right <- right, Helper <- helper, First <- sh,
  Proc <- {sh, left, right, helper}, Byte <- {0}, PIPESIZE <- 1, UINT <- 2,
  Writes <- {<<0, 0>>}, Reads <- {1}, MaxWrites <- 1, lock <- plock, pc <- ppc

PagingRests ==
  /\ gpc = NoFrame /\ sz = NoFrame /\ newsz = NoFrame /\ cur = NoFrame /\ req = NoFrame
  /\ np = NoFrame /\ page = NoFrame /\ flags = NoFrame /\ frame = NoFrame
  /\ ram_monitor = NoFrame /\ swap_monitor = NoFrame /\ last_in_queue = NoFrame
  /\ file = NoFrame /\ fsize = NoFrame /\ buff = NoFrame /\ free = NoFrame /\ mem = NoFrame
  /\ pages_in_file = NoFrame /\ page_fault_counter = NoFrame /\ val = NoFrame

AllInit ==
  /\ \/ unit = "paging" /\ G!Init
     \/ unit \in {"boot", "pipeline"} /\ PagingRests
  /\ P!PInit /\ Init

Booting  == unit = "boot" /\ UNCHANGED <<unit, gvars, pvars>>
Faulting == unit = "paging" /\ UNCHANGED <<unit, vars, pvars>>
Piping   == unit = "pipeline" /\ UNCHANGED <<unit, vars, gvars>>

AllNext ==
  \/ Booting /\ Next
  \/ Faulting /\ G!Next
  \/ Piping /\ P!Next

(* The fairness of both specifications.  Only the actions of one unit are  *)
(* ever enabled, so that fairness of Kernel and of Run is fairness of      *)
(* their disjunction.                                                      *)
AllFair ==
  /\ AllInit /\ [][AllNext]_all
  /\ WF_all((Faulting /\ G!Kernel) \/ (Piping /\ \E p \in {sh, left, right, helper} : P!Run(p)))
-----------------------------------------------------------------------------
(* PagesExclusive is that of Kmem.                                         *)

(* A page fault and sbrk come to their ends (vm.c): see Paging.            *)
PagingEnds == unit = "paging" => G!PagingEnds

(* With second chances, too, every step of the monitors is a step of the   *)
(* replacement queue (vm.c, select_SCFIFO).                                *)
SecondChanceQueue ==
  /\ unit = "paging" => G!R!Init
  /\ [][unit = "paging" => [G!R!Next]_<<G!Queue, G!Referenced>>]_gvars

(* Every pipeline comes to its end: see Pipeline (pipe.c, sh.c).           *)
PipelineEnds == unit = "pipeline" => P!PipelineEnds
=============================================================================
