------------------------------ MODULE MCKernel ------------------------------
(***************************************************************************)
(* Processes and what they meet in: the process table (proc.c), a pipe and *)
(* its pipeline (pipe.c, sh.c), the console (console.c), and a program's   *)
(* heap (umalloc.c).  The modules share no state: a behaviour is that of   *)
(* one unit, chosen at the start, while the others rest.  The constants of *)
(* the configuration are those of the table: two CPUs, and slots that run  *)
(* out.                                                                    *)
(***************************************************************************)
EXTENDS Ptable, Sequences, TLC

CONSTANTS sh, left, right, helper, r1, r2, Off

VARIABLES
  unit,
  data, nread, nwrite, readopen, writeopen, freed, plock, ppc, pkilled, fd, addr, n, ret, step,
  calls,
  buf, r, w, e, clock, cpc, ckilled, cn, dst,
  list, brk, live, pte1, ro, ukilled

pvars == <<data, nread, nwrite, readopen, writeopen, freed, plock, ppc, pkilled, fd, addr, n,
           ret, step, calls>>
cvars == <<buf, r, w, e, clock, cpc, ckilled, cn, dst>>
uvars == <<list, brk, live, pte1, ro, ukilled>>

P == INSTANCE Pipeline WITH
  Sh <- sh, Left <- left, Right <- right, Helper <- helper, First <- sh,
  Proc <- {sh, left, right, helper}, Byte <- {0, 1}, PIPESIZE <- 2, UINT <- 4,
  Writes <- {<<0>>, <<1, 0, 0>>}, Reads <- {2}, MaxWrites <- 1,
  lock <- plock, pc <- ppc, killed <- pkilled

C == INSTANCE Console WITH
  Reader <- {r1, r2}, INPUT_BUF <- 3, UINT <- 6, Counts <- {2},
  lock <- clock, pc <- cpc, killed <- ckilled, n <- cn

U == INSTANCE Umalloc WITH
  PGSIZE <- 3, NALLOC <- 6, Top <- 18, MaxLive <- 4, Requests <- {2, 7}, killed <- ukilled
-----------------------------------------------------------------------------
(* A unit that rests; the table rests in its initial state.                *)
PipeRests ==
  /\ data = Off /\ nread = Off /\ nwrite = Off /\ readopen = Off /\ writeopen = Off
  /\ freed = Off /\ plock = Off /\ ppc = Off /\ pkilled = Off /\ fd = Off /\ addr = Off
  /\ n = Off /\ ret = Off /\ step = Off /\ calls = Off

ConsoleRests ==
  /\ buf = Off /\ r = Off /\ w = Off /\ e = Off /\ clock = Off /\ cpc = Off
  /\ ckilled = Off /\ cn = Off /\ dst = Off

HeapRests ==
  /\ list = Off /\ brk = Off /\ live = Off /\ pte1 = Off /\ ro = Off /\ ukilled = Off

AllInit ==
  /\ Init
  /\ \/ unit = "table" /\ PipeRests /\ ConsoleRests /\ HeapRests
     \/ unit = "pipeline" /\ P!PInit /\ ConsoleRests /\ HeapRests
     \/ unit = "console" /\ C!Init /\ PipeRests /\ HeapRests
     \/ unit = "heap" /\ U!Init /\ PipeRests /\ ConsoleRests

AllNext ==
  \/ unit = "table" /\ Next /\ UNCHANGED <<unit, pvars, cvars, uvars>>
  \/ unit = "pipeline" /\ P!Next /\ UNCHANGED <<unit, vars, cvars, uvars>>
  \/ unit = "console" /\ C!Next /\ UNCHANGED <<unit, vars, pvars, uvars>>
  \/ unit = "heap" /\ U!Next /\ UNCHANGED <<unit, vars, pvars, cvars>>

AllSpec == AllInit /\ [][AllNext]_<<unit, vars, pvars, cvars, uvars>>

Symmetry == Permutations(CPU)
-----------------------------------------------------------------------------
(* OneCpu, FamilyTree, SwapFileKept and WakeupNotMissed are those of       *)
(* Ptable.                                                                 *)

(* The page of a pipe is freed when the last descriptor is closed and      *)
(* nobody works on it, not before (pipeclose).                             *)
FreedLast == unit = "pipeline" => P!FreedLast

(* A pipe is a bounded queue of bytes: across the wrap of the counters and *)
(* the sleeps in the middle of a write, bytes come out as they went in,    *)
(* none twice, and end of input is reported only after the last of them.   *)
ImplementsByteQueue ==
  /\ unit = "pipeline" => P!Q!Init
  /\ [][unit = "pipeline" => [P!Q!Next]_(P!Q!vars)]_pvars

(* Across the wrap of the indices, a full buffer and readers that stop in  *)
(* the middle of a line, the input of the console is a line discipline.    *)
ImplementsLineDiscipline ==
  /\ unit = "console" => C!L!Init
  /\ [][unit = "console" => [C!L!Next]_(C!L!vars)]_cvars

(* Blocks and free chunks of a program's heap never overlap, and the free  *)
(* list is one circle in the order of addresses without chunks left apart  *)
(* (umalloc.c).                                                            *)
HeapSound == unit = "heap" => U!HeapSound
=============================================================================
