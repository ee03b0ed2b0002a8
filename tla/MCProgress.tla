----------------------------- MODULE MCProgress -----------------------------
(***************************************************************************)
(* Who waits for what: spinlocks (spinlock.c), and what must happen in the *)
(* process table, the console and the log.  The modules share no state: a  *)
(* behaviour is that of one unit, chosen at the start, while the others    *)
(* rest.  The constants of the configuration are those of the spinlocks.   *)
(***************************************************************************)
EXTENDS Spinlock

CONSTANTS c1, r1, r2, p1, p2, b1, b2, NoBlock, NoData

VARIABLES
  unit,
  state, pid, parent, killed, chan, nextpid, running, scan, pc, np, due, files, tpanicked,
  buf, r, w, e, clock, cpc, ckilled, cn, dst,
  mode, lpc, lbuf, wrote, outstanding, committing, lh, lstep, tail, cache, dirty, head,
  logblock, home, lcalls, crashes

tvars == <<state, pid, parent, killed, chan, nextpid, running, scan, pc, np, due, files,
           tpanicked>>
cvars == <<buf, r, w, e, clock, cpc, ckilled, cn, dst>>
lvars == <<mode, lpc, lbuf, wrote, outstanding, committing, lh, lstep, tail, cache, dirty,
           head, logblock, home, lcalls, crashes>>
all == <<unit, vars, tvars, cvars, lvars>>

(* There is one lock of each class.                                        *)
LockClass == [k \in Locks |-> k]

T == INSTANCE Ptable WITH NPROC <- 3, CPU <- {c1}, MaxPid <- 3, panicked <- tpanicked

C == INSTANCE Console WITH
  Reader <- {r1, r2}, INPUT_BUF <- 2, UINT <- 4, Counts <- {1},
  lock <- clock, pc <- cpc, killed <- ckilled, n <- cn

L == INSTANCE Log WITH
  Proc <- {p1, p2}, Block <- {b1, b2}, Data <- {0, 1}, Initial <- 0, MAXOPBLOCKS <- 2,
  LOGSIZE <- 3, nlog <- 3, OpBlocks <- 1, MaxCalls <- 2, MaxCrashes <- 1,
  pc <- lpc, buf <- lbuf, step <- lstep, calls <- lcalls
-----------------------------------------------------------------------------
AllInit ==
  /\ unit \in {"locks", "table", "console", "log"}
  /\ Init /\ T!Init /\ C!Init /\ L!Init

Locking  == unit = "locks" /\ UNCHANGED <<unit, tvars, cvars, lvars>>
Table    == unit = "table" /\ UNCHANGED <<unit, vars, cvars, lvars>>
Console  == unit = "console" /\ UNCHANGED <<unit, vars, tvars, lvars>>
Logging  == unit = "log" /\ UNCHANGED <<unit, vars, tvars, cvars>>

AllNext ==
  \/ Locking /\ Next
  \/ Table /\ T!Next
  \/ Console /\ C!Next
  \/ Logging /\ L!Next

(* The fairness of the specifications that have one.  Only the actions of  *)
(* one unit are ever enabled, so that fairness of an action of one unit    *)
(* and of an action of another is fairness of their disjunction.           *)
Reads(p) == Console /\ (C!consoleread(p) \/ C!sleep(p))
Logs(p) == Logging /\ (L!begin_op(p) \/ L!log_write(p) \/ L!done(p))

AllFair ==
  /\ AllInit /\ [][AllNext]_all
  /\ WF_all((Table /\ T!tick) \/ (Logging /\ L!System))
  /\ WF_all((Table /\ T!yield(1)) \/ Reads(r1) \/ Logs(p1))
  /\ WF_all((Table /\ T!yield(2)) \/ Reads(r2) \/ Logs(p2))
  /\ WF_all(Table /\ T!yield(3))
  /\ WF_all(Table /\ T!scheduler(c1))
  /\ SF_all((Table /\ T!Kernel(1)) \/ (Console /\ C!acquire(r1)) \/ (Logging /\ L!end_op(p1)))
  /\ SF_all((Table /\ T!Kernel(2)) \/ (Console /\ C!acquire(r2)) \/ (Logging /\ L!end_op(p2)))
  /\ SF_all(Table /\ T!Kernel(3))
  /\ SF_all(Table /\ T!wait(T!initproc))
-----------------------------------------------------------------------------
(* LocksExclude and NoSpinForEver are those of Spinlock.                   *)

(* A killed process exits, wherever it slept (proc.c): see Ptable.         *)
KilledDies == T!KilledDies

(* Zombies whose parents have died are reaped by init (proc.c).            *)
OrphansReaped == T!OrphansReaped

(* A reader in consoleread is served when characters have been entered     *)
(* (console.c), unless other readers take them all.  The readers are alike *)
(* in the specification and its fairness: one stands for both.             *)
LineServed == C!Served(r1)

(* Every call that waits in begin_op is let in (log.c), or the machine     *)
(* crashes.  The callers are alike: one stands for both.                   *)
CallsAdmitted == L!Admitted(p1)
=============================================================================
