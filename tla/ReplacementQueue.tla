-------------------------- MODULE ReplacementQueue --------------------------
(***************************************************************************)
(* What the page replacement schemes of the README (Task 3) promise: a     *)
(* queue of the resident pages in the order they were created or loaded,   *)
(* from whose end (LIFO) or head (second-chance FIFO) the page to be       *)
(* replaced is taken.                                                      *)
(***************************************************************************)
EXTENDS Naturals, SequencesExt

CONSTANTS Page, Policy, Image   \* Image: the pages exec loads, in order

VARIABLES queue, referenced     \* referenced: pages whose PTE_A is set

Init == queue = Image /\ referenced = {}

Enter(p) ==
  /\ p \notin ToSet(queue)
  /\ queue' = Append(queue, p)
  /\ referenced' \in {referenced, referenced \cup {p}}

Reference(p) ==
  /\ p \in ToSet(queue)
  /\ referenced' = referenced \cup {p}
  /\ UNCHANGED queue

(* The oldest page was used since it was queued: clear its bit, requeue.   *)
SecondChance ==
  /\ Policy = "SCFIFO" /\ Head(queue) \in referenced
  /\ queue' = Append(Tail(queue), Head(queue))
  /\ referenced' = referenced \ {Head(queue)}

(* Page p takes the place of the page the scheme chooses.  A page that     *)
(* comes back from the file may count as used: the kernel has copied it.   *)
Replace(p) ==
  /\ p \notin ToSet(queue)
  /\ \/ Policy = "LIFO" /\ queue' = Append(Front(queue), p)
     \/ Policy = "SCFIFO" /\ Head(queue) \notin referenced /\ queue' = Append(Tail(queue), p)
  /\ referenced' \in {referenced, referenced \cup {p}}

Next == SecondChance \/ \E p \in Page : Enter(p) \/ Reference(p) \/ Replace(p)

Spec == Init /\ [][Next]_<<queue, referenced>>
=============================================================================
