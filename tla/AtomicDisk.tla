----------------------------- MODULE AtomicDisk -----------------------------
(***************************************************************************)
(* What the log promises the file system: whole system calls reach the     *)
(* disk together or not at all, whenever the machine crashes.              *)
(***************************************************************************)
CONSTANTS Proc, Block, Data, Initial

VARIABLES current,   \* what system calls read and write
          durable,   \* what a crash leaves
          active     \* processes in the middle of a system call

vars == <<current, durable, active>>

Init ==
  /\ current = [b \in Block |-> Initial] /\ durable = current
  /\ active = {}

Begin(p) ==
  /\ active' = active \cup {p} /\ UNCHANGED <<current, durable>>

Write(p, b, d) ==
  /\ p \in active
  /\ current' = [current EXCEPT ![b] = d] /\ UNCHANGED <<durable, active>>

End(p) ==
  /\ active' = active \ {p} /\ UNCHANGED <<current, durable>>

(* Only between system calls.                                              *)
Commit ==
  /\ active = {}
  /\ durable' = current /\ UNCHANGED <<current, active>>

Crash ==
  /\ current' = durable /\ active' = {} /\ UNCHANGED durable

Next ==
  \/ \E p \in Proc : Begin(p) \/ End(p)
  \/ \E p \in Proc, b \in Block, d \in Data : Write(p, b, d)
  \/ Commit \/ Crash

Spec == Init /\ [][Next]_vars
=============================================================================
