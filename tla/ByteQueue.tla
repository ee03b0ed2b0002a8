----------------------------- MODULE ByteQueue ------------------------------
(***************************************************************************)
(* What a pipe promises its users: a bounded queue of bytes with two ends. *)
(* Bytes come out in the order they went in, and a receiver is told that   *)
(* there are no more only when the queue is empty and its input closed.    *)
(***************************************************************************)
EXTENDS Integers, Sequences, SequencesExt

CONSTANTS Byte, Capacity

VARIABLES queue, in, out,   \* the bytes; whether the ends are open
          got               \* what the latest receive returned

vars == <<queue, in, out, got>>

Init == queue = <<>> /\ in = TRUE /\ out = TRUE /\ got = <<>>

Send ==
  /\ in
  /\ \E s \in BoundedSeq(Byte, Capacity - Len(queue)) : queue' = queue \o s
  /\ UNCHANGED <<in, out, got>>

Receive ==
  /\ out /\ queue # <<>>
  /\ \E k \in 1 .. Len(queue) :
       got' = SubSeq(queue, 1, k) /\ queue' = SubSeq(queue, k + 1, Len(queue))
  /\ UNCHANGED <<in, out>>

EndOfInput ==
  /\ out /\ queue = <<>> /\ ~ in
  /\ got' = <<>> /\ UNCHANGED <<queue, in, out>>

CloseIn  == in /\ in' = FALSE /\ UNCHANGED <<queue, out, got>>
CloseOut == out /\ out' = FALSE /\ UNCHANGED <<queue, in, got>>

Next == Send \/ Receive \/ EndOfInput \/ CloseIn \/ CloseOut

Spec == Init /\ [][Next]_vars
=============================================================================
