--------------------------- MODULE LineDiscipline ---------------------------
(***************************************************************************)
(* What the console promises to those who type and those who read: typed   *)
(* characters collect in a line that can still be edited; a line that has  *)
(* been entered is never changed again, and is read in order.              *)
(***************************************************************************)
EXTENDS Integers, Sequences

CONSTANTS Char, Enter, Capacity   \* Enter: the characters that end a line

VARIABLES ready, line             \* what has been entered; what is edited

vars == <<ready, line>>

Init == ready = <<>> /\ line = <<>>

Full(s) == Len(ready) + Len(s) = Capacity

Type(c) ==
  /\ ~ Full(line)
  /\ LET s == Append(line, c)
     IN IF c \in Enter \/ Full(s)
        THEN ready' = ready \o s /\ line' = <<>>
        ELSE line' = s /\ UNCHANGED ready

Erase ==
  /\ \E k \in 0 .. Len(line) - 1 : line' = SubSeq(line, 1, k)
  /\ UNCHANGED ready

Take == ready # <<>> /\ ready' = Tail(ready) /\ UNCHANGED line

Next == Erase \/ Take \/ \E c \in Char : Type(c)

Spec == Init /\ [][Next]_vars
=============================================================================
