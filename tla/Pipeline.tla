------------------------------ MODULE Pipeline ------------------------------
(***************************************************************************)
(* The shell runs "left | right" (sh.c, runcmd): it makes a pipe, forks    *)
(* the two commands, closes its own descriptors and waits.  The left       *)
(* command writes, and may fork a helper that writes too; the right one    *)
(* reads until it is told that there is no more.  Any process but the      *)
(* shell may be killed at any time.                                        *)
(***************************************************************************)
EXTENDS Pipe

CONSTANTS Sh, Left, Right, Helper,
          Writes, Reads,   \* bounds: what a call writes; how much it asks for
          MaxWrites        \* bound: the writes of one process

VARIABLES step,            \* how much of its preparation a process has done
          calls            \* how many times it has written; whether Right has read

allvars == <<vars, step, calls>>

(* Faulty variant of Preparation: the shell keeps its end for writing.     *)
PreparationKeepsEnd(p) ==
  CASE p = Sh    -> << <<"fork", Left>>, <<"fork", Right>>, <<"close", "r">> >>
    [] p = Left  -> << <<"dup", "w">>, <<"close", "r">>, <<"close", "w">> >>
    [] p = Right -> << <<"dup", "r">>, <<"close", "r">>, <<"close", "w">> >>
    [] OTHER     -> <<>>

(* What a process does before its command runs, the PIPE case of runcmd.   *)
Preparation(p) ==
  CASE p = Sh    -> << <<"fork", Left>>, <<"fork", Right>>, <<"close", "r">>, <<"close", "w">> >>
    [] p = Left  -> << <<"dup", "w">>, <<"close", "r">>, <<"close", "w">> >>
    [] p = Right -> << <<"dup", "r">>, <<"close", "r">>, <<"close", "w">> >>
    [] OTHER     -> <<>>

Prepared(p) == step[p] > Len(Preparation(p))

PInit == Init /\ step = [p \in Proc |-> 1] /\ calls = [p \in Proc |-> 0]

Prepare(p) ==
  /\ InUser(p) /\ ~ Prepared(p)
  /\ LET s == Preparation(p)[step[p]]
     IN CASE s[1] = "fork"  -> fork(p, s[2])
          [] s[1] = "dup"   -> dup(p, s[2])
          [] s[1] = "close" -> fileclose(p, s[2])
  /\ step' = [step EXCEPT ![p] = @ + 1] /\ UNCHANGED calls

(* The commands.  A left one stops when it has written enough or earlier.  *)
Produce(p) ==
  /\ p \in {Left, Helper} /\ Prepared(p) /\ calls[p] < MaxWrites
  /\ \E s \in Writes : filewrite(p, s)
  /\ calls' = [calls EXCEPT ![p] = @ + 1] /\ UNCHANGED step

Help ==
  /\ Prepared(Left) /\ fork(Left, Helper)
  /\ UNCHANGED <<step, calls>>

(* The latest read of the right command returned 0.                        *)
AtEnd == calls[Right] = 1 /\ ret = <<>>

Consume ==
  /\ Prepared(Right) /\ ~ AtEnd
  /\ \E k \in Reads : fileread(Right, k)
  /\ calls' = [calls EXCEPT ![Right] = 1] /\ UNCHANGED step

(* A left command is done, the right one has read to the end of input, or  *)
(* trap sends a killed process to exit: exit closes what is still open.    *)
Exit(p) ==
  /\ \/ killed[p]
     \/ p \in {Left, Helper} /\ Prepared(p)
     \/ p = Right /\ Prepared(p) /\ AtEnd
  /\ \E e \in End : fileclose(p, e)
  /\ UNCHANGED <<step, calls>>

Run(p) ==
  \/ Kernel(p) /\ UNCHANGED <<step, calls>>
  \/ Prepare(p) \/ Produce(p) \/ Exit(p)
  \/ p = Right /\ Consume

Next ==
  \/ \E p \in Proc : Run(p)
  \/ Help
  \/ \E p \in Proc \ {Sh} : ~ killed[p] /\ kill(p) /\ UNCHANGED <<step, calls>>

Spec == PInit /\ [][Next]_allvars

(* As long as a process can go on with its program, some process does;     *)
(* which one, whether Left makes a helper, and who is killed, is open.     *)
FairSpec == Spec /\ WF_allvars(\E p \in Proc : Run(p))
-----------------------------------------------------------------------------
(* Every pipeline comes to its end: the right command is told about the    *)
(* end of input, no writer is left asleep before a reader that is gone,    *)
(* and the pipe is freed, even if a kill falls between the test of killed  *)
(* and the sleep and so wakes nobody.                                      *)
PipelineEnds == <> freed
=============================================================================
