------------------------------ MODULE Console -------------------------------
(***************************************************************************)
(* Input from the console (console.c): consoleintr edits the line that is  *)
(* being typed, in the buffer that consoleread takes the entered lines     *)
(* from.  The indices r, w and e only grow and are taken modulo UINT.  A   *)
(* reader holds cons.lock from its acquire to its sleep or its return.     *)
(***************************************************************************)
EXTENDS Integers, FiniteSets, Sequences

CONSTANTS Reader, INPUT_BUF, UINT,
          Counts         \* bound: how many characters a read asks for

Char == {"a", "\n", "^D"}                       \* what is stored
Key  == {"a", "\n", "\r", "^D", "^H", "^U"}     \* what is typed
NoOne == "none"

VARIABLES
  buf, r, w, e,      \* input
  lock,              \* the reader that has cons.lock, or NoOne
  pc, killed,
  n, dst             \* what a read still wants, and has

input == <<buf, r, w, e>>
vars  == <<input, lock, pc, killed, n, dst>>

Goto(p, l) == pc' = [pc EXCEPT ![p] = l]

Init ==
  /\ buf = [i \in 0 .. INPUT_BUF - 1 |-> "a"] /\ r = 0 /\ w = 0 /\ e = 0
  /\ lock = NoOne /\ pc = [p \in Reader |-> "user"] /\ killed = [p \in Reader |-> FALSE]
  /\ n = [p \in Reader |-> 0] /\ dst = [p \in Reader |-> <<>>]

At(i) == buf[(i % UINT) % INPUT_BUF]
Span(from, to) == (to - from) % UINT
-----------------------------------------------------------------------------
(* wakeup(&input.r)                                                        *)
WakeReaders == pc' = [p \in Reader |-> IF pc[p] = "asleep" THEN "acquire" ELSE pc[p]]

(* Faulty variant of Store: the reader is woken for a newline only.        *)
StoreSilent(c) ==
  /\ Span(r, e) < INPUT_BUF
  /\ buf' = [buf EXCEPT ![e % INPUT_BUF] = c] /\ e' = (e + 1) % UINT
  /\ IF c \in {"\n", "^D"} \/ e' = (r + INPUT_BUF) % UINT
     THEN w' = e' /\ (IF c = "\n" THEN WakeReaders ELSE UNCHANGED pc) ELSE UNCHANGED <<w, pc>>

(* The default case of consoleintr: one more character, and the line with  *)
(* it to the readers if it ends the line or fills the buffer.              *)
Store(c) ==
  /\ Span(r, e) < INPUT_BUF
  /\ buf' = [buf EXCEPT ![e % INPUT_BUF] = c] /\ e' = (e + 1) % UINT
  /\ IF c \in {"\n", "^D"} \/ e' = (r + INPUT_BUF) % UINT
     THEN w' = e' /\ WakeReaders ELSE UNCHANGED <<w, pc>>

(* Faulty variant of KillLine: it looks for a newline only.                *)
KillLineFar ==
  /\ LET k == CHOOSE k \in 0 .. INPUT_BUF :
                /\ k = INPUT_BUF \/ At(e - k - 1) = "\n"
                /\ \A j \in 0 .. k - 1 : At(e - j - 1) # "\n"
     IN e' = (e - k) % UINT
  /\ UNCHANGED <<buf, w, pc>>

(* ^U goes back to the last newline or to what has been entered.           *)
KillLine ==
  /\ LET k == CHOOSE k \in 0 .. Span(w, e) :
                /\ k = Span(w, e) \/ At(e - k - 1) = "\n"
                /\ \A j \in 0 .. k - 1 : At(e - j - 1) # "\n"
     IN e' = (e - k) % UINT
  /\ UNCHANGED <<buf, w, pc>>

Backspace == e # w /\ e' = (e - 1) % UINT /\ UNCHANGED <<buf, w, pc>>

(* The keyboard or the serial line interrupts: one turn of the loop of     *)
(* consoleintr.                                                            *)
consoleintr(c) ==
  /\ lock = NoOne
  /\ CASE c = "^U" -> KillLine
       [] c = "^H" -> Backspace
       [] c = "\r" -> Store("\n")
       [] OTHER    -> Store(c)
  /\ UNCHANGED <<r, lock, killed, n, dst>>
-----------------------------------------------------------------------------
(* read of the console, up to where it waits for cons.lock.                *)
fileread(p, k) ==
  /\ pc[p] = "user" /\ ~ killed[p]
  /\ n' = [n EXCEPT ![p] = k] /\ dst' = [dst EXCEPT ![p] = <<>>] /\ Goto(p, "acquire")
  /\ UNCHANGED <<input, lock, killed>>

acquire(p) ==
  /\ pc[p] = "acquire" /\ lock = NoOne
  /\ lock' = p /\ Goto(p, "loop") /\ UNCHANGED <<input, killed, n, dst>>

(* cons.lock is given back.  The read returns what it has put at dst.      *)
Return(p) ==
  /\ lock' = NoOne /\ Goto(p, "user")
  /\ n' = [n EXCEPT ![p] = 0] /\ dst' = [dst EXCEPT ![p] = <<>>]

(* One character is taken.  A ^D ends the read, and stays in the buffer    *)
(* for the next one if this read has something to return.                  *)
Take(p) ==
  IF At(r) = "^D"
  THEN r' = (IF dst[p] = <<>> THEN r + 1 ELSE r) % UINT /\ Return(p)
  ELSE /\ r' = (r + 1) % UINT
       /\ IF At(r) = "\n" THEN Return(p)
          ELSE /\ dst' = [dst EXCEPT ![p] = Append(@, At(r))] /\ n' = [n EXCEPT ![p] = @ - 1]
               /\ UNCHANGED <<lock, pc>>

(* One turn of the loops of consoleread.                                   *)
consoleread(p) ==
  /\ pc[p] = "loop"
  /\ \/ n[p] = 0 /\ Return(p) /\ UNCHANGED r
     \/ n[p] > 0 /\ r = w /\ killed[p] /\ Return(p) /\ UNCHANGED r
     \/ n[p] > 0 /\ r = w /\ ~ killed[p] /\ Goto(p, "sleep") /\ UNCHANGED <<r, lock, n, dst>>
     \/ n[p] > 0 /\ r # w /\ Take(p)
  /\ UNCHANGED <<buf, w, e, killed>>

sleep(p) ==
  /\ pc[p] = "sleep" /\ Goto(p, "asleep") /\ lock' = NoOne
  /\ UNCHANGED <<input, killed, n, dst>>

kill(p) ==
  /\ ~ killed[p] /\ killed' = [killed EXCEPT ![p] = TRUE]
  /\ Goto(p, IF pc[p] = "asleep" THEN "acquire" ELSE pc[p])
  /\ UNCHANGED <<input, lock, n, dst>>

Kernel(p) == acquire(p) \/ consoleread(p) \/ sleep(p)

Next ==
  \/ \E c \in Key : consoleintr(c)
  \/ \E p \in Reader : Kernel(p) \/ kill(p) \/ \E k \in Counts : fileread(p, k)

Spec == Init /\ [][Next]_vars

(* A process in the kernel goes on; cons.lock comes to all who wait.       *)
FairSpec == Spec /\ \A p \in Reader : WF_vars(consoleread(p) \/ sleep(p)) /\ SF_vars(acquire(p))
-----------------------------------------------------------------------------
L == INSTANCE LineDiscipline WITH
       Enter <- {"\n", "^D"}, Capacity <- INPUT_BUF,
       ready <- [i \in 1 .. Span(r, w) |-> At(r + i - 1)],
       line  <- [i \in 1 .. Span(w, e) |-> At(w + i - 1)]

(* Across the wrap of the indices, a full buffer and readers that stop in  *)
(* the middle of a line, the buffer is a line discipline: editing touches  *)
(* only what has not been entered, and a full buffer is always entered, so *)
(* that it can be emptied.                                                 *)
ImplementsLineDiscipline == L!Spec

(* A reader that is in consoleread when characters have been entered       *)
(* returns, unless other readers take them all.                            *)
Served(p) == (pc[p] # "user" /\ r # w) ~> (pc[p] = "user" \/ r = w)
=============================================================================
