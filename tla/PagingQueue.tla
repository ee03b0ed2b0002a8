---------------------------- MODULE PagingQueue -----------------------------
(***************************************************************************)
(* ram_monitor with its place_in_queue numbers, and the loops that search  *)
(* it, implement the queue of the replacement scheme.                      *)
(***************************************************************************)
EXTENDS Paging

S == INSTANCE SequencesExt

ByPlace ==
  S!SetToSortSeq(UsedRam, LAMBDA i, j : ram_monitor[i].place_in_queue < ram_monitor[j].place_in_queue)

Queue == [k \in DOMAIN ByPlace |-> ram_monitor[ByPlace[k]].p_va]

Referenced ==
  IF Policy = "SCFIFO" THEN {p \in Entered : "A" \in flags[p]} ELSE {}

R == INSTANCE ReplacementQueue WITH
       queue <- Queue, referenced <- Referenced, Image <- [k \in 1 .. ImagePages |-> k - 1]

(* Every step of the monitors is a step of the replacement queue: pages    *)
(* enter at its tail, the victim is the page the scheme names, and only a  *)
(* page used since it was queued is given a second chance.                 *)
ImplementsQueue == R!Spec
=============================================================================
