----------------------------- MODULE BlockStore -----------------------------
(***************************************************************************)
(* What the buffer cache promises: blocks that one process at a time can   *)
(* have, and that hold what was last put into them.                        *)
(***************************************************************************)
CONSTANTS Proc, Block, Data, NoOne, Initial

VARIABLES content, holder

vars == <<content, holder>>

Init == content = [k \in Block |-> Initial] /\ holder = [k \in Block |-> NoOne]

Get(p, k) ==
  /\ holder[k] = NoOne /\ holder' = [holder EXCEPT ![k] = p]
  /\ UNCHANGED content

Put(p, k, d) ==
  /\ holder[k] = p /\ content' = [content EXCEPT ![k] = d]
  /\ UNCHANGED holder

Release(p, k) ==
  /\ holder[k] = p /\ holder' = [holder EXCEPT ![k] = NoOne]
  /\ UNCHANGED content

Next ==
  \E p \in Proc, k \in Block :
    Get(p, k) \/ Release(p, k) \/ \E d \in Data : Put(p, k, d)

Spec == Init /\ [][Next]_vars
=============================================================================
