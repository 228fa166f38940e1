------------------------------ MODULE BlockStore ------------------------------
(***************************************************************************)
(* What the buffer cache promises: every block has one content, which only  *)
(* the process that has the block locked changes.                           *)
(***************************************************************************)
CONSTANTS Blocks, Procs, Value, None

VARIABLES content, owner

vars == <<content, owner>>

Init == content \in [Blocks -> Value] /\ owner = [k \in Blocks |-> None]

Lock(p, k) ==
  /\ owner[k] = None
  /\ owner' = [owner EXCEPT ![k] = p]
  /\ UNCHANGED content

Write(p, k) ==
  /\ owner[k] = p
  /\ \E v \in Value : content' = [content EXCEPT ![k] = v]
  /\ UNCHANGED owner

Unlock(p, k) ==
  /\ owner[k] = p
  /\ owner' = [owner EXCEPT ![k] = None]
  /\ UNCHANGED content

Next == \E p \in Procs, k \in Blocks : Lock(p, k) \/ Write(p, k) \/ Unlock(p, k)

Spec == Init /\ [][Next]_vars
=============================================================================
