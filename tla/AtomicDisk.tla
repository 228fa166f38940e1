------------------------------ MODULE AtomicDisk ------------------------------
(***************************************************************************)
(* What the log of the file system promises: a disk whose blocks change     *)
(* together, at moments when no operation is in progress.  A crash takes    *)
(* back what was written since the last such moment, and nothing else.      *)
(***************************************************************************)
CONSTANTS Blocks, Value, Ops

VARIABLES
  stable,      \* what a restart finds
  current,     \* what the running system reads
  active       \* the operations in progress

vars == <<stable, current, active>>

Init == stable \in [Blocks -> Value] /\ current = stable /\ active = {}

Begin(o) ==
  /\ o \notin active
  /\ active' = active \cup {o}
  /\ UNCHANGED <<stable, current>>

Write(o) ==
  /\ o \in active
  /\ \E b \in Blocks, v \in Value : current' = [current EXCEPT ![b] = v]
  /\ UNCHANGED <<stable, active>>

End(o) ==
  /\ o \in active
  /\ active' = active \ {o}
  /\ UNCHANGED <<stable, current>>

Commit ==
  /\ active = {}
  /\ stable' = current
  /\ UNCHANGED <<current, active>>

Crash ==
  /\ current' = stable /\ active' = {}
  /\ UNCHANGED stable

Next == (\E o \in Ops : Begin(o) \/ Write(o) \/ End(o)) \/ Commit \/ Crash

Spec == Init /\ [][Next]_vars
=============================================================================
