------------------------------ MODULE Corridor ------------------------------
(***************************************************************************)
(* What the VIP channel promises, without the semaphores: a corridor that   *)
(* is crossed in one direction at a time, and in which the passengers going *)
(* to the gate may close the other entrance.  Whoever was admitted before   *)
(* the entrance closed may still cross; nobody else may.                    *)
(***************************************************************************)
CONSTANT Threads

VARIABLES
  closed,    \* the gate direction holds the entrance of the other direction
  admitted,  \* let in towards the special kiosk, not crossing yet
  toGate,    \* crossing to the gate
  toKiosk    \* crossing to the special kiosk

vars == <<closed, admitted, toGate, toKiosk>>

Init ==
  /\ closed = FALSE
  /\ admitted = {}
  /\ toGate = {}
  /\ toKiosk = {}

Close ==
  /\ ~closed
  /\ closed' = TRUE
  /\ UNCHANGED <<admitted, toGate, toKiosk>>

Open ==
  /\ closed /\ toGate = {}
  /\ closed' = FALSE
  /\ UNCHANGED <<admitted, toGate, toKiosk>>

EnterGate(t) ==
  /\ closed /\ toKiosk = {}
  /\ toGate' = toGate \cup {t}
  /\ UNCHANGED <<closed, admitted, toKiosk>>

LeaveGate(t) ==
  /\ t \in toGate
  /\ toGate' = toGate \ {t}
  /\ UNCHANGED <<closed, admitted, toKiosk>>

Admit(t) ==
  /\ ~closed
  /\ admitted' = admitted \cup {t}
  /\ UNCHANGED <<closed, toGate, toKiosk>>

EnterKiosk(t) ==
  /\ t \in admitted /\ toGate = {}
  /\ admitted' = admitted \ {t}
  /\ toKiosk' = toKiosk \cup {t}
  /\ UNCHANGED <<closed, toGate>>

LeaveKiosk(t) ==
  /\ t \in toKiosk
  /\ toKiosk' = toKiosk \ {t}
  /\ UNCHANGED <<closed, admitted, toGate>>

Next ==
  \/ Close \/ Open
  \/ \E t \in Threads : \/ EnterGate(t) \/ LeaveGate(t)
                        \/ Admit(t) \/ EnterKiosk(t) \/ LeaveKiosk(t)

Spec == Init /\ [][Next]_vars
=============================================================================
