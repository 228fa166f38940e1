------------------------------- MODULE Ghost -------------------------------
(***************************************************************************)
(* Tracking a ghost in a room with obstacles (Offline 3, solution.cpp): after  *)
(* every reading of the sensor the belief in each cell is computed anew.  The  *)
(* program's probabilities are kept as whole weights of the same proportions,  *)
(* so that there is no rounding; Reduced stands for 100 / sum.               *)
(***************************************************************************)
EXTENDS Integers, FiniteSets, FiniteSetsExt, Functions, Sequences

CONSTANTS
  Rooms,         \* rooms: n, m and the blocked cells
  MaxReadings,   \* bound
  None

VARIABLES
  room,
  belief,        \* for each cell, the weight of the ghost being there
  likely,        \* what command C has printed since the last reading
  readings       \* history: where the sensor was and what it said

vars == <<room, belief, likely, readings>>

Cells == (0 .. room.n - 1) \X (0 .. room.m - 1)
Free == Cells \ room.blocked

Distance(i, j) == IF i < j THEN j - i ELSE i - j
Steps(c, d) == Distance(c[1], d[1]) + Distance(c[2], d[2])

IsAdjacent(c, d) == Steps(c, d) = 1
IsNeighbor(c, d) ==
  \/ Steps(c, d) <= 1
  \/ Distance(c[1], d[1]) = 1 /\ Distance(c[2], d[2]) = 1

\* The cells dx and dy lead to, of those the program does not skip.
Around(c) == {d \in Free : Distance(c[1], d[1]) <= 1 /\ Distance(c[2], d[2]) <= 1}

\* Mutant: the obstacles beside a cell are counted as ways out.
AllAdjacent(c) == Cardinality({d \in Cells : IsAdjacent(c, d)})

TotalAdjacent(c) == Cardinality({d \in Around(c) : IsAdjacent(c, d)})
TotalNeighbors(c) == Cardinality({d \in Around(c) : ~IsAdjacent(c, d)})

RECURSIVE Gcd(_, _)
Gcd(a, b) == IF b = 0 THEN a ELSE Gcd(b, a % b)

\* Weights of the same proportions, as small as they can be.
Reduced(w) ==
  LET g == FoldFunction(Gcd, 0, w) IN
  [c \in DOMAIN w |-> IF g = 0 THEN 0 ELSE w[c] \div g]

\* p / total_adjacent and (1 - p) / total_neighbors, 600 times.
Share(c, d) == IF IsAdjacent(c, d) THEN 540 \div TotalAdjacent(c) ELSE 60 \div TotalNeighbors(c)

\* Mutant: the sensor is heard the other way round.
AccuracySwapped(c, u, b) == IF IsNeighbor(c, u) = b THEN 3 ELSE 17

\* sensing_accuracy or what is left of it, 20 times.
Accuracy(c, u, b) == IF IsNeighbor(c, u) # b THEN 3 ELSE 17

\* Mutant: the ghost is where it was or has moved, whichever way it came.
PartialStays(w) ==
  [d \in Cells |-> w[d] + MapThenSumSet(LAMBDA c : w[c] * Share(c, d), {c \in Cells : d \in Around(c)})]

Partial(w) ==
  [d \in Cells |-> MapThenSumSet(LAMBDA c : w[c] * Share(c, d), {c \in Cells : d \in Around(c)})]

CalculateBelief(w, u, b) ==
  LET partial == Partial(w) IN Reduced([c \in Cells |-> partial[c] * Accuracy(c, u, b)])

Init ==
  /\ room \in Rooms
  /\ belief = [c \in Cells |-> IF c \in room.blocked THEN 0 ELSE 1]
  /\ likely = None
  /\ readings = <<>>

\* Command R
Reading(u, b) ==
  /\ Len(readings) < MaxReadings
  /\ belief' = CalculateBelief(belief, u, b)
  /\ readings' = Append(readings, <<u, b>>)
  /\ likely' = None
  /\ UNCHANGED room

\* Mutant: an equal belief takes the place of the one before it.
CasperLast ==
  /\ likely' = {CHOOSE c \in Free : \A d \in Free : belief[d] <= belief[c]}
  /\ UNCHANGED <<room, belief, readings>>

\* Command C: all cells of the greatest belief
Casper ==
  /\ likely' = {c \in Free : \A d \in Free : belief[d] <= belief[c]}
  /\ UNCHANGED <<room, belief, readings>>

Next == (\E u \in Cells, b \in BOOLEAN : Reading(u, b)) \/ Casper

Spec == Init /\ [][Next]_vars

-----------------------------------------------------------------------------
(* A reference: where the ghost may have walked *)

Walks ==
  {w \in [1 .. Len(readings) + 1 -> Free] : \A k \in 1 .. Len(readings) : IsNeighbor(w[k], w[k + 1])}

\* A step to one of the cells beside with nine in ten, to a corner or to none with the rest; a
\* ghost that has no cell beside it has only the rest.
StepWeight(c, d) ==
  LET beside == {e \in Free : IsAdjacent(c, e)}
      other == {e \in Free : IsNeighbor(c, e)} \ beside IN
  IF d \in beside THEN 540 \div Cardinality(beside)
  ELSE IF d \notin other THEN 0
  ELSE (IF beside = {} THEN 600 ELSE 60) \div Cardinality(other)

\* What the sensor says is right of a ghost within its reach and of one beyond it.
SaysWeight(c, reading) == IF IsNeighbor(c, reading[1]) = reading[2] THEN 17 ELSE 3

WalkWeight(walk) ==
  FoldFunction(LAMBDA x, y : x * y, 1,
    [k \in 1 .. Len(readings) |->
       StepWeight(walk[k], walk[k + 1]) * SaysWeight(walk[k + 1], readings[k])])

Posterior ==
  LET walks == Walks IN
  Reduced([c \in Cells |->
    MapThenSumSet(WalkWeight, {w \in walks : w[Len(readings) + 1] = c})])

TypeOK ==
  /\ room \in Rooms /\ belief \in [Cells -> Nat]
  /\ likely = None \/ likely \subseteq Free
  /\ \A k \in 1 .. Len(readings) : readings[k] \in Cells \X BOOLEAN

\* Every free cell has a free cell beside it.  Of a cell that has none, the program drops the
\* nine in ten.
NoneEnclosed == \A c \in Free : \E d \in Free : IsAdjacent(c, d)

\* After any readings the belief in a cell is in proportion to the walks that end there, each
\* as likely as its steps and what was heard on it; the cells that are printed are all those
\* where such a walk ends most likely (calculate_belief(), command C).
BeliefRight == NoneEnclosed =>
  LET posterior == Posterior IN
  /\ belief = posterior
  /\ likely # None => likely = {c \in Free : \A d \in Free : posterior[d] <= posterior[c]}

\* The ghost is somewhere, and never believed to be, nor reported, where an obstacle is.
SomewhereFree ==
  /\ SumFunction(belief) > 0 /\ likely # {}
  /\ \A c \in room.blocked : belief[c] = 0

Inv == TypeOK /\ BeliefRight /\ SomewhereFree
=============================================================================
