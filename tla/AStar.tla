------------------------------- MODULE AStar -------------------------------
(***************************************************************************)
(* The sliding puzzle: boards (Board2D.cpp), the estimates of the moves they   *)
(* need (heuristics/), and the search of astar.cpp, on the boards that main()  *)
(* lets through.  A board gives each cell, row by row from 0, its tile,        *)
(* counted from 0; the last number is the blank.  A step is one round of the   *)
(* loop of the search.  Of the entries of the queue with the least f any may   *)
(* come first: priority_queue says nothing about them.  The queue of a board   *)
(* that can be solved never runs empty.                                        *)
(***************************************************************************)
EXTENDS Integers, Sequences, FiniteSets, Functions

CONSTANTS
  K,             \* rows and columns of the board
  Searches,      \* pairs of a board that is read in and the name of a heuristic
  None

VARIABLES
  start, heuristic,
  pq,                  \* pairs <<f, board>>
  dist, prevMove,      \* maps from the boards found
  result

vars == <<start, heuristic, pq, dist, prevMove, result>>

-----------------------------------------------------------------------------
(* Boards *)

Cells == 0 .. K * K - 1
Blank == K * K - 1
Row(c) == c \div K
Col(c) == c % K

Goal == [c \in Cells |-> c]

\* D, R, U, L; the opposite of d is its dir^2.
Directions == 0 .. 3
dx == [d \in Directions |-> <<1, 0, -1, 0>>[d + 1]]
dy == [d \in Directions |-> <<0, 1, 0, -1>>[d + 1]]
Opposite(d) == (d + 2) % 4

Clamp(x) == IF x < 0 THEN 0 ELSE IF x > K - 1 THEN K - 1 ELSE x

\* At the edge the blank changes places with itself.
Beside == [c \in Cells |-> [d \in Directions |->
             Clamp(Row(c) + dx[d]) * K + Clamp(Col(c) + dy[d])]]

NextMove(b, d) ==
  LET c == CHOOSE i \in Cells : b[i] = Blank
      e == Beside[c][d] IN
  [b EXCEPT ![c] = b[e], ![e] = Blank]

IsFinal(b) == \A c \in Cells \ {0} : b[c] > b[c - 1]

Pairs == {x \in Cells \X Cells : x[1] < x[2]}
Inversions(b) == Cardinality({x \in Pairs : b[x[1]] # Blank /\ b[x[1]] > b[x[2]] /\ b[x[2]] # Blank})

IsSolvable(b) ==
  LET row == Row(CHOOSE i \in Cells : b[i] = Blank) IN
  IF K % 2 = 1 THEN Inversions(b) % 2 = 0 ELSE row % 2 # Inversions(b) % 2

-----------------------------------------------------------------------------
(* The heuristics *)

Hamming(b) == K * K - 1 - Cardinality({c \in Cells \ {Blank} : b[c] = c})

Distance(x, y) == IF x < y THEN y - x ELSE x - y
Away == [c \in Cells |-> [t \in Cells |->
           IF t = Blank THEN 0 ELSE Distance(Row(c), Row(t)) + Distance(Col(c), Col(t))]]

Manhattan(b) == FoldFunctionOnSet(+, 0, [c \in Cells |-> Away[c][b[c]]], Cells)

RowPairs == {x \in Pairs : Row(x[1]) = Row(x[2])}
InRow(b, x) == Row(b[x[1]]) = Row(x[1]) /\ Row(b[x[2]]) = Row(x[1])

\* Mutant: the blank is counted as a tile of its row.
ConflictsOfBlank(b) == Cardinality({x \in RowPairs : b[x[1]] > b[x[2]] /\ InRow(b, x)})

\* Pairs of tiles in their row that are in the wrong order.
RowConflicts(b) ==
  Cardinality({x \in RowPairs : b[x[1]] > b[x[2]] /\ b[x[1]] # Blank /\ InRow(b, x)})

LinearConflict(b) == Manhattan(b) + 2 * RowConflicts(b)

-----------------------------------------------------------------------------
(* The search *)

Estimate(name, b) ==
  CASE name = "Dummy" -> 0
    [] name = "Hamming" -> Hamming(b)
    [] name = "Manhattan" -> Manhattan(b)
    [] OTHER -> LinearConflict(b)

Unsolvable == -2

\* main(): a board that cannot be solved is not searched.
Init ==
  /\ \E s \in Searches : start = s[1] /\ heuristic = s[2]
  /\ pq = {<<Estimate(heuristic, start), start>>}
  /\ dist = [b \in {start} |-> 0]
  /\ prevMove = [b \in {start} |-> -1]
  /\ result = IF IsSolvable(start) THEN None ELSE Unsolvable

Tops == {x \in pq : \A y \in pq : x[1] <= y[1]}

\* Mutant: a board that was found before is left as it was found.
FirstFound(b, g) == b \notin DOMAIN dist

Improves(b, g) == IF b \in DOMAIN dist THEN dist[b] > g ELSE TRUE

\* The popped board is taken to its four neighbours.
Expand(b, g) ==
  LET moved == {d \in Directions : Improves(NextMove(b, d), g + 1)}
      to(d) == NextMove(b, d)
      found == {to(d) : d \in moved}
      by(n) == CHOOSE d \in moved : to(d) = n IN
  /\ pq' = (pq \ {<<g + Estimate(heuristic, b), b>>})
             \cup {<<g + 1 + Estimate(heuristic, n), n>> : n \in found}
  /\ dist' = [n \in DOMAIN dist \cup found |-> IF n \in found THEN g + 1 ELSE dist[n]]
  /\ prevMove' = [n \in DOMAIN dist \cup found |-> IF n \in found THEN by(n) ELSE prevMove[n]]
  /\ UNCHANGED result

\* An entry whose board was found on a shorter way since is left.
Pop(x) ==
  LET b == x[2]
      g == x[1] - Estimate(heuristic, b) IN
  /\ result = None
  /\ \/ /\ IsFinal(b)
        /\ result' = g /\ pq' = pq \ {x}
        /\ UNCHANGED <<dist, prevMove>>
     \/ /\ ~IsFinal(b) /\ dist[b] # g
        /\ pq' = pq \ {x}
        /\ UNCHANGED <<dist, prevMove, result>>
     \/ ~IsFinal(b) /\ dist[b] = g /\ Expand(b, g)
  /\ UNCHANGED <<start, heuristic>>

Next == \E x \in Tops : Pop(x)

Spec == Init /\ [][Next]_vars

-----------------------------------------------------------------------------
(* printPath() walks back along prevMove. *)

PathBack[n \in Nat] ==
  IF n = 0 THEN Goal ELSE LET b == PathBack[n - 1] IN NextMove(b, Opposite(prevMove[b]))
=============================================================================
