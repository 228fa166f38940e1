------------------------------- MODULE Umalloc -------------------------------
(***************************************************************************)
(* malloc() and free() of the xv6 user library (umalloc.c), of one process.  *)
(* Memory is counted in units of a Header; the heap the process has from      *)
(* sbrk() is 1 .. brk, and the Header base is below it.  A block is known by  *)
(* the address of its header.  The free blocks are a ring in the order of     *)
(* their addresses, entered at freep.                                         *)
(***************************************************************************)
EXTENDS Naturals, FiniteSets

CONSTANTS
  HeapLimit,     \* bound: what sbrk() can give
  MoreCore,      \* the least morecore() asks for, 4096
  Requests       \* sizes asked for, the header included

HeapAssumption == HeapLimit \in Nat /\ MoreCore \in Nat /\ Requests \subseteq Nat \ {0}

Base == 0
Heap == 1 .. HeapLimit
Blocks == {Base} \cup Heap
NoRing == HeapLimit + 1

VARIABLES
  ptr, size,     \* union header; an address without a free block has 0 units, and Base
  freep,
  brk,
  used,          \* the blocks the program holds, with their sizes
  nunits, prevp  \* what the call of malloc() under way asks for, or 0, and where it looks

vars == <<ptr, size, freep, brk, used, nunits, prevp>>

Init ==
  /\ ptr = [b \in Blocks |-> Base] /\ size = [b \in Blocks |-> 0]
  /\ freep = NoRing
  /\ brk = 0 /\ used = [b \in Heap |-> 0] /\ nunits = 0 /\ prevp = Base

Free == {b \in Blocks : b = Base \/ size[b] > 0}

-----------------------------------------------------------------------------
\* The place of bp in the ring: the loop of free() ends there.
Before(bp) == CHOOSE p \in Free :
  \/ p < bp /\ bp < ptr[p]
  \/ ptr[p] <= p /\ (p < bp \/ bp < ptr[p])

\* Mutant: a block is not joined to the one before it.
JoinUpper(bp, n) ==
  LET p == Before(bp)
      up == bp + n = ptr[p] IN
  /\ size' = [size EXCEPT ![bp] = IF up THEN n + size[ptr[p]] ELSE n,
                          ![ptr[p]] = IF up THEN 0 ELSE @]
  /\ ptr' = [ptr EXCEPT ![bp] = IF up THEN ptr[ptr[p]] ELSE ptr[p], ![p] = bp]
  /\ freep' = p

\* free(): bp is joined to the block after it, and to the one before.  (base has no units,
\* and a header with none takes no part.)
Join(bp, n) ==
  LET p == Before(bp)
      next == ptr[p]
      up == bp + n = next
      down == p + size[p] = bp
      all == IF up THEN n + size[next] ELSE n
      after == IF up THEN ptr[next] ELSE next IN
  /\ size' = [b \in Blocks |->
       IF b = p /\ down THEN size[p] + all
       ELSE IF b = bp THEN IF down THEN 0 ELSE all
       ELSE IF b = next /\ up THEN 0 ELSE size[b]]
  /\ ptr' = [b \in Blocks |->
       IF b = p THEN IF down THEN after ELSE bp
       ELSE IF b = bp THEN IF down THEN Base ELSE after
       ELSE IF b = next /\ up THEN Base ELSE ptr[b]]
  /\ freep' = p

FreeBlock == \E bp \in Heap :
  /\ nunits = 0 /\ used[bp] > 0
  /\ Join(bp, used[bp])
  /\ used' = [used EXCEPT ![bp] = 0]
  /\ UNCHANGED <<brk, nunits, prevp>>

-----------------------------------------------------------------------------
\* Mutant: a block of the size asked for is cut as a larger one is, and stays in the ring.
TakeTail(prev, n) ==
  LET p == ptr[prev] IN
  /\ size' = [size EXCEPT ![p] = @ - n]
  /\ used' = [used EXCEPT ![p + size[p] - n] = n]
  /\ UNCHANGED ptr

\* A block of the size is taken out; of a larger one, the tail is.
Take(prev, n) ==
  LET p == ptr[prev] IN
  IF size[p] = n
  THEN /\ ptr' = [ptr EXCEPT ![prev] = ptr[p], ![p] = Base]
       /\ size' = [size EXCEPT ![p] = 0]
       /\ used' = [used EXCEPT ![p] = n]
  ELSE /\ size' = [size EXCEPT ![p] = @ - n]
       /\ used' = [used EXCEPT ![p + size[p] - n] = n]
       /\ UNCHANGED ptr

\* malloc() is called; the first call makes the ring of base alone.
Call == \E n \in Requests :
  /\ nunits = 0 /\ nunits' = n
  /\ freep' = IF freep = NoRing THEN Base ELSE freep
  /\ prevp' = freep'
  /\ UNCHANGED <<ptr, size, brk, used>>

Fits == size[ptr[prevp]] >= nunits

\* The first block that is large enough is given, or part of it.
Malloc ==
  /\ nunits > 0 /\ Fits
  /\ Take(prevp, nunits)
  /\ freep' = prevp /\ nunits' = 0 /\ prevp' = Base
  /\ UNCHANGED brk

LookOn ==
  /\ nunits > 0 /\ ~Fits /\ ptr[prevp] # freep
  /\ prevp' = ptr[prevp]
  /\ UNCHANGED <<ptr, size, freep, brk, used, nunits>>

\* After a round morecore() hands new memory to free(), and malloc() goes on from where that
\* was put; without new memory it returns 0.
MoreMemory ==
  LET nu == IF nunits < MoreCore THEN MoreCore ELSE nunits IN
  /\ nunits > 0 /\ ~Fits /\ ptr[prevp] = freep
  /\ IF brk + nu <= HeapLimit
     THEN Join(brk + 1, nu) /\ brk' = brk + nu /\ prevp' = freep' /\ UNCHANGED <<used, nunits>>
     ELSE nunits' = 0 /\ prevp' = Base /\ UNCHANGED <<ptr, size, freep, brk, used>>

Next == Call \/ Malloc \/ LookOn \/ MoreMemory \/ FreeBlock
Spec == Init /\ [][Next]_vars
-----------------------------------------------------------------------------
(* Properties *)

Units(b, n) == b .. b + n - 1

\* Every unit of the heap is in exactly one block, free or held: nothing is lost, nothing
\* given out twice, and freeing everything gives everything back.
Tiled ==
  /\ \A a \in 1 .. brk : Cardinality({b \in Heap : a \in Units(b, size[b])})
                         + Cardinality({b \in Heap : a \in Units(b, used[b])}) = 1
  /\ \A b \in Heap : size[b] + used[b] > 0 => b + size[b] + used[b] <= brk + 1

\* The ring goes through every free block once, in the order of the addresses, and two
\* blocks that touch have been joined.
Ring == freep # NoRing =>
  /\ freep \in Free
  /\ \A b \in Free : LET above == {c \in Free : b < c} IN
       ptr[b] = IF above = {} THEN Base ELSE CHOOSE c \in above : \A d \in above : c <= d
  /\ \A b \in Free \ {Base} : b + size[b] \notin Free

Inv == Tiled /\ Ring
=============================================================================
