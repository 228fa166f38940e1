-------------------------- MODULE VipChannelProofs --------------------------
(***************************************************************************)
(* Proofs about VipChannel, for any finite set of threads.                  *)
(***************************************************************************)
EXTENDS VipChannel, FiniteSetTheorems, TLAPS

\* A thread that moves from one statement to another joins the threads at the
\* statements S, or leaves them.
LEMMA AtGoto ==
  ASSUME loc \in [Threads -> Locs], NEW t \in Threads, NEW from, NEW to \in Locs,
         Goto(t, from, to), NEW S
  PROVE  At(S)' = IF to \in S THEN At(S) \cup {t} ELSE At(S) \ {t}
BY DEF At, Goto

\* The sets of threads are finite: one thread more or less moves a size by one.
LEMMA Counting ==
  ASSUME NEW S \in SUBSET Threads, NEW t
  PROVE  /\ Cardinality(S) \in Nat
         /\ Cardinality(S) = 0 <=> S = {}
         /\ t \notin S => Cardinality(S \cup {t}) = Cardinality(S) + 1
         /\ t \in S => Cardinality(S \ {t}) = Cardinality(S) - 1
<1>1. IsFiniteSet(S)
  BY ThreadsFinite, FS_Subset
<1>2. QED
  BY <1>1, FS_CardinalityType, FS_EmptySet, FS_AddElement, FS_RemoveElement, Zenon

LEMMA CountedThreads == GateCounted \in SUBSET Threads /\ KioskCounted \in SUBSET Threads
BY DEF GateCounted, KioskCounted, At

\* The expansions that every step's proof needs.
USE DEF Inv, TypeOK, Accounting, Mutexes, Exclusive, FirstAndLast, ChannelHeld,
        TurnstileHeld, Some, GateHolding, KioskHolding, GateOwns, KioskOwns,
        GateCloses, Goto, Locs, GateLocs, KioskLocs, Up, Down,
        gateVars, kioskVars, sharedVars

LEMMA InvCallToGate ==
  ASSUME Inv, NEW t \in Threads, CallToGate(t)
  PROVE  Inv'
<1>1. GateCounted' = GateCounted /\ KioskCounted' = KioskCounted
  BY DEF CallToGate, GateCounted, KioskCounted, At
<1>2. QED
  BY <1>1 DEF CallToGate, Counters

LEMMA InvGateLock ==
  ASSUME Inv, NEW t \in Threads, GateLock(t)
  PROVE  Inv'
<1>1. GateCounted' = GateCounted /\ KioskCounted' = KioskCounted
  BY DEF GateLock, GateCounted, KioskCounted, At
<1>2. QED
  BY <1>1 DEF GateLock, Counters

LEMMA InvGateTurnstile ==
  ASSUME Inv, NEW t \in Threads, GateTurnstile(t)
  PROVE  Inv'
<1>1. GateCounted' = GateCounted /\ KioskCounted' = KioskCounted
  BY DEF GateTurnstile, GateCounted, KioskCounted, At
<1>2. QED
  BY <1>1 DEF GateTurnstile, Counters

LEMMA InvGateChannel ==
  ASSUME Inv, NEW t \in Threads, GateChannel(t)
  PROVE  Inv'
<1>1. GateCounted' = GateCounted /\ KioskCounted' = KioskCounted
  BY DEF GateChannel, GateCounted, KioskCounted, At
<1>2. QED
  BY <1>1 DEF GateChannel, Counters

LEMMA InvGateUnlock ==
  ASSUME Inv, NEW t \in Threads, GateUnlock(t)
  PROVE  Inv'
<1>1. GateCounted' = GateCounted /\ KioskCounted' = KioskCounted
  BY DEF GateUnlock, GateCounted, KioskCounted, At
<1>2. QED
  BY <1>1 DEF GateUnlock, Counters

LEMMA InvGateCross ==
  ASSUME Inv, NEW t \in Threads, GateCross(t)
  PROVE  Inv'
<1>1. GateCounted' = GateCounted /\ KioskCounted' = KioskCounted
  BY DEF GateCross, GateCounted, KioskCounted, At
<1>2. QED
  BY <1>1 DEF GateCross, Counters

LEMMA InvGateFree ==
  ASSUME Inv, NEW t \in Threads, GateFree(t)
  PROVE  Inv'
<1>1. GateCounted' = GateCounted /\ KioskCounted' = KioskCounted
  BY DEF GateFree, GateCounted, KioskCounted, At
<1>2. QED
  BY <1>1 DEF GateFree, Counters

LEMMA InvGateOpen ==
  ASSUME Inv, NEW t \in Threads, GateOpen(t)
  PROVE  Inv'
<1>1. GateCounted' = GateCounted /\ KioskCounted' = KioskCounted
  BY DEF GateOpen, GateCounted, KioskCounted, At
<1>2. QED
  BY <1>1 DEF GateOpen, Counters

LEMMA InvGateReturn ==
  ASSUME Inv, NEW t \in Threads, GateReturn(t)
  PROVE  Inv'
<1>1. GateCounted' = GateCounted /\ KioskCounted' = KioskCounted
  BY DEF GateReturn, GateCounted, KioskCounted, At
<1>2. QED
  BY <1>1 DEF GateReturn, Counters

LEMMA InvCallToSpecialKiosk ==
  ASSUME Inv, NEW t \in Threads, CallToSpecialKiosk(t)
  PROVE  Inv'
<1>1. GateCounted' = GateCounted /\ KioskCounted' = KioskCounted
  BY DEF CallToSpecialKiosk, GateCounted, KioskCounted, At
<1>2. QED
  BY <1>1 DEF CallToSpecialKiosk, Counters

LEMMA InvKioskTurnstile ==
  ASSUME Inv, NEW t \in Threads, KioskTurnstile(t)
  PROVE  Inv'
<1>1. GateCounted' = GateCounted /\ KioskCounted' = KioskCounted
  BY DEF KioskTurnstile, GateCounted, KioskCounted, At
<1>2. QED
  BY <1>1 DEF KioskTurnstile, Counters

LEMMA InvKioskPass ==
  ASSUME Inv, NEW t \in Threads, KioskPass(t)
  PROVE  Inv'
<1>1. GateCounted' = GateCounted /\ KioskCounted' = KioskCounted
  BY DEF KioskPass, GateCounted, KioskCounted, At
<1>2. QED
  BY <1>1 DEF KioskPass, Counters

LEMMA InvKioskLock ==
  ASSUME Inv, NEW t \in Threads, KioskLock(t)
  PROVE  Inv'
<1>1. GateCounted' = GateCounted /\ KioskCounted' = KioskCounted
  BY DEF KioskLock, GateCounted, KioskCounted, At
<1>2. QED
  BY <1>1 DEF KioskLock, Counters

LEMMA InvKioskChannel ==
  ASSUME Inv, NEW t \in Threads, KioskChannel(t)
  PROVE  Inv'
<1>1. GateCounted' = GateCounted /\ KioskCounted' = KioskCounted
  BY DEF KioskChannel, GateCounted, KioskCounted, At
<1>2. QED
  BY <1>1 DEF KioskChannel, Counters

LEMMA InvKioskUnlock ==
  ASSUME Inv, NEW t \in Threads, KioskUnlock(t)
  PROVE  Inv'
<1>1. GateCounted' = GateCounted /\ KioskCounted' = KioskCounted
  BY DEF KioskUnlock, GateCounted, KioskCounted, At
<1>2. QED
  BY <1>1 DEF KioskUnlock, Counters

LEMMA InvKioskCross ==
  ASSUME Inv, NEW t \in Threads, KioskCross(t)
  PROVE  Inv'
<1>1. GateCounted' = GateCounted /\ KioskCounted' = KioskCounted
  BY DEF KioskCross, GateCounted, KioskCounted, At
<1>2. QED
  BY <1>1 DEF KioskCross, Counters

LEMMA InvKioskFree ==
  ASSUME Inv, NEW t \in Threads, KioskFree(t)
  PROVE  Inv'
<1>1. GateCounted' = GateCounted /\ KioskCounted' = KioskCounted
  BY DEF KioskFree, GateCounted, KioskCounted, At
<1>2. QED
  BY <1>1 DEF KioskFree, Counters

LEMMA InvKioskReturn ==
  ASSUME Inv, NEW t \in Threads, KioskReturn(t)
  PROVE  Inv'
<1>1. GateCounted' = GateCounted /\ KioskCounted' = KioskCounted
  BY DEF KioskReturn, GateCounted, KioskCounted, At
<1>2. QED
  BY <1>1 DEF KioskReturn, Counters

LEMMA GateEnterCounts ==
  ASSUME Inv, NEW t \in Threads, GateEnter(t)
  PROVE  /\ GateCounted' = GateCounted \cup {t} /\ t \notin GateCounted
         /\ KioskCounted' = KioskCounted
         /\ Counters' /\ count_to_gate' \in Nat
         /\ count_to_gate' = 1 <=> GateCounted = {}
<1>1. /\ GateCounted' = GateCounted \cup {t} /\ t \notin GateCounted
      /\ KioskCounted' = KioskCounted
  BY DEF GateEnter, GateCounted, KioskCounted, At
<1>2. QED
  BY <1>1, Counting, CountedThreads DEF GateEnter, Counters

LEMMA InvGateEnter ==
  ASSUME Inv, NEW t \in Threads, GateEnter(t)
  PROVE  Inv'
<1>1. /\ GateCounted' = GateCounted \cup {t} /\ t \notin GateCounted
      /\ KioskCounted' = KioskCounted
      /\ Counters' /\ count_to_gate' \in Nat
      /\ count_to_gate' = 1 <=> GateCounted = {}
  BY GateEnterCounts, Zenon
<1>2. QED
  BY <1>1 DEF GateEnter

LEMMA GateLeaveCounts ==
  ASSUME Inv, NEW t \in Threads, GateLeave(t)
  PROVE  /\ GateCounted' = GateCounted \ {t} /\ t \in GateCounted
         /\ KioskCounted' = KioskCounted
         /\ Counters' /\ count_to_gate' \in Nat
         /\ count_to_gate' = 0 <=> GateCounted' = {}
<1>1. /\ GateCounted' = GateCounted \ {t} /\ t \in GateCounted
      /\ KioskCounted' = KioskCounted
  BY DEF GateLeave, GateCounted, KioskCounted, At
<1>2. /\ Cardinality(GateCounted \ {t}) = Cardinality(GateCounted) - 1
      /\ Cardinality(GateCounted \ {t}) \in Nat
      /\ Cardinality(GateCounted \ {t}) = 0 <=> GateCounted \ {t} = {}
  BY <1>1, Counting, CountedThreads
<1>3. QED
  BY <1>1, <1>2 DEF GateLeave, Counters

LEMMA InvGateLeave ==
  ASSUME Inv, NEW t \in Threads, GateLeave(t)
  PROVE  Inv'
<1>1. /\ GateCounted' = GateCounted \ {t} /\ t \in GateCounted
      /\ KioskCounted' = KioskCounted
      /\ Counters' /\ count_to_gate' \in Nat
      /\ count_to_gate' = 0 <=> GateCounted' = {}
  BY GateLeaveCounts, Zenon
<1>2. QED
  BY <1>1 DEF GateLeave

LEMMA KioskEnterCounts ==
  ASSUME Inv, NEW t \in Threads, KioskEnter(t)
  PROVE  /\ KioskCounted' = KioskCounted \cup {t} /\ t \notin KioskCounted
         /\ GateCounted' = GateCounted
         /\ Counters' /\ count_to_special_kiosk' \in Nat
         /\ count_to_special_kiosk' = 1 <=> KioskCounted = {}
<1>1. /\ KioskCounted' = KioskCounted \cup {t} /\ t \notin KioskCounted
      /\ GateCounted' = GateCounted
  BY DEF KioskEnter, GateCounted, KioskCounted, At
<1>2. QED
  BY <1>1, Counting, CountedThreads DEF KioskEnter, Counters

LEMMA InvKioskEnter ==
  ASSUME Inv, NEW t \in Threads, KioskEnter(t)
  PROVE  Inv'
<1>1. /\ KioskCounted' = KioskCounted \cup {t} /\ t \notin KioskCounted
      /\ GateCounted' = GateCounted
      /\ Counters' /\ count_to_special_kiosk' \in Nat
      /\ count_to_special_kiosk' = 1 <=> KioskCounted = {}
  BY KioskEnterCounts, Zenon
<1>2. QED
  BY <1>1 DEF KioskEnter

LEMMA KioskLeaveCounts ==
  ASSUME Inv, NEW t \in Threads, KioskLeave(t)
  PROVE  /\ KioskCounted' = KioskCounted \ {t} /\ t \in KioskCounted
         /\ GateCounted' = GateCounted
         /\ Counters' /\ count_to_special_kiosk' \in Nat
         /\ count_to_special_kiosk' = 0 <=> KioskCounted' = {}
<1>1. /\ KioskCounted' = KioskCounted \ {t} /\ t \in KioskCounted
      /\ GateCounted' = GateCounted
  BY DEF KioskLeave, GateCounted, KioskCounted, At
<1>2. /\ Cardinality(KioskCounted \ {t}) = Cardinality(KioskCounted) - 1
      /\ Cardinality(KioskCounted \ {t}) \in Nat
      /\ Cardinality(KioskCounted \ {t}) = 0 <=> KioskCounted \ {t} = {}
  BY <1>1, Counting, CountedThreads
<1>3. QED
  BY <1>1, <1>2 DEF KioskLeave, Counters

LEMMA InvKioskLeave ==
  ASSUME Inv, NEW t \in Threads, KioskLeave(t)
  PROVE  Inv'
<1>1. /\ KioskCounted' = KioskCounted \ {t} /\ t \in KioskCounted
      /\ GateCounted' = GateCounted
      /\ Counters' /\ count_to_special_kiosk' \in Nat
      /\ count_to_special_kiosk' = 0 <=> KioskCounted' = {}
  BY KioskLeaveCounts, Zenon
<1>2. QED
  BY <1>1 DEF KioskLeave

-----------------------------------------------------------------------------
LEMMA InvInit == Init => Inv
<1>1. Init => GateCounted = {} /\ KioskCounted = {}
  BY DEF Init, GateCounted, KioskCounted, At
<1>2. QED
  BY <1>1, FS_EmptySet DEF Init, Counters

LEMMA InvNext == Inv /\ [Next]_vars => Inv'
<1>1. Inv /\ UNCHANGED vars => Inv'
  BY DEF vars, Counters, GateCounted, KioskCounted, At
<1>2. ASSUME Inv, NEW t \in Threads, Call(t) PROVE Inv'
  BY <1>2, InvCallToGate, InvCallToSpecialKiosk DEF Call
<1>3. ASSUME Inv, NEW t \in Threads, ToGate(t) PROVE Inv'
  BY <1>3, InvGateLock, InvGateEnter, InvGateTurnstile, InvGateChannel,
     InvGateUnlock, InvGateCross, InvGateLeave, InvGateFree, InvGateOpen,
     InvGateReturn, Zenon DEF ToGate
<1>4. ASSUME Inv, NEW t \in Threads, ToSpecialKiosk(t) PROVE Inv'
  BY <1>4, InvKioskTurnstile, InvKioskPass, InvKioskLock, InvKioskEnter,
     InvKioskChannel, InvKioskUnlock, InvKioskCross, InvKioskLeave,
     InvKioskFree, InvKioskReturn, Zenon DEF ToSpecialKiosk
<1>5. QED
  BY <1>1, <1>2, <1>3, <1>4, Zenon DEF Next, Step

LEMMA InvOneWay == Inv => OneWay
<1> SUFFICES ASSUME Inv, Some({"g_cross"}), Some({"k_cross"}) PROVE FALSE
  BY DEF OneWay
<1>1. GateOwns
  BY DEF GateCounted, At
<1>2. KioskOwns
  BY DEF KioskCounted, At
<1>3. QED
  BY <1>1, <1>2

LEMMA InvRestored == Inv => RestoredWhenEmpty
<1> SUFFICES ASSUME Inv, At({"out"}) = Threads PROVE RestoredWhenEmpty
  BY DEF RestoredWhenEmpty
<1>1. \A t \in Threads : loc[t] = "out"
  BY DEF At
<1>2. GateCounted = {} /\ KioskCounted = {}
  BY <1>1 DEF GateCounted, KioskCounted, At
<1>3. count_to_gate = 0 /\ count_to_special_kiosk = 0
  BY <1>2, FS_EmptySet DEF Counters
<1>4. QED
  BY <1>1, <1>2, <1>3 DEF RestoredWhenEmpty

-----------------------------------------------------------------------------
(* The channel implements the corridor: seven of its steps are steps of the  *)
(* corridor, the others leave it alone.                                      *)

LEMMA GateStepsMap ==
  ASSUME Inv, NEW t \in Threads, ToGate(t)
  PROVE  [Promise!Next]_(Promise!vars)
<1> USE DEF Promise!vars, At, GateCounted, KioskCounted
<1>1. GateLock(t) => UNCHANGED Promise!vars
  BY DEF GateLock
<1>2. GateEnter(t) => UNCHANGED Promise!vars
  <2> SUFFICES ASSUME GateEnter(t) PROVE UNCHANGED Promise!vars
    OBVIOUS
  <2>1. /\ GateCounted' = GateCounted \cup {t} /\ t \notin GateCounted
        /\ KioskCounted' = KioskCounted
        /\ Counters' /\ count_to_gate' \in Nat
        /\ count_to_gate' = 1 <=> GateCounted = {}
    BY GateEnterCounts, Zenon
  <2>2. QED
    BY <2>1 DEF GateEnter
<1>3. GateTurnstile(t) => Promise!Close
  BY DEF GateTurnstile, Promise!Close
<1>4. GateChannel(t) => UNCHANGED Promise!vars
  BY DEF GateChannel
<1>5. GateUnlock(t) => Promise!EnterGate(t)
  BY DEF GateUnlock, Promise!EnterGate
<1>6. GateCross(t) => Promise!LeaveGate(t)
  BY DEF GateCross, Promise!LeaveGate
<1>7. GateLeave(t) => UNCHANGED Promise!vars
  <2> SUFFICES ASSUME GateLeave(t) PROVE UNCHANGED Promise!vars
    OBVIOUS
  <2>1. /\ GateCounted' = GateCounted \ {t} /\ t \in GateCounted
        /\ KioskCounted' = KioskCounted
        /\ Counters' /\ count_to_gate' \in Nat
        /\ count_to_gate' = 0 <=> GateCounted' = {}
    BY GateLeaveCounts, Zenon
  <2>2. QED
    BY <2>1 DEF GateLeave
<1>8. GateFree(t) => UNCHANGED Promise!vars
  BY DEF GateFree
<1>9. GateOpen(t) => Promise!Open
  BY DEF GateOpen, Promise!Open
<1>10. GateReturn(t) => UNCHANGED Promise!vars
  BY DEF GateReturn
<1>11. QED
  BY <1>1, <1>2, <1>3, <1>4, <1>5, <1>6, <1>7, <1>8, <1>9, <1>10, Zenon
     DEF ToGate, Promise!Next

LEMMA KioskStepsMap ==
  ASSUME Inv, NEW t \in Threads, ToSpecialKiosk(t)
  PROVE  [Promise!Next]_(Promise!vars)
<1> USE DEF Promise!vars, At, GateCounted, KioskCounted
<1>1. KioskTurnstile(t) => Promise!Admit(t)
  BY DEF KioskTurnstile, Promise!Admit
<1>2. KioskPass(t) => UNCHANGED Promise!vars
  BY DEF KioskPass
<1>3. KioskLock(t) => UNCHANGED Promise!vars
  BY DEF KioskLock
<1>4. KioskEnter(t) => UNCHANGED Promise!vars
  BY DEF KioskEnter
<1>5. KioskChannel(t) => UNCHANGED Promise!vars
  BY DEF KioskChannel
<1>6. KioskUnlock(t) => Promise!EnterKiosk(t)
  BY DEF KioskUnlock, Promise!EnterKiosk
<1>7. KioskCross(t) => Promise!LeaveKiosk(t)
  BY DEF KioskCross, Promise!LeaveKiosk
<1>8. KioskLeave(t) => UNCHANGED Promise!vars
  BY DEF KioskLeave
<1>9. KioskFree(t) => UNCHANGED Promise!vars
  BY DEF KioskFree
<1>10. KioskReturn(t) => UNCHANGED Promise!vars
  BY DEF KioskReturn
<1>11. QED
  BY <1>1, <1>2, <1>3, <1>4, <1>5, <1>6, <1>7, <1>8, <1>9, <1>10, Zenon
     DEF ToSpecialKiosk, Promise!Next

LEMMA NextMaps == Inv /\ [Next]_vars => [Promise!Next]_(Promise!vars)
<1>1. Inv /\ UNCHANGED vars => UNCHANGED Promise!vars
  BY DEF vars, Promise!vars, At, GateCounted
<1>2. ASSUME Inv, NEW t \in Threads, Call(t) PROVE UNCHANGED Promise!vars
  BY <1>2 DEF Call, CallToGate, CallToSpecialKiosk, Promise!vars, At, GateCounted
<1>3. QED
  BY <1>1, <1>2, GateStepsMap, KioskStepsMap, Zenon DEF Next, Step

LEMMA InitMaps == Init => Promise!Init
BY DEF Init, Promise!Init, At, GateCounted

HIDE DEF Inv, TypeOK, Accounting, Mutexes, Exclusive, FirstAndLast, ChannelHeld,
         TurnstileHeld, Some, GateHolding, KioskHolding, GateOwns, KioskOwns,
         GateCloses, Goto, Locs, GateLocs, KioskLocs, Up, Down,
         gateVars, kioskVars, sharedVars

-----------------------------------------------------------------------------
\* The bookkeeping of the channel is an invariant: at every moment each
\* semaphore and counter agrees with the threads inside the two functions.
THEOREM ChannelAccounting == Spec => []Inv
BY InvInit, InvNext, PTL DEF Spec

\* Passengers never cross the channel in both directions at once, however many
\* threads there are and however they are interleaved.
THEOREM OneDirectionAtATime == Spec => []OneWay
BY InvOneWay, ChannelAccounting, PTL DEF Inv

\* An empty channel is as good as new: whatever crossings came before, nothing
\* stays locked or counted once the last passenger is out.
THEOREM ChannelRestored == Spec => []RestoredWhenEmpty
BY InvRestored, ChannelAccounting, PTL DEF Inv

\* The channel keeps the promise of the corridor: besides crossing one way at a
\* time, nobody is admitted towards the kiosk while the gate direction holds
\* the turnstile, and only those admitted before may still cross.
THEOREM ChannelImplementsCorridor == Spec => ImplementsCorridor
<1>1. Spec => []Inv
  BY ChannelAccounting, PTL DEF Inv
<1>2. QED
  BY <1>1, InitMaps, NextMaps, PTL DEF Spec, ImplementsCorridor, Promise!Spec
=============================================================================
