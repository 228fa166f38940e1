-------------------------- MODULE CheckpointProofs --------------------------
(***************************************************************************)
(* Proofs about the two checkpoints every passenger passes, Kiosk and       *)
(* SecurityBelts: for any number of kiosks and belts, any capacity of a     *)
(* belt and any finite set of threads.                                      *)
(***************************************************************************)
EXTENDS Kiosk, SecurityBelts, FiniteSetTheorems, SequenceTheorems, TLAPS

-----------------------------------------------------------------------------
(* Facts about the sets of threads and about the queue *)

\* One thread more or less moves the size of a set of threads by one.
LEMMA Counting ==
  ASSUME NEW S \in SUBSET Threads, NEW t
  PROVE  /\ Cardinality(S) \in Nat
         /\ t \notin S => Cardinality(S \cup {t}) = Cardinality(S) + 1
         /\ t \in S => /\ Cardinality(S \ {t}) = Cardinality(S) - 1
                       /\ Cardinality(S \ {t}) \in Nat
<1>1. IsFiniteSet(S)
  BY KioskAssumption, FS_Subset
<1>2. QED
  BY <1>1, FS_CardinalityType, FS_AddElement, FS_RemoveElement, Zenon

LEMMA ThreadSets == Holding \in SUBSET Threads /\ AtAKiosk \in SUBSET Threads
BY DEF Holding, AtAKiosk, At

\* A thread that holds a unit but no id leaves an id in the queue.
LEMMA InvPopFindsKiosk == Inv => PopFindsKiosk
<1> SUFFICES ASSUME Inv, NEW t \in Threads, loc[t] \in {"s_lock", "s_pop"}
             PROVE  q # <<>>
  BY DEF PopFindsKiosk
<1>1. AtAKiosk \cup {t} \subseteq Holding /\ t \notin AtAKiosk
  BY DEF AtAKiosk, Holding, At
<1>2. IsFiniteSet(Holding)
  BY KioskAssumption, FS_Subset DEF Holding, At
<1>3. Cardinality(AtAKiosk \cup {t}) <= Cardinality(Holding)
  BY <1>1, <1>2, FS_Subset
<1>4. /\ Cardinality(AtAKiosk) \in Nat /\ Cardinality(Holding) \in Nat
      /\ Cardinality(AtAKiosk \cup {t}) = Cardinality(AtAKiosk) + 1
  BY <1>1, Counting, ThreadSets
<1>5. totalKiosk \in Nat /\ available \in Nat /\ Len(q) \in Nat
  BY KioskAssumption DEF Inv, TypeOK
<1>6. /\ available + Cardinality(Holding) = totalKiosk
      /\ Len(q) + Cardinality(AtAKiosk) = totalKiosk
  BY DEF Inv, UnitsAccounted, KiosksConserved
<1>7. Len(q) # 0
  BY <1>3, <1>4, <1>5, <1>6
<1>8. QED
  BY <1>7

\* What the head and the tail of a queue without duplicates hold.
LEMMA QueuePop ==
  ASSUME q \in Seq(KioskIds), q # <<>>, q' = Tail(q),
         \A i, j \in DOMAIN q : q[i] = q[j] => i = j
  PROVE  /\ q' \in Seq(KioskIds) /\ Len(q') = Len(q) - 1
         /\ Head(q) \in KioskIds
         /\ InQueue = InQueue' \cup {Head(q)} /\ Head(q) \notin InQueue'
         /\ \A i, j \in DOMAIN q' : q'[i] = q'[j] => i = j
<1>1. /\ q' \in Seq(KioskIds) /\ Len(q') = Len(q) - 1 /\ Head(q) \in KioskIds
      /\ \A i \in 1 .. Len(q') : q'[i] = q[i + 1]
  BY HeadTailProperties
<1>2. /\ DOMAIN q = 1 .. Len(q) /\ DOMAIN q' = 1 .. Len(q')
      /\ Len(q) \in Nat /\ Head(q) = q[1] /\ Len(q) # 0
  BY <1>1, EmptySeq
<1>3. \A i, j \in DOMAIN q' : q'[i] = q'[j] => i = j
  <2> SUFFICES ASSUME NEW i \in DOMAIN q', NEW j \in DOMAIN q', q'[i] = q'[j] PROVE i = j
    OBVIOUS
  <2>1. i + 1 \in DOMAIN q /\ j + 1 \in DOMAIN q
    BY <1>1, <1>2
  <2>2. QED
    BY <1>1, <1>2, <2>1
<1>4. Head(q) \notin InQueue'
  BY <1>1, <1>2 DEF InQueue
<1>5. InQueue = InQueue' \cup {Head(q)}
  <2>1. InQueue \subseteq InQueue' \cup {Head(q)}
    <3> SUFFICES ASSUME NEW i \in DOMAIN q, i # 1 PROVE q[i] \in InQueue'
      BY <1>2 DEF InQueue
    <3>1. i - 1 \in DOMAIN q' /\ q'[i - 1] = q[i]
      BY <1>1, <1>2
    <3>2. QED
      BY <3>1 DEF InQueue
  <2>2. InQueue' \cup {Head(q)} \subseteq InQueue
    BY <1>1, <1>2 DEF InQueue
  <2>3. QED
    BY <2>1, <2>2
<1>6. QED
  BY <1>1, <1>3, <1>4, <1>5

\* A kiosk pushed back is in the queue exactly once if it was not there.
LEMMA QueuePush ==
  ASSUME q \in Seq(KioskIds), NEW k \in KioskIds, q' = Append(q, k), k \notin InQueue,
         \A i, j \in DOMAIN q : q[i] = q[j] => i = j
  PROVE  /\ q' \in Seq(KioskIds) /\ Len(q') = Len(q) + 1
         /\ InQueue' = InQueue \cup {k}
         /\ \A i, j \in DOMAIN q' : q'[i] = q'[j] => i = j
<1>1. /\ q' \in Seq(KioskIds) /\ Len(q') = Len(q) + 1
      /\ \A i \in 1 .. Len(q) : q'[i] = q[i]
      /\ q'[Len(q) + 1] = k
  BY AppendProperties
<1>2. DOMAIN q = 1 .. Len(q) /\ DOMAIN q' = 1 .. Len(q) + 1 /\ Len(q) \in Nat
  BY <1>1
<1>3. \A i \in DOMAIN q' : \/ i \in DOMAIN q /\ q'[i] = q[i]
                           \/ i = Len(q) + 1 /\ q'[i] = k
  BY <1>1, <1>2
<1>4. InQueue' = InQueue \cup {k}
  BY <1>1, <1>2, <1>3 DEF InQueue
<1>5. \A i, j \in DOMAIN q' : q'[i] = q'[j] => i = j
  BY <1>3 DEF InQueue
<1>6. QED
  BY <1>1, <1>4, <1>5

-----------------------------------------------------------------------------
(* The invariant *)

LEMMA InvInit == Init => Inv
<1> SUFFICES ASSUME Init PROVE Inv
  OBVIOUS
<1>1. Holding = {} /\ AtAKiosk = {} /\ At({"s_pop", "s_push"}) = {} /\ At({"x_check"}) = {}
  BY DEF Init, Holding, AtAKiosk, At
<1>2. /\ DOMAIN q = KioskIds /\ InQueue = KioskIds /\ q \in Seq(KioskIds)
      /\ Len(q) = totalKiosk
  BY KioskAssumption, IsASeq DEF Init, InQueue, KioskIds
<1>3. TypeOK
  BY <1>2, KioskAssumption DEF Init, TypeOK, Locs
<1>4. NoKioskShared
  BY <1>1, <1>2 DEF Init, NoKioskShared, KioskIds
<1>5. KiosksConserved /\ UnitsAccounted
  BY <1>1, <1>2, FS_EmptySet, KioskAssumption DEF Init, KiosksConserved, UnitsAccounted
<1>6. OneAtATime
  BY <1>1 DEF Init, OneAtATime, Exclusive
<1>7. QED
  BY <1>3, <1>4, <1>5, <1>6 DEF Inv

\* Steps that leave the queue and the ids alone and move nobody to or from a
\* kiosk: what they do to the units and to the locks is left to each step.
LEMMA KiosksUntouched ==
  ASSUME Inv, UNCHANGED <<q, kiosk_id>>, AtAKiosk' = AtAKiosk
  PROVE  NoKioskShared' /\ KiosksConserved'
BY DEF Inv, NoKioskShared, KiosksConserved, InQueue

LEMMA InvCallSelfCheck ==
  ASSUME Inv, NEW t \in Threads, CallSelfCheck(t)
  PROVE  Inv'
<1>1. AtAKiosk' = AtAKiosk /\ Holding' = Holding
  BY DEF CallSelfCheck, Goto, Inv, TypeOK, AtAKiosk, Holding, At
<1>2. NoKioskShared' /\ KiosksConserved' /\ UnitsAccounted'
  BY <1>1, KiosksUntouched DEF CallSelfCheck, Inv, UnitsAccounted
<1>3. TypeOK' /\ OneAtATime'
  BY DEF CallSelfCheck, Goto, Down, Up, Inv, TypeOK, Locs, SelfLocs, SpecialLocs,
     OneAtATime, Exclusive, At
<1>4. QED
  BY <1>2, <1>3 DEF Inv

LEMMA InvCallSpecialCheck ==
  ASSUME Inv, NEW t \in Threads, CallSpecialCheck(t)
  PROVE  Inv'
<1>1. AtAKiosk' = AtAKiosk /\ Holding' = Holding
  BY DEF CallSpecialCheck, Goto, Inv, TypeOK, AtAKiosk, Holding, At
<1>2. NoKioskShared' /\ KiosksConserved' /\ UnitsAccounted'
  BY <1>1, KiosksUntouched DEF CallSpecialCheck, Inv, UnitsAccounted
<1>3. TypeOK' /\ OneAtATime'
  BY DEF CallSpecialCheck, Goto, Down, Up, Inv, TypeOK, Locs, SelfLocs, SpecialLocs,
     OneAtATime, Exclusive, At
<1>4. QED
  BY <1>2, <1>3 DEF Inv

LEMMA InvPopLock ==
  ASSUME Inv, NEW t \in Threads, PopLock(t)
  PROVE  Inv'
<1>1. AtAKiosk' = AtAKiosk /\ Holding' = Holding
  BY DEF PopLock, Goto, Inv, TypeOK, AtAKiosk, Holding, At
<1>2. NoKioskShared' /\ KiosksConserved' /\ UnitsAccounted'
  BY <1>1, KiosksUntouched DEF PopLock, Inv, UnitsAccounted
<1>3. TypeOK' /\ OneAtATime'
  BY DEF PopLock, Goto, Down, Up, Inv, TypeOK, Locs, SelfLocs, SpecialLocs,
     OneAtATime, Exclusive, At
<1>4. QED
  BY <1>2, <1>3 DEF Inv

LEMMA InvPushLock ==
  ASSUME Inv, NEW t \in Threads, PushLock(t)
  PROVE  Inv'
<1>1. AtAKiosk' = AtAKiosk /\ Holding' = Holding
  BY DEF PushLock, Goto, Inv, TypeOK, AtAKiosk, Holding, At
<1>2. NoKioskShared' /\ KiosksConserved' /\ UnitsAccounted'
  BY <1>1, KiosksUntouched DEF PushLock, Inv, UnitsAccounted
<1>3. TypeOK' /\ OneAtATime'
  BY DEF PushLock, Goto, Down, Up, Inv, TypeOK, Locs, SelfLocs, SpecialLocs,
     OneAtATime, Exclusive, At
<1>4. QED
  BY <1>2, <1>3 DEF Inv

LEMMA InvSpecialDown ==
  ASSUME Inv, NEW t \in Threads, SpecialDown(t)
  PROVE  Inv'
<1>1. AtAKiosk' = AtAKiosk /\ Holding' = Holding
  BY DEF SpecialDown, Goto, Inv, TypeOK, AtAKiosk, Holding, At
<1>2. NoKioskShared' /\ KiosksConserved' /\ UnitsAccounted'
  BY <1>1, KiosksUntouched DEF SpecialDown, Inv, UnitsAccounted
<1>3. TypeOK' /\ OneAtATime'
  BY DEF SpecialDown, Goto, Down, Up, Inv, TypeOK, Locs, SelfLocs, SpecialLocs,
     OneAtATime, Exclusive, At
<1>4. QED
  BY <1>2, <1>3 DEF Inv

LEMMA InvSpecialUp ==
  ASSUME Inv, NEW t \in Threads, SpecialUp(t)
  PROVE  Inv'
<1>1. AtAKiosk' = AtAKiosk /\ Holding' = Holding
  BY DEF SpecialUp, Goto, Inv, TypeOK, AtAKiosk, Holding, At
<1>2. NoKioskShared' /\ KiosksConserved' /\ UnitsAccounted'
  BY <1>1, KiosksUntouched DEF SpecialUp, Inv, UnitsAccounted
<1>3. TypeOK' /\ OneAtATime'
  BY DEF SpecialUp, Goto, Down, Up, Inv, TypeOK, Locs, SelfLocs, SpecialLocs,
     OneAtATime, Exclusive, At
<1>4. QED
  BY <1>2, <1>3 DEF Inv

LEMMA InvSelfDown ==
  ASSUME Inv, NEW t \in Threads, SelfDown(t)
  PROVE  Inv'
<1>1. AtAKiosk' = AtAKiosk /\ Holding' = Holding \cup {t} /\ t \notin Holding
  BY DEF SelfDown, Goto, Inv, TypeOK, AtAKiosk, Holding, At
<1>2. available' = available - 1 /\ available \in 1 .. totalKiosk
  BY KioskAssumption DEF SelfDown, Down, Inv, TypeOK
<1>3. UnitsAccounted'
  BY <1>1, <1>2, Counting, ThreadSets, KioskAssumption DEF Inv, UnitsAccounted
<1>4. NoKioskShared' /\ KiosksConserved'
  BY <1>1, KiosksUntouched DEF SelfDown
<1>5. TypeOK' /\ OneAtATime'
  BY <1>2, KioskAssumption DEF SelfDown, Goto, Inv, TypeOK, Locs, SelfLocs,
     SpecialLocs, OneAtATime, Exclusive, At
<1>6. QED
  BY <1>3, <1>4, <1>5 DEF Inv

LEMMA InvSelfUp ==
  ASSUME Inv, NEW t \in Threads, SelfUp(t)
  PROVE  Inv'
<1>1. AtAKiosk' = AtAKiosk /\ Holding' = Holding \ {t} /\ t \in Holding
  BY DEF SelfUp, Goto, Inv, TypeOK, AtAKiosk, Holding, At
<1>2. /\ Cardinality(Holding \ {t}) = Cardinality(Holding) - 1
      /\ Cardinality(Holding \ {t}) \in Nat /\ Cardinality(Holding) \in Nat
  BY <1>1, Counting, ThreadSets
<1>3. available' = available + 1 /\ available \in 0 .. totalKiosk
  BY DEF SelfUp, Up, Inv, TypeOK
<1>4. UnitsAccounted' /\ available' \in 0 .. totalKiosk
  BY <1>1, <1>2, <1>3, KioskAssumption DEF Inv, UnitsAccounted
<1>5. \A u \in AtAKiosk : kiosk_id'[u] = kiosk_id[u]
  BY DEF SelfUp, Goto, Inv, TypeOK, AtAKiosk, At
<1>6. NoKioskShared' /\ KiosksConserved'
  <2>1. InQueue' = InQueue /\ q' = q
    BY DEF SelfUp, InQueue
  <2>2. {kiosk_id'[u] : u \in AtAKiosk} = {kiosk_id[u] : u \in AtAKiosk}
    BY <1>5
  <2>3. QED
    BY <1>1, <1>5, <2>1, <2>2 DEF Inv, NoKioskShared, KiosksConserved
<1>7. TypeOK' /\ OneAtATime'
  BY <1>4 DEF SelfUp, Goto, Inv, TypeOK, Locs, SelfLocs, SpecialLocs,
     OneAtATime, Exclusive, At
<1>8. QED
  BY <1>4, <1>6, <1>7 DEF Inv

LEMMA InvPop ==
  ASSUME Inv, NEW t \in Threads, Pop(t)
  PROVE  Inv'
<1>1. q # <<>>
  BY InvPopFindsKiosk DEF PopFindsKiosk, Pop, Goto
<1>2. /\ q' \in Seq(KioskIds) /\ Len(q') = Len(q) - 1
      /\ Head(q) \in KioskIds
      /\ InQueue = InQueue' \cup {Head(q)} /\ Head(q) \notin InQueue'
      /\ \A i, j \in DOMAIN q' : q'[i] = q'[j] => i = j
  BY <1>1, QueuePop DEF Pop, Inv, TypeOK, NoKioskShared
<1>3. AtAKiosk' = AtAKiosk \cup {t} /\ t \notin AtAKiosk /\ Holding' = Holding
  BY DEF Pop, Goto, Inv, TypeOK, AtAKiosk, Holding, At
<1>4. kiosk_id'[t] = Head(q) /\ \A u \in AtAKiosk : kiosk_id'[u] = kiosk_id[u]
  BY <1>3 DEF Pop, Inv, TypeOK, AtAKiosk, At
<1>5. NoKioskShared'
  BY <1>2, <1>3, <1>4 DEF Inv, NoKioskShared
<1>6. Cardinality(AtAKiosk') = Cardinality(AtAKiosk) + 1 /\ Cardinality(AtAKiosk) \in Nat
  BY <1>3, Counting, ThreadSets
<1>7. KiosksConserved' /\ UnitsAccounted'
  <2>1. {kiosk_id'[u] : u \in AtAKiosk'} = {kiosk_id[u] : u \in AtAKiosk} \cup {Head(q)}
    BY <1>3, <1>4
  <2>2. InQueue' \cup {kiosk_id'[u] : u \in AtAKiosk'} = KioskIds
    BY <1>2, <2>1 DEF Inv, KiosksConserved
  <2>3. Len(q') + Cardinality(AtAKiosk') = totalKiosk
    BY <1>2, <1>6, KioskAssumption DEF Inv, TypeOK, KiosksConserved
  <2>4. UnitsAccounted'
    BY <1>3 DEF Inv, UnitsAccounted, Pop
  <2>5. QED
    BY <2>2, <2>3, <2>4 DEF KiosksConserved
<1>8. TypeOK' /\ OneAtATime'
  BY <1>2 DEF Pop, Goto, Up, Inv, TypeOK, Locs, SelfLocs, SpecialLocs,
     OneAtATime, Exclusive, At
<1>9. QED
  BY <1>5, <1>7, <1>8 DEF Inv

LEMMA InvPush ==
  ASSUME Inv, NEW t \in Threads, Push(t)
  PROVE  Inv'
<1>1. AtAKiosk' = AtAKiosk \ {t} /\ t \in AtAKiosk /\ Holding' = Holding
  BY DEF Push, Goto, Inv, TypeOK, AtAKiosk, Holding, At
<1>2. kiosk_id[t] \in KioskIds /\ kiosk_id[t] \notin InQueue /\ kiosk_id' = kiosk_id
  BY <1>1 DEF Push, Inv, NoKioskShared, KiosksConserved
<1>3. /\ q' \in Seq(KioskIds) /\ Len(q') = Len(q) + 1
      /\ InQueue' = InQueue \cup {kiosk_id[t]}
      /\ \A i, j \in DOMAIN q' : q'[i] = q'[j] => i = j
  BY <1>2, QueuePush DEF Push, Inv, TypeOK, NoKioskShared
<1>4. NoKioskShared'
  BY <1>1, <1>2, <1>3 DEF Inv, NoKioskShared
<1>5. /\ Cardinality(AtAKiosk \ {t}) = Cardinality(AtAKiosk) - 1
      /\ Cardinality(AtAKiosk) \in Nat
  BY <1>1, Counting, ThreadSets
<1>6. KiosksConserved' /\ UnitsAccounted'
  <2>1. {kiosk_id[u] : u \in AtAKiosk} = {kiosk_id[u] : u \in AtAKiosk \ {t}} \cup {kiosk_id[t]}
    BY <1>1
  <2>2. Len(q) \in Nat
    BY DEF Inv, TypeOK
  <2>3. QED
    BY <1>1, <1>2, <1>3, <1>5, <2>1, <2>2, KioskAssumption
       DEF Inv, KiosksConserved, UnitsAccounted, Push
<1>7. TypeOK' /\ OneAtATime'
  BY <1>3 DEF Push, Goto, Up, Inv, TypeOK, Locs, SelfLocs, SpecialLocs,
     OneAtATime, Exclusive, At
<1>8. QED
  BY <1>4, <1>6, <1>7 DEF Inv

LEMMA InvNext == Inv /\ [Next]_vars => Inv'
<1>1. Inv /\ UNCHANGED vars => Inv'
  BY DEF vars, Inv, TypeOK, NoKioskShared, KiosksConserved, UnitsAccounted,
     OneAtATime, Exclusive, InQueue, Holding, AtAKiosk, At
<1>2. ASSUME Inv, NEW t \in Threads, Call(t) \/ Step(t) PROVE Inv'
  BY <1>2, InvCallSelfCheck, InvCallSpecialCheck, InvSelfDown, InvPopLock, InvPop,
     InvPushLock, InvPush, InvSelfUp, InvSpecialDown, InvSpecialUp, Zenon
     DEF Call, Step, SelfCheck, SpecialCheck
<1>3. QED
  BY <1>1, <1>2, Zenon DEF Next

-----------------------------------------------------------------------------
\* At every point between a down and an up of any of the semaphores, kiosks,
\* queue and semaphores account for the passengers: the inductive invariant.
THEOREM KioskInvariant == Spec => []Inv
BY InvInit, InvNext, PTL DEF Spec

\* The semaphores and the lock of the queue account for the threads that hold them.
THEOREM KioskAccounting == Spec => []Accounting
<1>1. Inv => Accounting
  BY DEF Inv, Accounting
<1>2. QED
  BY <1>1, KioskInvariant, PTL

\* Two passengers never check in at the same kiosk and no kiosk in use is ever
\* offered to a newcomer, for any number of kiosks and passengers.
THEOREM KioskExclusive == Spec => []NoKioskShared
BY KioskInvariant, PTL DEF Inv

\* Whoever got past the counting semaphore finds a kiosk in the queue, although
\* the semaphore and the queue are updated at different moments.
THEOREM KioskAlwaysFound == Spec => []PopFindsKiosk
BY KioskInvariant, InvPopFindsKiosk, PTL

\* No kiosk is lost or invented: each is in the queue or in use, exactly once.
THEOREM KioskConservation == Spec => [](TypeOK /\ KiosksConserved)
BY KioskInvariant, PTL DEF Inv

\* With everybody outside, all kiosks are in the queue and nothing is taken.
RestoredWhenEmpty ==
  (\A t \in Threads : loc[t] = "out") =>
    /\ available = totalKiosk /\ Len(q) = totalKiosk
    /\ mutex = 1 /\ mutex_special_kiosk = 1

LEMMA InvRestored == Inv => RestoredWhenEmpty
<1> SUFFICES ASSUME Inv, \A t \in Threads : loc[t] = "out"
             PROVE  /\ available = totalKiosk /\ Len(q) = totalKiosk
                    /\ mutex = 1 /\ mutex_special_kiosk = 1
  BY DEF RestoredWhenEmpty
<1>1. Holding = {} /\ AtAKiosk = {}
  BY DEF Holding, AtAKiosk, At
<1>2. Cardinality({}) = 0
  BY FS_EmptySet
<1>3. available = totalKiosk /\ Len(q) = totalKiosk
  BY <1>1, <1>2, KioskAssumption DEF Inv, TypeOK, KiosksConserved, UnitsAccounted
<1>4. mutex = 1 /\ mutex_special_kiosk = 1
  BY DEF Inv, TypeOK, OneAtATime, Exclusive, At
<1>5. QED
  BY <1>3, <1>4

\* Whatever has gone on at the kiosks, nothing is left taken when the last
\* passenger is out.
THEOREM KiosksRestored == Spec => []RestoredWhenEmpty
BY KioskInvariant, InvRestored, PTL

-----------------------------------------------------------------------------
(* The security belts *)

LEMMA BeltThreadSets ==
  ASSUME NEW b
  PROVE  /\ Assigned(b) \in SUBSET Threads
         /\ Waiting(b) \in SUBSET Threads
         /\ Checking(b) \in SUBSET Threads
BY DEF Assigned, Waiting, Checking, ThreadsAt

\* The part of the bookkeeping that says which threads have a belt and which
\* one has the mutex.
Owners ==
  /\ \A t \in Threads :
       belt_id[t] = NoBelt <=> belt_at[t] \in {"out", "a_lock", "a_pick"}
  /\ security_belt_available_slot_mutex = 0 <=> ThreadsAt({"a_pick", "r_slot"}) # {}
  /\ \A t, u \in ThreadsAt({"a_pick", "r_slot"}) : t = u

Slots ==
  \A b \in Belts :
    security_belt_available_slot[b] = p - Cardinality(Assigned(b))

Places == \A b \in Belts : belt_available[b] = p - Cardinality(Checking(b))

LEMMA AccountingParts == BeltsAccounted <=> Slots /\ Places /\ Owners
BY DEF BeltsAccounted, Slots, Places, Owners

-----------------------------------------------------------------------------
LEMMA BeltsInvInit == BeltsInit => BeltsInv
<1> SUFFICES ASSUME BeltsInit PROVE BeltsInv
  OBVIOUS
<1>1. \A b \in Belts : Assigned(b) = {} /\ Checking(b) = {}
  BY BeltAssumption DEF BeltsInit, Assigned, Checking, ThreadsAt, Belts, NoBelt
<1>2. ASSUME NEW b \in Belts
      PROVE  /\ security_belt_available_slot[b] = p - Cardinality(Assigned(b))
             /\ belt_available[b] = p - Cardinality(Checking(b))
  <2>1. Cardinality(Assigned(b)) = 0 /\ Cardinality(Checking(b)) = 0
    BY <1>1, FS_EmptySet
  <2>2. security_belt_available_slot[b] = p /\ belt_available[b] = p
    BY DEF BeltsInit
  <2>3. QED
    BY <2>1, <2>2, BeltAssumption
<1>3. BeltsTypeOK /\ Owners
  BY BeltAssumption DEF BeltsInit, BeltsTypeOK, Owners, ThreadsAt, BeltLocs, Belts, NoBelt
<1>4. QED
  BY <1>2, <1>3, AccountingParts DEF BeltsInv, Slots, Places

\* Steps that move no passenger to or from a belt.
LEMMA BeltsInvLocks ==
  ASSUME BeltsInv, NEW t \in Threads,
         CallSecurityCheck(t) \/ AcquireLock(t) \/ ReleaseLock(t)
  PROVE  BeltsInv'
<1> USE DEF CallSecurityCheck, AcquireLock, ReleaseLock, BeltGoto, Down
<1>1. \A b \in Belts : Assigned(b)' = Assigned(b) /\ Checking(b)' = Checking(b)
  BY DEF BeltsInv, BeltsTypeOK, Assigned, Checking, ThreadsAt
<1>2. Slots' /\ Places'
  BY <1>1, AccountingParts DEF BeltsInv, Slots, Places
<1>3. BeltsTypeOK' /\ Owners'
  BY AccountingParts DEF BeltsInv, BeltsTypeOK, Owners, ThreadsAt, BeltLocs
<1>4. QED
  BY <1>2, <1>3, AccountingParts DEF BeltsInv, BeltsAccounted, Slots, Places, Owners

LEMMA InvAcquireBelt ==
  ASSUME BeltsInv, NEW t \in Threads, AcquireBelt(t)
  PROVE  BeltsInv'
<1> USE DEF BeltGoto
<1>1. PICK b \in Belts :
        /\ belt_id' = [belt_id EXCEPT ![t] = b]
        /\ security_belt_available_slot' =
             [security_belt_available_slot EXCEPT ![b] = @ - 1]
  BY DEF AcquireBelt
<1>2. b # NoBelt /\ belt_id[t] = NoBelt /\ belt_at[t] = "a_pick"
  BY BeltAssumption DEF Belts, NoBelt, AcquireBelt, BeltsInv, BeltsAccounted
<1>3. /\ Assigned(b)' = Assigned(b) \cup {t} /\ t \notin Assigned(b)
      /\ \A c \in Belts \ {b} : Assigned(c)' = Assigned(c)
      /\ \A c \in Belts : Checking(c)' = Checking(c)
  BY <1>1, <1>2 DEF AcquireBelt, BeltsInv, BeltsTypeOK, Assigned, Checking, ThreadsAt,
     Belts, NoBelt
<1>4. Slots'
  <2>1. /\ Cardinality(Assigned(b) \cup {t}) = Cardinality(Assigned(b)) + 1
        /\ Cardinality(Assigned(b)) \in Nat
    BY <1>3, Counting, BeltThreadSets
  <2>2. ASSUME NEW c \in Belts
        PROVE  security_belt_available_slot'[c] = p - Cardinality(Assigned(c)')
    <3>1. CASE c = b
      BY <3>1, <1>1, <1>3, <2>1, BeltAssumption DEF BeltsInv, BeltsTypeOK, BeltsAccounted
    <3>2. CASE c # b
      BY <3>2, <1>1, <1>3 DEF BeltsInv, BeltsTypeOK, BeltsAccounted
    <3>3. QED
      BY <3>1, <3>2
  <2>3. QED
    BY <2>2 DEF Slots
<1>5. Places'
  BY <1>3, AccountingParts DEF AcquireBelt, BeltsInv, Places
<1>6. BeltsTypeOK' /\ Owners'
  BY <1>1, <1>2, AccountingParts DEF AcquireBelt, Up, BeltsInv, BeltsTypeOK, Owners,
     ThreadsAt, BeltLocs
<1>7. QED
  BY <1>4, <1>5, <1>6 DEF BeltsInv, BeltsAccounted, Slots, Places, Owners

LEMMA InvReleaseBelt ==
  ASSUME BeltsInv, NEW t \in Threads, ReleaseBelt(t)
  PROVE  BeltsInv'
<1> USE DEF BeltGoto
<1>1. PICK b \in Belts : b = belt_id[t]
  BY DEF ReleaseBelt, BeltsInv, BeltsTypeOK, BeltsAccounted
<1>2. b # NoBelt /\ belt_at[t] = "r_slot"
  BY DEF ReleaseBelt, Belts, NoBelt
<1>3. /\ Assigned(b)' = Assigned(b) \ {t}
      /\ t \in Assigned(b)
      /\ \A c \in Belts : c # b => Assigned(c)' = Assigned(c)
      /\ \A c \in Belts : Checking(c)' = Checking(c)
  <2>1. /\ \A u \in Threads : u # t => belt_id'[u] = belt_id[u] /\ belt_at'[u] = belt_at[u]
        /\ belt_id'[t] = NoBelt /\ belt_at'[t] = "out"
    BY DEF ReleaseBelt, BeltsInv, BeltsTypeOK
  <2>2. \A c \in Belts : c # NoBelt
    BY DEF Belts, NoBelt
  <2>3. QED
    BY <1>1, <1>2, <2>1, <2>2 DEF Assigned, Checking, ThreadsAt
<1>4. Slots'
  <2>1. /\ Cardinality(Assigned(b) \ {t}) = Cardinality(Assigned(b)) - 1
        /\ Cardinality(Assigned(b)) \in Nat
    BY <1>3, Counting, BeltThreadSets
  <2>2. ASSUME NEW c \in Belts
        PROVE  security_belt_available_slot'[c] = p - Cardinality(Assigned(c)')
    <3>1. CASE c = b
      BY <3>1, <1>1, <1>3, <2>1, BeltAssumption DEF ReleaseBelt, BeltsInv, BeltsTypeOK,
         BeltsAccounted
    <3>2. CASE c # b
      BY <3>2, <1>1, <1>3 DEF ReleaseBelt, BeltsInv, BeltsTypeOK, BeltsAccounted
    <3>3. QED
      BY <3>1, <3>2
  <2>3. QED
    BY <2>2 DEF Slots
<1>5. Places'
  BY <1>3, AccountingParts DEF ReleaseBelt, BeltsInv, Places
<1>6. BeltsTypeOK' /\ Owners'
  BY <1>1, <1>2, AccountingParts DEF ReleaseBelt, Up, BeltsInv, BeltsTypeOK, Owners,
     ThreadsAt, BeltLocs
<1>7. QED
  BY <1>4, <1>5, <1>6 DEF BeltsInv, BeltsAccounted, Slots, Places, Owners

LEMMA InvBeltDown ==
  ASSUME BeltsInv, NEW t \in Threads, BeltDown(t)
  PROVE  BeltsInv'
<1> USE DEF BeltGoto
<1>1. PICK b \in Belts : b = belt_id[t]
  BY DEF BeltDown, BeltsInv, BeltsTypeOK, BeltsAccounted
<1>2. b # NoBelt /\ belt_at[t] = "c_down"
  BY DEF BeltDown, Belts, NoBelt
<1>3. /\ Checking(b)' = Checking(b) \cup {t}
      /\ t \notin Checking(b)
      /\ \A c \in Belts : c # b => Checking(c)' = Checking(c)
      /\ \A c \in Belts : Assigned(c)' = Assigned(c)
  BY <1>1, <1>2 DEF BeltDown, BeltsInv, BeltsTypeOK, Assigned, Checking, ThreadsAt
<1>4. Places'
  <2>1. /\ Cardinality(Checking(b) \cup {t}) = Cardinality(Checking(b)) + 1
        /\ Cardinality(Checking(b)) \in Nat
    BY <1>3, Counting, BeltThreadSets
  <2>2. QED
    BY <1>1, <1>3, <2>1, BeltAssumption DEF BeltDown, BeltsInv, BeltsTypeOK,
       BeltsAccounted, Places
<1>5. Slots'
  BY <1>3, AccountingParts DEF BeltDown, BeltsInv, Slots
<1>6. BeltsTypeOK' /\ Owners'
  BY <1>1, <1>2, BeltAssumption, AccountingParts DEF BeltDown, BeltsInv, BeltsTypeOK,
     Owners, ThreadsAt, BeltLocs
<1>7. QED
  BY <1>4, <1>5, <1>6 DEF BeltsInv, BeltsAccounted, Slots, Places, Owners

LEMMA InvBeltUp ==
  ASSUME BeltsInv, NEW t \in Threads, BeltUp(t)
  PROVE  BeltsInv'
<1> USE DEF BeltGoto
<1>1. PICK b \in Belts : b = belt_id[t]
  BY DEF BeltUp, BeltsInv, BeltsTypeOK, BeltsAccounted
<1>2. b # NoBelt /\ belt_at[t] = "c_check"
  BY DEF BeltUp, Belts, NoBelt
<1>3. /\ Checking(b)' = Checking(b) \ {t}
      /\ t \in Checking(b)
      /\ \A c \in Belts : c # b => Checking(c)' = Checking(c)
      /\ \A c \in Belts : Assigned(c)' = Assigned(c)
  BY <1>1, <1>2 DEF BeltUp, BeltsInv, BeltsTypeOK, Assigned, Checking, ThreadsAt
<1>4. /\ Cardinality(Checking(b) \ {t}) = Cardinality(Checking(b)) - 1
      /\ Cardinality(Checking(b) \ {t}) \in Nat
      /\ Cardinality(Checking(b)) \in Nat
  BY <1>3, Counting, BeltThreadSets
<1>5. Places' /\ belt_available'[b] \in 0 .. p
  <2>1. /\ belt_available'[b] = belt_available[b] + 1
        /\ \A c \in Belts : c # b => belt_available'[c] = belt_available[c]
    BY <1>1 DEF BeltUp, BeltsInv, BeltsTypeOK
  <2>2. belt_available[b] = p - Cardinality(Checking(b))
    BY DEF BeltsInv, BeltsAccounted
  <2>3. belt_available'[b] = p - Cardinality(Checking(b)')
    BY <1>3, <1>4, <2>1, <2>2, BeltAssumption
  <2>4. belt_available'[b] \in 0 .. p
    BY <1>3, <1>4, <2>1, <2>3, BeltAssumption DEF BeltsInv, BeltsTypeOK
  <2>5. ASSUME NEW c \in Belts, c # b
        PROVE  belt_available'[c] = p - Cardinality(Checking(c)')
    BY <1>3, <2>1, <2>5 DEF BeltsInv, BeltsAccounted
  <2>6. QED
    BY <2>3, <2>4, <2>5 DEF Places
<1>6. Slots'
  BY <1>3, AccountingParts DEF BeltUp, BeltsInv, Slots
<1>7. BeltsTypeOK' /\ Owners'
  BY <1>1, <1>2, <1>5, AccountingParts DEF BeltUp, BeltsInv, BeltsTypeOK, Owners,
     ThreadsAt, BeltLocs
<1>8. QED
  BY <1>5, <1>6, <1>7 DEF BeltsInv, BeltsAccounted, Slots, Places, Owners

LEMMA BeltsInvNext == BeltsInv /\ [BeltsNext]_beltVars => BeltsInv'
<1>1. BeltsInv /\ UNCHANGED beltVars => BeltsInv'
  BY DEF beltVars, BeltsInv, BeltsTypeOK, BeltsAccounted, Assigned, Checking, ThreadsAt
<1>2. ASSUME BeltsInv, NEW t \in Threads, CallSecurityCheck(t) \/ BeltStep(t) PROVE BeltsInv'
  BY <1>2, BeltsInvLocks, InvAcquireBelt, InvReleaseBelt, InvBeltDown, InvBeltUp, Zenon
     DEF BeltStep
<1>3. QED
  BY <1>1, <1>2, Zenon DEF BeltsNext

-----------------------------------------------------------------------------
\* A place found in the array is a place at the belt: the passengers assigned
\* to a belt that is not overbooked all fit in front of its semaphore.
LEMMA InvSlotIsAPlace == BeltsInv => SlotIsAPlace
<1> SUFFICES ASSUME BeltsInv, NEW b \in Belts, security_belt_available_slot[b] >= 0
             PROVE  Cardinality(Waiting(b)) <= belt_available[b]
  BY DEF SlotIsAPlace
<1>1. /\ Waiting(b) \cup Checking(b) \subseteq Assigned(b)
      /\ Waiting(b) \cap Checking(b) = {}
  BY DEF Waiting, Checking, Assigned, ThreadsAt
<1>2. IsFiniteSet(Assigned(b)) /\ IsFiniteSet(Waiting(b)) /\ IsFiniteSet(Checking(b))
  BY BeltAssumption, BeltThreadSets, FS_Subset
<1>3. Cardinality(Waiting(b) \cup Checking(b)) =
        Cardinality(Waiting(b)) + Cardinality(Checking(b)) - Cardinality({})
  BY <1>1, <1>2, FS_Union
<1>4. Cardinality(Waiting(b) \cup Checking(b)) <= Cardinality(Assigned(b))
  BY <1>1, <1>2, FS_Subset
<1>5. /\ Cardinality(Waiting(b)) \in Nat /\ Cardinality(Checking(b)) \in Nat
      /\ Cardinality(Assigned(b)) \in Nat
  BY Counting, BeltThreadSets
<1>6. /\ security_belt_available_slot[b] = p - Cardinality(Assigned(b))
      /\ belt_available[b] = p - Cardinality(Checking(b))
  BY DEF BeltsInv, BeltsAccounted
<1>7. QED
  BY <1>3, <1>4, <1>5, <1>6, FS_EmptySet, BeltAssumption

LEMMA InvCapacity == BeltsInv => CapacityRespected
<1> SUFFICES ASSUME BeltsInv, NEW b \in Belts PROVE Cardinality(Checking(b)) <= p
  BY DEF CapacityRespected
<1>1. Cardinality(Checking(b)) \in Nat
  BY Counting, BeltThreadSets
<1>2. belt_available[b] = p - Cardinality(Checking(b)) /\ belt_available[b] \in 0 .. p
  BY DEF BeltsInv, BeltsAccounted, BeltsTypeOK
<1>3. QED
  BY <1>1, <1>2, BeltAssumption

\* A step that gives a thread its belt is AcquireBelt, and the roomiest belt of
\* the array is a belt with the fewest passengers.
LEMMA NextLeastLoaded ==
  ASSUME BeltsInv, [BeltsNext]_beltVars, NEW t \in Threads, NEW b \in Belts,
         belt_id[t] = NoBelt, belt_id'[t] = b, NEW c \in Belts
  PROVE  Cardinality(Assigned(b)) <= Cardinality(Assigned(c))
<1>1. b # NoBelt
  BY DEF Belts, NoBelt
<1>2. AcquireBelt(t)
  BY <1>1 DEF BeltsNext, beltVars, CallSecurityCheck, BeltStep, AcquireLock, AcquireBelt,
     BeltDown, BeltUp, ReleaseLock, ReleaseBelt, BeltsInv, BeltsTypeOK
<1>3. Roomiest(b)
  BY <1>2 DEF AcquireBelt, BeltsInv, BeltsTypeOK
<1>4. security_belt_available_slot[c] <= security_belt_available_slot[b]
  BY <1>3 DEF Roomiest
<1>5. Cardinality(Assigned(b)) \in Nat /\ Cardinality(Assigned(c)) \in Nat
  BY Counting, BeltThreadSets
<1>6. QED
  BY <1>4, <1>5, BeltAssumption DEF BeltsInv, BeltsAccounted

-----------------------------------------------------------------------------
\* The slot array and the semaphores account for every passenger, at all times.
THEOREM BeltAccounting == BeltsSpec => []BeltsInv
BY BeltsInvInit, BeltsInvNext, PTL DEF BeltsSpec

\* No belt ever checks more than p passengers at once.
THEOREM BeltCapacity == BeltsSpec => []CapacityRespected
BY BeltAccounting, InvCapacity, PTL

\* A passenger who was given a free slot does not wait at the belt.
THEOREM FreeSlotNoWait == BeltsSpec => []SlotIsAPlace
BY BeltAccounting, InvSlotIsAPlace, PTL

\* Every passenger is sent to a belt with the fewest passengers at that moment.
THEOREM BeltBalance == BeltsSpec => LeastLoaded
<1>1. BeltsInv /\ [BeltsNext]_beltVars =>
        [\A t \in Threads, b \in Belts :
           belt_id[t] = NoBelt /\ belt_id'[t] = b =>
             \A c \in Belts : Cardinality(Assigned(b)) <= Cardinality(Assigned(c))]_beltVars
  BY NextLeastLoaded
<1>2. QED
  BY <1>1, BeltAccounting, PTL DEF BeltsSpec, LeastLoaded

\* With everybody outside, all slots and all places are free.
BeltsBackWhenEmpty ==
  (\A t \in Threads : belt_at[t] = "out") =>
    \A b \in Belts : security_belt_available_slot[b] = p /\ belt_available[b] = p

LEMMA BeltsInvBack == BeltsInv => BeltsBackWhenEmpty
<1> SUFFICES ASSUME BeltsInv, \A t \in Threads : belt_at[t] = "out", NEW b \in Belts
             PROVE  security_belt_available_slot[b] = p /\ belt_available[b] = p
  BY DEF BeltsBackWhenEmpty
<1>1. \A t \in Threads : belt_id[t] = NoBelt
  BY DEF BeltsInv, BeltsAccounted
<1>2. b # NoBelt
  BY DEF Belts, NoBelt
<1>3. Assigned(b) = {} /\ Checking(b) = {}
  BY <1>1, <1>2 DEF Assigned, Checking, ThreadsAt
<1>4. Cardinality({}) = 0
  BY FS_EmptySet
<1>5. QED
  BY <1>3, <1>4, BeltAssumption DEF BeltsInv, BeltsAccounted

\* Whatever has gone on at the belts, every slot and every place is back when
\* the last passenger is out: the array and the semaphores agree again.
THEOREM BeltsRestored == BeltsSpec => []BeltsBackWhenEmpty
BY BeltAccounting, BeltsInvBack, PTL
=============================================================================
