--------------------------- MODULE SecurityBelts ----------------------------
(***************************************************************************)
(* The security belts (security.cpp, SecurityBelt.cpp).  Each belt checks   *)
(* up to p passengers at once, behind a semaphore of its own.  A passenger  *)
(* picks the belt with the most free slots from an array kept beside the    *)
(* semaphores under a mutex; the array is updated when the belt is picked   *)
(* and after it is left, the semaphore when the check starts and ends, so   *)
(* the two differ in between, and a slot count may go below zero.           *)
(*                                                                          *)
(* belt_at[t] is the statement thread t is about to execute inside          *)
(* security_check, "out" when it is not there.                              *)
(***************************************************************************)
EXTENDS Semaphores, FiniteSets

CONSTANTS
  n,       \* number of belts
  p        \* passengers a belt checks at once

ASSUME BeltAssumption == IsFiniteSet(Threads) /\ n \in Nat \ {0} /\ p \in Nat \ {0}

VARIABLES
  belt_at,
  security_belt_available_slot,
  security_belt_available_slot_mutex,
  belt_available,   \* the semaphore of each belt
  belt_id           \* the local variable of each thread, NoBelt outside its scope

beltVars == <<belt_at, security_belt_available_slot, security_belt_available_slot_mutex,
              belt_available, belt_id>>

Belts == 0 .. n - 1
NoBelt == -1

BeltLocs == {"out", "a_lock", "a_pick", "c_down", "c_check", "r_lock", "r_slot"}

ThreadsAt(S) == {t \in Threads : belt_at[t] \in S}

BeltGoto(t, from, to) == belt_at[t] = from /\ belt_at' = [belt_at EXCEPT ![t] = to]

BeltsInit ==
  /\ belt_at = [t \in Threads |-> "out"]
  /\ security_belt_available_slot = [b \in Belts |-> p]
  /\ security_belt_available_slot_mutex = 1
  /\ belt_available = [b \in Belts |-> p]
  /\ belt_id = [t \in Threads |-> NoBelt]

-----------------------------------------------------------------------------
CallSecurityCheck(t) ==
  /\ BeltGoto(t, "out", "a_lock")
  /\ UNCHANGED <<security_belt_available_slot, security_belt_available_slot_mutex,
                 belt_available, belt_id>>

(* acquire_belt *)

AcquireLock(t) ==
  /\ BeltGoto(t, "a_lock", "a_pick")
  /\ Down(security_belt_available_slot_mutex)
  /\ UNCHANGED <<security_belt_available_slot, belt_available, belt_id>>

\* Mutant: any belt, the first version of the code (rand() % n).
RoomiestRandom(b) == TRUE

\* The loop keeps the first index with the largest slot count.
Roomiest(b) ==
  \A c \in Belts :
    /\ security_belt_available_slot[c] <= security_belt_available_slot[b]
    /\ c < b => security_belt_available_slot[c] < security_belt_available_slot[b]

\* Mutant: the slot is not counted as taken.
AcquireBeltUncounted(t) ==
  /\ BeltGoto(t, "a_pick", "c_down")
  /\ \E b \in Belts :
       /\ Roomiest(b)
       /\ belt_id' = [belt_id EXCEPT ![t] = b]
  /\ Up(security_belt_available_slot_mutex)
  /\ UNCHANGED <<security_belt_available_slot, belt_available>>

AcquireBelt(t) ==
  /\ BeltGoto(t, "a_pick", "c_down")
  /\ \E b \in Belts :
       /\ Roomiest(b)
       /\ belt_id' = [belt_id EXCEPT ![t] = b]
       /\ security_belt_available_slot' =
            [security_belt_available_slot EXCEPT ![b] = @ - 1]
  /\ Up(security_belt_available_slot_mutex)
  /\ UNCHANGED belt_available

(* SecurityBelt::check_security *)

BeltDown(t) ==
  /\ BeltGoto(t, "c_down", "c_check")
  /\ belt_available[belt_id[t]] > 0
  /\ belt_available' = [belt_available EXCEPT ![belt_id[t]] = @ - 1]
  /\ UNCHANGED <<security_belt_available_slot, security_belt_available_slot_mutex, belt_id>>

BeltUp(t) ==
  /\ BeltGoto(t, "c_check", "r_lock")
  /\ belt_available' = [belt_available EXCEPT ![belt_id[t]] = @ + 1]
  /\ UNCHANGED <<security_belt_available_slot, security_belt_available_slot_mutex, belt_id>>

(* release_belt *)

ReleaseLock(t) ==
  /\ BeltGoto(t, "r_lock", "r_slot")
  /\ Down(security_belt_available_slot_mutex)
  /\ UNCHANGED <<security_belt_available_slot, belt_available, belt_id>>

\* Mutant: the slot is not given back.
ReleaseBeltForgotten(t) ==
  /\ BeltGoto(t, "r_slot", "out")
  /\ Up(security_belt_available_slot_mutex)
  /\ belt_id' = [belt_id EXCEPT ![t] = NoBelt]
  /\ UNCHANGED <<security_belt_available_slot, belt_available>>

ReleaseBelt(t) ==
  /\ BeltGoto(t, "r_slot", "out")
  /\ security_belt_available_slot' =
       [security_belt_available_slot EXCEPT ![belt_id[t]] = @ + 1]
  /\ Up(security_belt_available_slot_mutex)
  /\ belt_id' = [belt_id EXCEPT ![t] = NoBelt]
  /\ UNCHANGED belt_available

-----------------------------------------------------------------------------
BeltStep(t) ==
  \/ AcquireLock(t) \/ AcquireBelt(t) \/ BeltDown(t) \/ BeltUp(t)
  \/ ReleaseLock(t) \/ ReleaseBelt(t)

BeltsNext == \E t \in Threads : CallSecurityCheck(t) \/ BeltStep(t)

BeltsSpec == BeltsInit /\ [][BeltsNext]_beltVars

-----------------------------------------------------------------------------
BeltsTypeOK ==
  /\ belt_at \in [Threads -> BeltLocs]
  /\ security_belt_available_slot \in [Belts -> Int]
  /\ security_belt_available_slot_mutex \in {0, 1}
  /\ belt_available \in [Belts -> 0 .. p]
  /\ belt_id \in [Threads -> Belts \cup {NoBelt}]

Assigned(b) == {t \in Threads : belt_id[t] = b}
Waiting(b)  == {t \in ThreadsAt({"c_down"}) : belt_id[t] = b}
Checking(b) == {t \in ThreadsAt({"c_check"}) : belt_id[t] = b}

\* The array and the semaphores each account for the passengers they stand
\* for, and a thread has a belt exactly between acquire_belt and release_belt.
BeltsAccounted ==
  /\ \A b \in Belts :
       /\ security_belt_available_slot[b] = p - Cardinality(Assigned(b))
       /\ belt_available[b] = p - Cardinality(Checking(b))
  /\ \A t \in Threads :
       belt_id[t] = NoBelt <=> belt_at[t] \in {"out", "a_lock", "a_pick"}
  /\ security_belt_available_slot_mutex = 0 <=> ThreadsAt({"a_pick", "r_slot"}) # {}
  /\ \A t, u \in ThreadsAt({"a_pick", "r_slot"}) : t = u

\* The inductive invariant of the belts.
BeltsInv == BeltsTypeOK /\ BeltsAccounted

\* A belt never checks more passengers than it has places for.
CapacityRespected == \A b \in Belts : Cardinality(Checking(b)) <= p

\* A slot that acquire_belt found is a place at the belt: while the count of a
\* belt has not gone below zero, nobody assigned to it has to wait.
SlotIsAPlace ==
  \A b \in Belts :
    security_belt_available_slot[b] >= 0 =>
      Cardinality(Waiting(b)) <= belt_available[b]

\* A passenger is sent to a belt with the fewest passengers at that moment,
\* so one belt overflows only when all of them are full.
LeastLoaded ==
  [][\A t \in Threads, b \in Belts :
       belt_id[t] = NoBelt /\ belt_id'[t] = b =>
         \A c \in Belts : Cardinality(Assigned(b)) <= Cardinality(Assigned(c))]_beltVars
=============================================================================
