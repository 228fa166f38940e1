------------------------------- MODULE Kiosk --------------------------------
(***************************************************************************)
(* The check-in kiosks (kiosk.cpp).  A counting semaphore says how many     *)
(* kiosks are free; a locked queue (Queue.cpp) says which.  A thread first  *)
(* takes a unit of the semaphore, then an id from the queue, and gives them *)
(* back in the opposite order.  The special kiosk is a plain mutex.         *)
(*                                                                          *)
(* loc[t] is the statement thread t is about to execute inside              *)
(* kiosk_self_check or kiosk_special_check, "out" when it is in neither.    *)
(***************************************************************************)
EXTENDS Semaphores, FiniteSets, Sequences

CONSTANT totalKiosk

ASSUME KioskAssumption == IsFiniteSet(Threads) /\ totalKiosk \in Nat \ {0}

VARIABLES
  loc,
  available,            \* how many kiosks are free
  q,                    \* which ones, oldest first
  mutex,                \* the lock inside q
  kiosk_id,             \* the local variable of each thread, NoKiosk outside its scope
  mutex_special_kiosk

vars == <<loc, available, q, mutex, kiosk_id, mutex_special_kiosk>>

KioskIds == 1 .. totalKiosk
NoKiosk == 0

\* kiosk_self_check with the two queue operations inlined, and kiosk_special_check.
SelfLocs == {"s_down", "s_lock", "s_pop", "s_check", "s_push", "s_up"}
SpecialLocs == {"x_down", "x_check"}
Locs == {"out"} \cup SelfLocs \cup SpecialLocs

At(S) == {t \in Threads : loc[t] \in S}

Goto(t, from, to) == loc[t] = from /\ loc' = [loc EXCEPT ![t] = to]

Init ==
  /\ loc = [t \in Threads |-> "out"]
  /\ available = totalKiosk
  /\ q = [i \in KioskIds |-> i]
  /\ mutex = 1
  /\ kiosk_id = [t \in Threads |-> NoKiosk]
  /\ mutex_special_kiosk = 1

-----------------------------------------------------------------------------
(* kiosk_self_check *)

CallSelfCheck(t) ==
  /\ Goto(t, "out", "s_down")
  /\ UNCHANGED <<available, q, mutex, kiosk_id, mutex_special_kiosk>>

\* Mutant: a sem_trywait whose result is ignored.
SelfDownTried(t) ==
  /\ Goto(t, "s_down", "s_lock")
  /\ available' = IF available > 0 THEN available - 1 ELSE available
  /\ UNCHANGED <<q, mutex, kiosk_id, mutex_special_kiosk>>

SelfDown(t) ==
  /\ Goto(t, "s_down", "s_lock")
  /\ Down(available)
  /\ UNCHANGED <<q, mutex, kiosk_id, mutex_special_kiosk>>

PopLock(t) ==
  /\ Goto(t, "s_lock", "s_pop")
  /\ Down(mutex)
  /\ UNCHANGED <<available, q, kiosk_id, mutex_special_kiosk>>

\* Mutant: the id is read but not taken out of the queue.
PopPeeks(t) ==
  /\ Goto(t, "s_pop", "s_check")
  /\ kiosk_id' = [kiosk_id EXCEPT ![t] = Head(q)]
  /\ Up(mutex)
  /\ UNCHANGED <<available, q, mutex_special_kiosk>>

\* front, pop and the unlock: the front of an empty queue would be undefined.
Pop(t) ==
  /\ Goto(t, "s_pop", "s_check")
  /\ kiosk_id' = [kiosk_id EXCEPT ![t] = Head(q)]
  /\ q' = Tail(q)
  /\ Up(mutex)
  /\ UNCHANGED <<available, mutex_special_kiosk>>

\* The check-in (a sleep) is over and the thread locks the queue again.
PushLock(t) ==
  /\ Goto(t, "s_check", "s_push")
  /\ Down(mutex)
  /\ UNCHANGED <<available, q, kiosk_id, mutex_special_kiosk>>

\* Mutant: the kiosk is not given back.
PushForgotten(t) ==
  /\ Goto(t, "s_push", "s_up")
  /\ Up(mutex)
  /\ UNCHANGED <<available, q, kiosk_id, mutex_special_kiosk>>

Push(t) ==
  /\ Goto(t, "s_push", "s_up")
  /\ q' = Append(q, kiosk_id[t])
  /\ Up(mutex)
  /\ UNCHANGED <<available, kiosk_id, mutex_special_kiosk>>

SelfUp(t) ==
  /\ Goto(t, "s_up", "out")
  /\ Up(available)
  /\ kiosk_id' = [kiosk_id EXCEPT ![t] = NoKiosk]
  /\ UNCHANGED <<q, mutex, mutex_special_kiosk>>

SelfCheck(t) ==
  \/ SelfDown(t) \/ PopLock(t) \/ Pop(t) \/ PushLock(t) \/ Push(t) \/ SelfUp(t)

-----------------------------------------------------------------------------
(* kiosk_special_check *)

CallSpecialCheck(t) ==
  /\ Goto(t, "out", "x_down")
  /\ UNCHANGED <<available, q, mutex, kiosk_id, mutex_special_kiosk>>

SpecialDown(t) ==
  /\ Goto(t, "x_down", "x_check")
  /\ Down(mutex_special_kiosk)
  /\ UNCHANGED <<available, q, mutex, kiosk_id>>

SpecialUp(t) ==
  /\ Goto(t, "x_check", "out")
  /\ Up(mutex_special_kiosk)
  /\ UNCHANGED <<available, q, mutex, kiosk_id>>

SpecialCheck(t) == SpecialDown(t) \/ SpecialUp(t)

-----------------------------------------------------------------------------
Call(t) == CallSelfCheck(t) \/ CallSpecialCheck(t)

Step(t) == SelfCheck(t) \/ SpecialCheck(t)

Next == \E t \in Threads : Call(t) \/ Step(t)

Spec == Init /\ [][Next]_vars

-----------------------------------------------------------------------------
TypeOK ==
  /\ loc \in [Threads -> Locs]
  /\ available \in 0 .. totalKiosk
  /\ q \in Seq(KioskIds)
  /\ mutex \in {0, 1}
  /\ kiosk_id \in [Threads -> KioskIds \cup {NoKiosk}]
  /\ mutex_special_kiosk \in {0, 1}

\* The threads that hold a unit of available, and those of them that hold an id.
Holding  == At({"s_lock", "s_pop", "s_check", "s_push", "s_up"})
AtAKiosk == At({"s_check", "s_push"})
InQueue  == {q[i] : i \in DOMAIN q}

\* Two passengers never check in at the same kiosk, and no kiosk is offered to
\* a newcomer twice, or while a passenger is at it.
NoKioskShared ==
  /\ \A t, u \in AtAKiosk : kiosk_id[t] = kiosk_id[u] => t = u
  /\ \A t \in AtAKiosk : kiosk_id[t] \notin InQueue
  /\ \A i, j \in DOMAIN q : q[i] = q[j] => i = j

\* A thread that got past the semaphore finds an id in the queue: the two are
\* updated at different moments, yet front is never called on an empty queue.
PopFindsKiosk == \A t \in Threads : loc[t] \in {"s_lock", "s_pop"} => q # <<>>

\* No kiosk is ever lost or invented: each is in the queue or in use.
KiosksConserved ==
  /\ InQueue \cup {kiosk_id[t] : t \in AtAKiosk} = KioskIds
  /\ Len(q) + Cardinality(AtAKiosk) = totalKiosk

\* The semaphore counts the units that no thread holds.
UnitsAccounted == available + Cardinality(Holding) = totalKiosk

\* The queue is used by one thread at a time, the special kiosk too, and each
\* is free when nobody uses it.
Exclusive(sem, S) ==
  /\ sem = 0 <=> At(S) # {}
  /\ \A t, u \in At(S) : t = u

OneAtATime ==
  /\ Exclusive(mutex, {"s_pop", "s_push"})
  /\ Exclusive(mutex_special_kiosk, {"x_check"})

\* The semaphores and the queue's lock each account for the threads that hold
\* them, at every point between a down and an up.
Accounting == UnitsAccounted /\ OneAtATime

\* The inductive invariant of the kiosks.  PopFindsKiosk is not part of it: it
\* follows from the two counts.
Inv ==
  /\ TypeOK
  /\ NoKioskShared
  /\ KiosksConserved
  /\ UnitsAccounted
  /\ OneAtATime
=============================================================================
