------------------------------ MODULE Airport -------------------------------
(***************************************************************************)
(* The whole simulation: main.cpp creates one thread per passenger, joins   *)
(* them and tears the shared objects down; each thread runs passenger_fly   *)
(* (passenger.cpp), which calls the kiosks, the security belts, the VIP     *)
(* channel and the boarding officer (boarding.cpp) one after the other.     *)
(*                                                                          *)
(* The three components are instances of their own modules.  A passenger is *)
(* inside a call while its location there is not "out"; fly[t] is the call  *)
(* of passenger_fly that thread t is in.                                    *)
(***************************************************************************)
EXTENDS Semaphores, FiniteSets, Sequences

CONSTANTS totalKiosk, n, p

ASSUME AirportAssumption ==
  /\ IsFiniteSet(Threads)
  /\ totalKiosk \in Nat \ {0} /\ n \in Nat \ {0} /\ p \in Nat \ {0}

VARIABLES
  main,                  \* main's phase
  thread_q,              \* the threads main has yet to join, in creation order
  fly,                   \* where each thread is in passenger_fly
  is_vip, lost_boarding_pass,
  mutex_officer,
  \* kiosk.cpp
  kiosk_at, available, q, mutex, kiosk_id, mutex_special_kiosk,
  \* security.cpp
  belt_at, security_belt_available_slot, security_belt_available_slot_mutex,
  belt_available, belt_id,
  \* vip_channel.cpp
  channel_at, count_to_gate, count_to_special_kiosk, available_to_kiosk,
  mutex_count_to_gate, mutex_count_to_special_kiosk, mutex_vip_channel

Kiosks  == INSTANCE Kiosk WITH loc <- kiosk_at
Belts   == INSTANCE SecurityBelts
Channel == INSTANCE VipChannel WITH loc <- channel_at

mainVars      == <<main, thread_q>>
\* The two flags of the Passenger object, FALSE while there is no object.
passengerVars == <<is_vip, lost_boarding_pass>>
kioskVars     == <<kiosk_at, available, q, mutex, kiosk_id, mutex_special_kiosk>>
beltVars      == <<belt_at, security_belt_available_slot,
                   security_belt_available_slot_mutex, belt_available, belt_id>>
channelVars   == <<channel_at, count_to_gate, count_to_special_kiosk, available_to_kiosk,
                   mutex_count_to_gate, mutex_count_to_special_kiosk, mutex_vip_channel>>
componentVars == <<kioskVars, beltVars, channelVars>>

vars == <<mainVars, fly, passengerVars, mutex_officer, componentVars>>

FlyLocs == {"unborn", "self_check", "security", "to_gate", "boarding",
            "officer", "to_special_kiosk", "special_check", "boarded"}

Init ==
  /\ main = "creating"
  /\ thread_q = <<>>
  /\ fly = [t \in Threads |-> "unborn"]
  /\ is_vip = [t \in Threads |-> FALSE]
  /\ lost_boarding_pass = [t \in Threads |-> FALSE]
  /\ mutex_officer = 1
  /\ Kiosks!Init /\ Belts!BeltsInit /\ Channel!Init

Goto(t, from, to) == fly[t] = from /\ fly' = [fly EXCEPT ![t] = to]

\* Mutant: the flag alone is looked at.
lostByAnyone(t) == lost_boarding_pass[t]

\* Passenger::lostBoardingPass: a VIP never loses it.
lostBoardingPass(t) == ~is_vip[t] /\ lost_boarding_pass[t]

-----------------------------------------------------------------------------
(* main *)

\* Both flags of the new passenger come from rand(); the new thread starts in
\* the first call of passenger_fly.
CreatePassenger(t) ==
  /\ main = "creating"
  /\ Goto(t, "unborn", "self_check")
  /\ is_vip' \in {[is_vip EXCEPT ![t] = b] : b \in BOOLEAN}
  /\ lost_boarding_pass' \in {[lost_boarding_pass EXCEPT ![t] = b] : b \in BOOLEAN}
  /\ thread_q' = Append(thread_q, t)
  /\ Kiosks!CallSelfCheck(t)
  /\ UNCHANGED <<main, mutex_officer, beltVars, channelVars>>

\* Mutant: the kiosk semaphore is created again after the passengers.
StopCreatingInitLate ==
  /\ main = "creating"
  /\ main' = "joining"
  /\ available' = totalKiosk
  /\ UNCHANGED <<thread_q, fly, passengerVars, mutex_officer, kiosk_at, q, mutex,
                 kiosk_id, mutex_special_kiosk, beltVars, channelVars>>

\* The number of passengers is random: the time units may be over at any point.
StopCreating ==
  /\ main = "creating"
  /\ main' = "joining"
  /\ UNCHANGED <<thread_q, fly, passengerVars, mutex_officer, componentVars>>

\* Mutant: the threads are detached, main waits for none.
JoinDetached ==
  /\ main = "joining" /\ thread_q # <<>>
  /\ thread_q' = Tail(thread_q)
  /\ UNCHANGED <<main, fly, passengerVars, mutex_officer, componentVars>>

\* pthread_join on the oldest thread not joined yet.
Join ==
  /\ main = "joining" /\ thread_q # <<>>
  /\ fly[Head(thread_q)] = "boarded"
  /\ thread_q' = Tail(thread_q)
  /\ UNCHANGED <<main, fly, passengerVars, mutex_officer, componentVars>>

\* system_destroy deletes the kiosk semaphore and the belts.
SystemDestroy ==
  /\ main = "joining" /\ thread_q = <<>>
  /\ main' = "destroyed"
  /\ UNCHANGED <<thread_q, fly, passengerVars, mutex_officer, componentVars>>

Main == StopCreating \/ Join \/ SystemDestroy \/ \E t \in Threads : CreatePassenger(t)

-----------------------------------------------------------------------------
(* passenger_fly: a call that has returned leads to the next one *)

AfterSelfCheck(t) ==
  /\ kiosk_at[t] = "out"
  /\ \/ /\ is_vip[t]
        /\ Goto(t, "self_check", "to_gate")
        /\ Channel!CallToGate(t)
        /\ UNCHANGED beltVars
     \/ /\ ~is_vip[t]
        /\ Goto(t, "self_check", "security")
        /\ Belts!CallSecurityCheck(t)
        /\ UNCHANGED channelVars
  /\ UNCHANGED <<mainVars, passengerVars, mutex_officer, kioskVars>>

AfterSecurity(t) ==
  /\ belt_at[t] = "out"
  /\ Goto(t, "security", "boarding")
  /\ UNCHANGED <<mainVars, passengerVars, mutex_officer, componentVars>>

AfterToGate(t) ==
  /\ channel_at[t] = "out"
  /\ Goto(t, "to_gate", "boarding")
  /\ UNCHANGED <<mainVars, passengerVars, mutex_officer, componentVars>>

\* Mutant: the officer's semaphore is not taken.
OfficerStartsAtOnce(t) ==
  /\ Goto(t, "boarding", "officer")
  /\ UNCHANGED <<mainVars, passengerVars, mutex_officer, componentVars>>

OfficerStarts(t) ==
  /\ Goto(t, "boarding", "officer")
  /\ Down(mutex_officer)
  /\ UNCHANGED <<mainVars, passengerVars, componentVars>>

\* A passenger who boards is done: passenger_fly deletes the object.
OfficerDecides(t) ==
  /\ Up(mutex_officer)
  /\ \/ /\ ~lostBoardingPass(t)
        /\ Goto(t, "officer", "boarded")
        /\ is_vip' = [is_vip EXCEPT ![t] = FALSE]
        /\ lost_boarding_pass' = [lost_boarding_pass EXCEPT ![t] = FALSE]
        /\ UNCHANGED channelVars
     \/ /\ lostBoardingPass(t)
        /\ Goto(t, "officer", "to_special_kiosk")
        /\ Channel!CallToSpecialKiosk(t)
        /\ UNCHANGED passengerVars
  /\ UNCHANGED <<mainVars, kioskVars, beltVars>>

AfterToSpecialKiosk(t) ==
  /\ channel_at[t] = "out"
  /\ Goto(t, "to_special_kiosk", "special_check")
  /\ Kiosks!CallSpecialCheck(t)
  /\ UNCHANGED <<mainVars, passengerVars, mutex_officer, beltVars, channelVars>>

\* Mutant: the special kiosk does not issue a new boarding pass.
AfterSpecialCheckNoPass(t, lost) ==
  /\ kiosk_at[t] = "out"
  /\ Goto(t, "special_check", "to_gate")
  /\ Channel!CallToGate(t)
  /\ UNCHANGED <<mainVars, passengerVars, mutex_officer, kioskVars, beltVars>>

\* The new boarding pass may be lost again on the way back: rand() decides.
AfterSpecialCheck(t, lost) ==
  /\ kiosk_at[t] = "out"
  /\ Goto(t, "special_check", "to_gate")
  /\ lost_boarding_pass' = [lost_boarding_pass EXCEPT ![t] = lost]
  /\ Channel!CallToGate(t)
  /\ UNCHANGED <<mainVars, is_vip, mutex_officer, kioskVars, beltVars>>

Fly(t) ==
  \/ AfterSelfCheck(t) \/ AfterSecurity(t) \/ AfterToGate(t)
  \/ OfficerStarts(t) \/ OfficerDecides(t) \/ AfterToSpecialKiosk(t)
  \/ \E lost \in BOOLEAN : AfterSpecialCheck(t, lost)

-----------------------------------------------------------------------------
InKiosk(t) ==
  /\ Kiosks!Step(t)
  /\ UNCHANGED <<mainVars, fly, passengerVars, mutex_officer, beltVars, channelVars>>

InSecurity(t) ==
  /\ Belts!BeltStep(t)
  /\ UNCHANGED <<mainVars, fly, passengerVars, mutex_officer, kioskVars, channelVars>>

InChannel(t) ==
  /\ Channel!Step(t)
  /\ UNCHANGED <<mainVars, fly, passengerVars, mutex_officer, kioskVars, beltVars>>

Passenger(t) == Fly(t) \/ InKiosk(t) \/ InSecurity(t) \/ InChannel(t)

\* The process exits: nothing more happens.
Exited == main = "destroyed" /\ UNCHANGED vars

Next == Main \/ Exited \/ \E t \in Threads : Passenger(t)

Spec == Init /\ [][Next]_vars

\* The scheduler runs main and every thread that is not blocked, and rand()
\* does not return 1 for ever.  Nothing is assumed of the order in which a
\* semaphore wakes the threads it has blocked.
Fairness ==
  /\ WF_vars(Main)
  /\ \A t \in Threads : /\ WF_vars(Passenger(t))
                        /\ SF_vars(AfterSpecialCheck(t, FALSE))

FairSpec == Spec /\ Fairness

-----------------------------------------------------------------------------
TypeOK ==
  /\ main \in {"creating", "joining", "destroyed"}
  /\ thread_q \in Seq(Threads)
  /\ fly \in [Threads -> FlyLocs]
  /\ is_vip \in [Threads -> BOOLEAN]
  /\ lost_boarding_pass \in [Threads -> BOOLEAN]
  /\ mutex_officer \in {0, 1}

\* The shared objects are destroyed only when no thread can touch them again.
DestroyedAfterUse ==
  main = "destroyed" =>
    \A t \in Threads :
      /\ fly[t] \in {"unborn", "boarded"}
      /\ kiosk_at[t] = "out" /\ belt_at[t] = "out" /\ channel_at[t] = "out"

\* When the passengers are gone every resource is back: all kiosks, all places
\* at the belts, the channel, the officer.  Nothing leaks on the long way
\* through lost boarding passes.
AllResourcesBack ==
  main = "destroyed" =>
    /\ available = totalKiosk /\ Len(q) = totalKiosk /\ mutex = 1
    /\ mutex_special_kiosk = 1 /\ mutex_officer = 1
    /\ \A b \in Belts!Belts : /\ security_belt_available_slot[b] = p
                              /\ belt_available[b] = p
    /\ available_to_kiosk = 1 /\ mutex_vip_channel = 1
    /\ count_to_gate = 0 /\ count_to_special_kiosk = 0

\* The officer sees one passenger at a time and is free when there is none.
OfficerAlone ==
  /\ mutex_officer = 0 <=> \E t \in Threads : fly[t] = "officer"
  /\ \A t, u \in Threads : fly[t] = "officer" /\ fly[u] = "officer" => t = u

\* Both together.
WellFormed == TypeOK /\ OfficerAlone

\* Only a passenger who has no boarding pass goes back to the special kiosk,
\* and a VIP never does; only those two kinds of passenger use the channel.
OnlyTheLostGoBack ==
  \A t \in Threads :
    /\ channel_at[t] \in Channel!KioskLocs \/ kiosk_at[t] \in Kiosks!SpecialLocs
         => ~is_vip[t] /\ lost_boarding_pass[t]
    /\ belt_at[t] # "out" => ~is_vip[t]

\* The airport is in order: the officer has one passenger at a time, nobody goes back who
\* should not, nothing is destroyed that is still used, and in the end every resource is back.
InOrder == WellFormed /\ OnlyTheLostGoBack /\ DestroyedAfterUse /\ AllResourcesBack

\* The simulation ends: every passenger created boards, main joins them all.
EveryoneBoards == <>(main = "destroyed" /\ \A t \in Threads : fly[t] \in {"unborn", "boarded"})

\* The simulation drives each component only as that component's module allows.
KiosksAsSpecified  == Kiosks!Spec
BeltsAsSpecified   == Belts!BeltsSpec
ChannelAsSpecified == Channel!Spec

ComponentsAsSpecified == KiosksAsSpecified /\ BeltsAsSpecified /\ ChannelAsSpecified
=============================================================================
