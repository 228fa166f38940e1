--------------------------- MODULE AirportProofs ----------------------------
(***************************************************************************)
(* Proofs about the composed simulation, for any number of kiosks, belts    *)
(* and places and any finite set of threads.                                *)
(***************************************************************************)
EXTENDS Airport, SequenceTheorems, TLAPS

\* The theorems about the components, read for the variables of the simulation.
Checkpoints   == INSTANCE CheckpointProofs WITH loc <- kiosk_at
ChannelProved == INSTANCE VipChannelProofs WITH loc <- channel_at

-----------------------------------------------------------------------------
(* Every step of the simulation is, for each component, a step of that       *)
(* component or no step at all.                                              *)

LEMMA FlyMaps ==
  ASSUME NEW t \in Threads, Fly(t)
  PROVE  /\ [Kiosks!Next]_(Kiosks!vars)
         /\ [Belts!BeltsNext]_(Belts!beltVars)
         /\ [Channel!Next]_(Channel!vars)
<1> USE DEF Kiosks!vars, Belts!beltVars, Channel!vars, kioskVars, beltVars,
            channelVars, componentVars
<1>1. CASE AfterSelfCheck(t)
  BY <1>1 DEF AfterSelfCheck, Belts!BeltsNext, Channel!Next, Channel!Call
<1>2. CASE AfterSecurity(t) \/ AfterToGate(t) \/ OfficerStarts(t)
  BY <1>2 DEF AfterSecurity, AfterToGate, OfficerStarts
<1>3. CASE OfficerDecides(t)
  BY <1>3 DEF OfficerDecides, Channel!Next, Channel!Call
<1>4. CASE AfterToSpecialKiosk(t)
  BY <1>4 DEF AfterToSpecialKiosk, Kiosks!Next, Kiosks!Call
<1>5. CASE \E lost \in BOOLEAN : AfterSpecialCheck(t, lost)
  BY <1>5 DEF AfterSpecialCheck, Channel!Next, Channel!Call
<1>6. QED
  BY <1>1, <1>2, <1>3, <1>4, <1>5 DEF Fly

LEMMA NextMaps ==
  ASSUME [Next]_vars
  PROVE  /\ [Kiosks!Next]_(Kiosks!vars)
         /\ [Belts!BeltsNext]_(Belts!beltVars)
         /\ [Channel!Next]_(Channel!vars)
<1> USE DEF Kiosks!vars, Belts!beltVars, Channel!vars, kioskVars, beltVars,
            channelVars, componentVars
<1>1. CASE UNCHANGED vars
  BY <1>1 DEF vars
<1>2. CASE Main
  BY <1>2 DEF Main, StopCreating, Join, SystemDestroy, CreatePassenger,
     Kiosks!Next, Kiosks!Call
<1>3. CASE Exited
  BY <1>3, <1>1 DEF Exited
<1>4. ASSUME NEW t \in Threads, InKiosk(t) PROVE Kiosks!Next /\ UNCHANGED <<beltVars, channelVars>>
  BY <1>4 DEF InKiosk, Kiosks!Next
<1>5. ASSUME NEW t \in Threads, InSecurity(t) PROVE Belts!BeltsNext /\ UNCHANGED <<kioskVars, channelVars>>
  BY <1>5 DEF InSecurity, Belts!BeltsNext
<1>6. ASSUME NEW t \in Threads, InChannel(t) PROVE Channel!Next /\ UNCHANGED <<kioskVars, beltVars>>
  BY <1>6 DEF InChannel, Channel!Next
<1>7. QED
  BY <1>1, <1>2, <1>3, <1>4, <1>5, <1>6, FlyMaps DEF Next, Passenger

\* The simulation uses the kiosks as Kiosk allows: whatever is proved of them
\* alone holds of them in the simulation.
THEOREM AirportUsesKiosks == Spec => KiosksAsSpecified
<1>1. Init => Kiosks!Init
  BY DEF Init
<1>2. QED
  BY <1>1, NextMaps, PTL DEF Spec, Kiosks!Spec, KiosksAsSpecified

\* The same for the security belts.
THEOREM AirportUsesBelts == Spec => BeltsAsSpecified
<1>1. Init => Belts!BeltsInit
  BY DEF Init
<1>2. QED
  BY <1>1, NextMaps, PTL DEF Spec, Belts!BeltsSpec, BeltsAsSpecified

\* The same for the VIP channel.
THEOREM AirportUsesChannel == Spec => ChannelAsSpecified
<1>1. Init => Channel!Init
  BY DEF Init
<1>2. QED
  BY <1>1, NextMaps, PTL DEF Spec, Channel!Spec, ChannelAsSpecified

\* So every safety property proved of a component's own specification holds of
\* that component inside the whole simulation.
THEOREM AirportUsesComponents == Spec => ComponentsAsSpecified
BY AirportUsesKiosks, AirportUsesBelts, AirportUsesChannel DEF ComponentsAsSpecified

-----------------------------------------------------------------------------
(* Nobody is left inside the shared objects when main destroys them *)

\* A thread is inside at most one component: the one passenger_fly called.
OneCallAtATime ==
  \A t \in Threads :
    /\ kiosk_at[t] # "out" => fly[t] \in {"self_check", "special_check"}
    /\ belt_at[t] # "out" => fly[t] = "security"
    /\ channel_at[t] # "out" => fly[t] \in {"to_gate", "to_special_kiosk"}

\* main still has to join every thread that runs.
RunningIsQueued ==
  \A t \in Threads :
    fly[t] \notin {"unborn", "boarded"} => \E i \in DOMAIN thread_q : thread_q[i] = t

Functions ==
  /\ fly \in [Threads -> FlyLocs]
  /\ kiosk_at \in [Threads -> Kiosks!Locs]
  /\ belt_at \in [Threads -> Belts!BeltLocs]
  /\ channel_at \in [Threads -> Channel!Locs]
  /\ thread_q \in Seq(Threads)

Inv ==
  /\ Functions
  /\ OneCallAtATime
  /\ RunningIsQueued
  /\ main = "destroyed" => thread_q = <<>>

\* A step inside a component moves one thread that is inside it.
LEMMA KioskSteps ==
  ASSUME NEW t \in Threads, Kiosks!Step(t), kiosk_at \in [Threads -> Kiosks!Locs]
  PROVE  /\ kiosk_at' \in [Threads -> Kiosks!Locs]
         /\ \A u \in Threads : kiosk_at'[u] # "out" => kiosk_at[u] # "out"
BY DEF Kiosks!Locs, Kiosks!SelfLocs, Kiosks!SpecialLocs,
   Kiosks!Step, Kiosks!SelfCheck, Kiosks!SpecialCheck, Kiosks!Goto,
   Kiosks!SelfDown, Kiosks!PopLock, Kiosks!Pop, Kiosks!PushLock, Kiosks!Push,
   Kiosks!SelfUp, Kiosks!SpecialDown, Kiosks!SpecialUp

LEMMA BeltSteps ==
  ASSUME NEW t \in Threads, Belts!BeltStep(t), belt_at \in [Threads -> Belts!BeltLocs]
  PROVE  /\ belt_at' \in [Threads -> Belts!BeltLocs]
         /\ \A u \in Threads : belt_at'[u] # "out" => belt_at[u] # "out"
BY DEF Belts!BeltLocs, Belts!BeltStep, Belts!BeltGoto,
   Belts!AcquireLock, Belts!AcquireBelt, Belts!BeltDown, Belts!BeltUp,
   Belts!ReleaseLock, Belts!ReleaseBelt

LEMMA ChannelSteps ==
  ASSUME NEW t \in Threads, Channel!Step(t), channel_at \in [Threads -> Channel!Locs]
  PROVE  /\ channel_at' \in [Threads -> Channel!Locs]
         /\ \A u \in Threads : channel_at'[u] # "out" => channel_at[u] # "out"
<1>1. CASE Channel!ToGate(t)
  BY <1>1 DEF Channel!ToGate, Channel!Goto, Channel!Locs, Channel!GateLocs, Channel!KioskLocs,
     Channel!GateLock, Channel!GateEnter, Channel!GateTurnstile,
     Channel!GateChannel, Channel!GateUnlock, Channel!GateCross,
     Channel!GateLeave, Channel!GateFree, Channel!GateOpen,
     Channel!GateReturn
<1>2. CASE Channel!ToSpecialKiosk(t)
  BY <1>2 DEF Channel!ToSpecialKiosk, Channel!Goto, Channel!Locs, Channel!GateLocs, Channel!KioskLocs,
     Channel!KioskTurnstile, Channel!KioskPass, Channel!KioskLock,
     Channel!KioskEnter, Channel!KioskChannel, Channel!KioskUnlock,
     Channel!KioskCross, Channel!KioskLeave, Channel!KioskFree,
     Channel!KioskReturn
<1>3. QED
  BY <1>1, <1>2 DEF Channel!Step

LEMMA InvInit == Init => Inv
BY DEF Init, Inv, Functions, OneCallAtATime, RunningIsQueued, Kiosks!Init,
   Belts!BeltsInit, Channel!Init, FlyLocs, Kiosks!Locs, Kiosks!SelfLocs, Kiosks!SpecialLocs,
   Belts!BeltLocs, Channel!Locs, Channel!GateLocs, Channel!KioskLocs

LEMMA InvComponents ==
  ASSUME Inv, NEW t \in Threads, InKiosk(t) \/ InSecurity(t) \/ InChannel(t)
  PROVE  Inv'
<1> USE DEF Inv, Functions, OneCallAtATime, RunningIsQueued, mainVars, kioskVars,
            beltVars, channelVars
<1>1. CASE InKiosk(t)
  BY <1>1, KioskSteps DEF InKiosk
<1>2. CASE InSecurity(t)
  BY <1>2, BeltSteps DEF InSecurity
<1>3. CASE InChannel(t)
  BY <1>3, ChannelSteps DEF InChannel
<1>4. QED
  BY <1>1, <1>2, <1>3

\* A thread that goes on to its next call still has to be joined.
LEMMA StillQueued ==
  ASSUME Inv, NEW t \in Threads, NEW from \in FlyLocs, NEW to \in FlyLocs,
         Goto(t, from, to), from \notin {"unborn", "boarded"},
         UNCHANGED mainVars
  PROVE  fly' \in [Threads -> FlyLocs] /\ RunningIsQueued'
BY DEF Inv, Functions, RunningIsQueued, Goto, mainVars

LEMMA InvFly ==
  ASSUME Inv, NEW t \in Threads, Fly(t)
  PROVE  Inv'
<1> USE DEF componentVars, FlyLocs
<1>1. CASE AfterSelfCheck(t)
  <2> USE <1>1 DEF AfterSelfCheck, Channel!CallToGate, Channel!Goto,
          Belts!CallSecurityCheck, Belts!BeltGoto
  <2>1. fly' \in [Threads -> FlyLocs] /\ RunningIsQueued'
    BY StillQueued
  <2>2. OneCallAtATime'
    BY DEF Inv, Functions, OneCallAtATime, Goto, kioskVars, beltVars, channelVars
  <2>3. QED
    BY <2>1, <2>2 DEF Inv, Functions, mainVars, kioskVars, beltVars, channelVars,
       Belts!BeltLocs, Channel!Locs, Channel!GateLocs
<1>2. CASE AfterSecurity(t) \/ AfterToGate(t) \/ OfficerStarts(t)
  <2> USE <1>2 DEF AfterSecurity, AfterToGate, OfficerStarts
  <2>1. fly' \in [Threads -> FlyLocs] /\ RunningIsQueued'
    BY StillQueued
  <2>2. OneCallAtATime'
    BY DEF Inv, Functions, OneCallAtATime, Goto, kioskVars, beltVars, channelVars
  <2>3. QED
    BY <2>1, <2>2 DEF Inv, Functions, mainVars, kioskVars, beltVars, channelVars
<1>3. CASE OfficerDecides(t)
  <2> USE <1>3 DEF OfficerDecides, Channel!CallToSpecialKiosk, Channel!Goto
  <2>1. fly' \in [Threads -> FlyLocs] /\ RunningIsQueued'
    BY StillQueued
  <2>2. OneCallAtATime'
    BY DEF Inv, Functions, OneCallAtATime, Goto, kioskVars, beltVars, channelVars
  <2>3. QED
    BY <2>1, <2>2 DEF Inv, Functions, mainVars, kioskVars, beltVars, channelVars,
       Channel!Locs, Channel!KioskLocs
<1>4. CASE AfterToSpecialKiosk(t)
  <2> USE <1>4 DEF AfterToSpecialKiosk, Kiosks!CallSpecialCheck, Kiosks!Goto
  <2>1. fly' \in [Threads -> FlyLocs] /\ RunningIsQueued'
    BY StillQueued
  <2>2. OneCallAtATime'
    BY DEF Inv, Functions, OneCallAtATime, Goto, kioskVars, beltVars, channelVars
  <2>3. QED
    BY <2>1, <2>2 DEF Inv, Functions, mainVars, kioskVars, beltVars, channelVars,
       Kiosks!Locs, Kiosks!SpecialLocs
<1>5. CASE \E lost \in BOOLEAN : AfterSpecialCheck(t, lost)
  <2> USE <1>5 DEF AfterSpecialCheck, Channel!CallToGate, Channel!Goto
  <2>1. fly' \in [Threads -> FlyLocs] /\ RunningIsQueued'
    BY StillQueued
  <2>2. OneCallAtATime'
    BY DEF Inv, Functions, OneCallAtATime, Goto, kioskVars, beltVars, channelVars
  <2>3. QED
    BY <2>1, <2>2 DEF Inv, Functions, mainVars, kioskVars, beltVars, channelVars,
       Channel!Locs, Channel!GateLocs
<1>6. QED
  BY <1>1, <1>2, <1>3, <1>4, <1>5 DEF Fly

LEMMA InvCreatePassenger ==
  ASSUME Inv, NEW t \in Threads, CreatePassenger(t)
  PROVE  Inv'
<1> USE DEF Inv, Functions, OneCallAtATime, RunningIsQueued, Goto, CreatePassenger,
            beltVars, channelVars, Kiosks!CallSelfCheck, Kiosks!Goto,
            FlyLocs, Kiosks!Locs, Kiosks!SelfLocs, Kiosks!SpecialLocs
<1>1. /\ thread_q' \in Seq(Threads) /\ Len(thread_q') = Len(thread_q) + 1
      /\ \A i \in 1 .. Len(thread_q) : thread_q'[i] = thread_q[i]
      /\ thread_q'[Len(thread_q) + 1] = t
  BY AppendProperties
<1>2. /\ DOMAIN thread_q = 1 .. Len(thread_q)
      /\ DOMAIN thread_q' = 1 .. Len(thread_q) + 1 /\ Len(thread_q) \in Nat
  BY <1>1
<1>3. /\ \E i \in DOMAIN thread_q' : thread_q'[i] = t
      /\ \A i \in DOMAIN thread_q : i \in DOMAIN thread_q' /\ thread_q'[i] = thread_q[i]
  BY <1>1, <1>2
<1>4. \A u \in Threads : u # t => fly'[u] = fly[u]
  OBVIOUS
<1>5. RunningIsQueued'
  BY <1>3, <1>4
<1>6. Functions' /\ OneCallAtATime' /\ main' # "destroyed"
  BY <1>1
<1>7. QED
  BY <1>5, <1>6

LEMMA InvJoin ==
  ASSUME Inv, Join
  PROVE  Inv'
<1> USE DEF Inv, Functions, OneCallAtATime, RunningIsQueued, Join, componentVars,
            kioskVars, beltVars, channelVars
<1>1. /\ thread_q' \in Seq(Threads) /\ Len(thread_q') = Len(thread_q) - 1
      /\ \A i \in 1 .. Len(thread_q') : thread_q'[i] = thread_q[i + 1]
  BY HeadTailProperties
<1>2. /\ DOMAIN thread_q = 1 .. Len(thread_q) /\ DOMAIN thread_q' = 1 .. Len(thread_q')
      /\ Len(thread_q) \in Nat /\ Head(thread_q) = thread_q[1]
  BY <1>1
<1>3. \A i \in DOMAIN thread_q :
        i # 1 => i - 1 \in DOMAIN thread_q' /\ thread_q'[i - 1] = thread_q[i]
  BY <1>1, <1>2
<1>4. RunningIsQueued'
  <2> SUFFICES ASSUME NEW t \in Threads, fly[t] \notin {"unborn", "boarded"}
               PROVE  \E i \in DOMAIN thread_q' : thread_q'[i] = t
    OBVIOUS
  <2>1. PICK i \in DOMAIN thread_q : thread_q[i] = t
    OBVIOUS
  <2>2. i # 1
    BY <1>2, <2>1
  <2>3. QED
    BY <1>3, <2>1, <2>2
<1>5. QED
  BY <1>1, <1>4

LEMMA InvNext == Inv /\ [Next]_vars => Inv'
<1>1. Inv /\ (UNCHANGED vars \/ StopCreating \/ SystemDestroy) => Inv'
  BY DEF Inv, Functions, OneCallAtATime, RunningIsQueued, vars, StopCreating,
     SystemDestroy, mainVars, componentVars, kioskVars, beltVars, channelVars
<1>2. QED
  BY <1>1, InvComponents, InvFly, InvCreatePassenger, InvJoin
     DEF Next, Main, Exited, Passenger

\* Once main has joined them all, every thread is done and in no component.
LEMMA Deserted ==
  ASSUME Inv, main = "destroyed", NEW t \in Threads
  PROVE  /\ fly[t] \in {"unborn", "boarded"}
         /\ kiosk_at[t] = "out" /\ belt_at[t] = "out" /\ channel_at[t] = "out"
<1>1. DOMAIN thread_q = {}
  BY DEF Inv
<1>2. fly[t] \in {"unborn", "boarded"}
  BY <1>1 DEF Inv, RunningIsQueued
<1>3. QED
  BY <1>2 DEF Inv, OneCallAtATime

\* main destroys the kiosks, the belts and itself only after every passenger
\* thread has come out of every component for good.
THEOREM AirportDestroyedAfterUse == Spec => []DestroyedAfterUse
<1>1. Inv => DestroyedAfterUse
  BY Deserted DEF DestroyedAfterUse
<1>2. QED
  BY <1>1, InvInit, InvNext, PTL DEF Spec

-----------------------------------------------------------------------------
(* What is proved of a component alone holds of it inside the simulation.    *)
(* The operators of an instance of Kiosk and those of CheckpointProofs       *)
(* have different names; the first lemma of each pair says they are the same *)

LEMMA SameKiosks ==
  /\ Kiosks!Init => Checkpoints!Init
  /\ Kiosks!Next => Checkpoints!Next
  /\ Kiosks!vars = Checkpoints!vars
<1> USE DEF Kiosks!Goto, Checkpoints!Goto, Kiosks!Down, Checkpoints!Down,
            Kiosks!Up, Checkpoints!Up, Kiosks!NoKiosk, Checkpoints!NoKiosk
<1>1. ASSUME NEW t \in Threads PROVE Kiosks!Call(t) => Checkpoints!Call(t)
  BY DEF Kiosks!Call, Kiosks!CallSelfCheck, Kiosks!CallSpecialCheck,
     Checkpoints!Call, Checkpoints!CallSelfCheck, Checkpoints!CallSpecialCheck
<1>2. ASSUME NEW t \in Threads PROVE Kiosks!SelfCheck(t) => Checkpoints!SelfCheck(t)
  BY DEF Kiosks!SelfCheck, Kiosks!SelfDown, Kiosks!PopLock, Kiosks!Pop,
     Kiosks!PushLock, Kiosks!Push, Kiosks!SelfUp,
     Checkpoints!SelfCheck, Checkpoints!SelfDown, Checkpoints!PopLock, Checkpoints!Pop,
     Checkpoints!PushLock, Checkpoints!Push, Checkpoints!SelfUp
<1>3. ASSUME NEW t \in Threads PROVE Kiosks!SpecialCheck(t) => Checkpoints!SpecialCheck(t)
  BY DEF Kiosks!SpecialCheck, Kiosks!SpecialDown, Kiosks!SpecialUp,
     Checkpoints!SpecialCheck, Checkpoints!SpecialDown, Checkpoints!SpecialUp
<1>4. QED
  BY <1>1, <1>2, <1>3
     DEF Kiosks!Init, Kiosks!Next, Kiosks!Step, Kiosks!vars, Kiosks!KioskIds,
     Checkpoints!Init, Checkpoints!Next, Checkpoints!Step, Checkpoints!vars,
     Checkpoints!KioskIds

LEMMA SameBelts ==
  /\ Belts!BeltsInit => Checkpoints!BeltsInit
  /\ Belts!BeltsNext => Checkpoints!BeltsNext
  /\ Belts!beltVars = Checkpoints!beltVars
<1> USE DEF Belts!Belts, Checkpoints!Belts, Belts!NoBelt, Checkpoints!NoBelt,
            Belts!BeltGoto, Checkpoints!BeltGoto, Belts!Down, Checkpoints!Down,
            Belts!Up, Checkpoints!Up
<1>1. ASSUME NEW t \in Threads
      PROVE  /\ Belts!CallSecurityCheck(t) => Checkpoints!CallSecurityCheck(t)
             /\ Belts!AcquireLock(t) => Checkpoints!AcquireLock(t)
             /\ Belts!AcquireBelt(t) => Checkpoints!AcquireBelt(t)
             /\ Belts!BeltDown(t) => Checkpoints!BeltDown(t)
             /\ Belts!BeltUp(t) => Checkpoints!BeltUp(t)
             /\ Belts!ReleaseLock(t) => Checkpoints!ReleaseLock(t)
             /\ Belts!ReleaseBelt(t) => Checkpoints!ReleaseBelt(t)
  BY DEF Belts!CallSecurityCheck, Checkpoints!CallSecurityCheck,
     Belts!AcquireLock, Checkpoints!AcquireLock, Belts!AcquireBelt, Checkpoints!AcquireBelt,
     Belts!Roomiest, Checkpoints!Roomiest, Belts!BeltDown, Checkpoints!BeltDown,
     Belts!BeltUp, Checkpoints!BeltUp, Belts!ReleaseLock, Checkpoints!ReleaseLock,
     Belts!ReleaseBelt, Checkpoints!ReleaseBelt
<1>2. QED
  BY <1>1 DEF Belts!BeltsInit, Belts!BeltsNext, Belts!BeltStep, Belts!beltVars,
     Checkpoints!BeltsInit, Checkpoints!BeltsNext, Checkpoints!BeltStep, Checkpoints!beltVars

LEMMA SameChannel ==
  /\ Channel!Init => ChannelProved!Init
  /\ Channel!Next => ChannelProved!Next
  /\ Channel!vars = ChannelProved!vars
<1> USE DEF Channel!Goto, ChannelProved!Goto, Channel!Down, ChannelProved!Down,
            Channel!Up, ChannelProved!Up, Channel!gateVars, ChannelProved!gateVars,
            Channel!kioskVars, ChannelProved!kioskVars,
            Channel!sharedVars, ChannelProved!sharedVars
<1>1. ASSUME NEW t \in Threads PROVE Channel!Call(t) => ChannelProved!Call(t)
  BY DEF Channel!Call, Channel!CallToGate, Channel!CallToSpecialKiosk,
     ChannelProved!Call, ChannelProved!CallToGate, ChannelProved!CallToSpecialKiosk
<1>2. ASSUME NEW t \in Threads PROVE Channel!ToGate(t) => ChannelProved!ToGate(t)
  BY DEF Channel!ToGate, Channel!GateLock, Channel!GateEnter, Channel!GateTurnstile,
     Channel!GateChannel, Channel!GateUnlock, Channel!GateCross, Channel!GateLeave,
     Channel!GateFree, Channel!GateOpen, Channel!GateReturn,
     ChannelProved!ToGate, ChannelProved!GateLock, ChannelProved!GateEnter,
     ChannelProved!GateTurnstile, ChannelProved!GateChannel, ChannelProved!GateUnlock,
     ChannelProved!GateCross, ChannelProved!GateLeave, ChannelProved!GateFree,
     ChannelProved!GateOpen, ChannelProved!GateReturn
<1>3. ASSUME NEW t \in Threads
      PROVE  Channel!ToSpecialKiosk(t) => ChannelProved!ToSpecialKiosk(t)
  BY DEF Channel!ToSpecialKiosk, Channel!KioskTurnstile, Channel!KioskPass,
     Channel!KioskLock, Channel!KioskEnter, Channel!KioskChannel, Channel!KioskUnlock,
     Channel!KioskCross, Channel!KioskLeave, Channel!KioskFree, Channel!KioskReturn,
     ChannelProved!ToSpecialKiosk, ChannelProved!KioskTurnstile, ChannelProved!KioskPass,
     ChannelProved!KioskLock, ChannelProved!KioskEnter, ChannelProved!KioskChannel,
     ChannelProved!KioskUnlock, ChannelProved!KioskCross, ChannelProved!KioskLeave,
     ChannelProved!KioskFree, ChannelProved!KioskReturn
<1>4. QED
  BY <1>1, <1>2, <1>3 DEF Channel!Init, Channel!Next, Channel!Step, Channel!vars,
     ChannelProved!Init, ChannelProved!Next, ChannelProved!Step, ChannelProved!vars

\* The components' assumptions on the constants are parts of the airport's.
LEMMA ComponentAssumptions ==
  /\ Checkpoints!KioskAssumption
  /\ Checkpoints!BeltAssumption
  /\ ChannelProved!ThreadsFinite
BY AirportAssumption DEF IsFiniteSet, Checkpoints!KioskAssumption, Checkpoints!IsFiniteSet,
   Checkpoints!BeltAssumption, Checkpoints!IsFiniteSet,
   ChannelProved!ThreadsFinite, ChannelProved!IsFiniteSet

LEMMA AirportIsProved ==
  Spec => Checkpoints!Spec /\ Checkpoints!BeltsSpec /\ ChannelProved!Spec
<1>1. Init => Checkpoints!Init /\ Checkpoints!BeltsInit /\ ChannelProved!Init
  BY SameKiosks, SameBelts, SameChannel DEF Init
<1>2. [Next]_vars => /\ [Checkpoints!Next]_(Checkpoints!vars)
                     /\ [Checkpoints!BeltsNext]_(Checkpoints!beltVars)
                     /\ [ChannelProved!Next]_(ChannelProved!vars)
  <2>1. /\ (Kiosks!vars' = Kiosks!vars) => (Checkpoints!vars' = Checkpoints!vars)
        /\ (Belts!beltVars' = Belts!beltVars) => (Checkpoints!beltVars' = Checkpoints!beltVars)
        /\ (Channel!vars' = Channel!vars) => (ChannelProved!vars' = ChannelProved!vars)
    BY DEF Kiosks!vars, Belts!beltVars, Channel!vars,
       Checkpoints!vars, Checkpoints!beltVars, ChannelProved!vars
  <2>2. QED
    BY <2>1, NextMaps, SameKiosks, SameBelts, SameChannel
<1>3. QED
  BY <1>1, <1>2, PTL DEF Spec, Checkpoints!Spec, Checkpoints!BeltsSpec, ChannelProved!Spec

\* What a component gives back when everybody is out of it.
Restored ==
  /\ Checkpoints!RestoredWhenEmpty
  /\ Checkpoints!BeltsBackWhenEmpty
  /\ ChannelProved!RestoredWhenEmpty

\* In the simulation, too, a component nobody is in is as good as new.
THEOREM AirportRestored == Spec => []Restored
BY AirportIsProved, ComponentAssumptions, Checkpoints!KiosksRestored,
   Checkpoints!BeltsRestored, ChannelProved!ChannelRestored, PTL DEF Restored

\* In the simulation, too, passengers never cross the channel in both
\* directions at once, and never check in at one kiosk together.
THEOREM AirportExclusive ==
  Spec => [](ChannelProved!OneWay /\ Checkpoints!NoKioskShared)
BY AirportIsProved, ComponentAssumptions, ChannelProved!OneDirectionAtATime,
   Checkpoints!KioskExclusive, PTL

-----------------------------------------------------------------------------
(* The airport is in order *)

\* A thread is in the function of a component that passenger_fly called.
CallMatches ==
  \A t \in Threads :
    /\ kiosk_at[t] \in Kiosks!SelfLocs => fly[t] = "self_check"
    /\ kiosk_at[t] \in Kiosks!SpecialLocs => fly[t] = "special_check"
    /\ channel_at[t] \in Channel!GateLocs => fly[t] = "to_gate"
    /\ channel_at[t] \in Channel!KioskLocs => fly[t] = "to_special_kiosk"

\* The flags on which passenger_fly branched do not change before it has come
\* back: this is what OnlyTheLostGoBack needs to be inductive.
FlagsKept ==
  \A t \in Threads :
    /\ fly[t] \in {"to_special_kiosk", "special_check"} => ~is_vip[t] /\ lost_boarding_pass[t]
    /\ fly[t] = "security" => ~is_vip[t]

OrderInv == WellFormed /\ CallMatches /\ FlagsKept

\* A step inside a component leaves each thread in the function it is in.
LEMMA KioskStepsStay ==
  ASSUME NEW t \in Threads, Kiosks!Step(t), kiosk_at \in [Threads -> Kiosks!Locs]
  PROVE  \A u \in Threads :
           /\ kiosk_at'[u] \in Kiosks!SelfLocs => kiosk_at[u] \in Kiosks!SelfLocs
           /\ kiosk_at'[u] \in Kiosks!SpecialLocs => kiosk_at[u] \in Kiosks!SpecialLocs
BY DEF Kiosks!Locs, Kiosks!SelfLocs, Kiosks!SpecialLocs,
   Kiosks!Step, Kiosks!SelfCheck, Kiosks!SpecialCheck, Kiosks!Goto,
   Kiosks!SelfDown, Kiosks!PopLock, Kiosks!Pop, Kiosks!PushLock, Kiosks!Push,
   Kiosks!SelfUp, Kiosks!SpecialDown, Kiosks!SpecialUp

LEMMA ChannelStepsStay ==
  ASSUME NEW t \in Threads, Channel!Step(t), channel_at \in [Threads -> Channel!Locs]
  PROVE  \A u \in Threads :
           /\ channel_at'[u] \in Channel!GateLocs => channel_at[u] \in Channel!GateLocs
           /\ channel_at'[u] \in Channel!KioskLocs => channel_at[u] \in Channel!KioskLocs
<1> USE DEF Channel!Goto, Channel!Locs, Channel!GateLocs, Channel!KioskLocs
<1>1. CASE Channel!ToGate(t)
  BY <1>1 DEF Channel!ToGate, Channel!GateLock, Channel!GateEnter, Channel!GateTurnstile,
     Channel!GateChannel, Channel!GateUnlock, Channel!GateCross,
     Channel!GateLeave, Channel!GateFree, Channel!GateOpen, Channel!GateReturn
<1>2. CASE Channel!ToSpecialKiosk(t)
  BY <1>2 DEF Channel!ToSpecialKiosk, Channel!KioskTurnstile, Channel!KioskPass,
     Channel!KioskLock, Channel!KioskEnter, Channel!KioskChannel, Channel!KioskUnlock,
     Channel!KioskCross, Channel!KioskLeave, Channel!KioskFree, Channel!KioskReturn
<1>3. QED
  BY <1>1, <1>2 DEF Channel!Step

LEMMA OrderInit == Init => OrderInv
BY DEF Init, OrderInv, WellFormed, TypeOK, OfficerAlone, CallMatches, FlagsKept,
   FlyLocs, Kiosks!Init, Channel!Init, Kiosks!SelfLocs, Kiosks!SpecialLocs,
   Channel!GateLocs, Channel!KioskLocs

LEMMA OrderComponents ==
  ASSUME Inv, OrderInv, NEW t \in Threads, InKiosk(t) \/ InSecurity(t) \/ InChannel(t)
  PROVE  OrderInv'
<1> USE DEF Inv, Functions, OrderInv, WellFormed, TypeOK, OfficerAlone, CallMatches,
            FlagsKept, mainVars, passengerVars, kioskVars, beltVars, channelVars
<1>1. CASE InKiosk(t)
  BY <1>1, KioskStepsStay DEF InKiosk
<1>2. CASE InSecurity(t)
  BY <1>2 DEF InSecurity
<1>3. CASE InChannel(t)
  BY <1>3, ChannelStepsStay DEF InChannel
<1>4. QED
  BY <1>1, <1>2, <1>3

LEMMA OrderMain ==
  ASSUME Inv, OrderInv, Main
  PROVE  OrderInv'
<1> USE DEF Inv, Functions, OrderInv, WellFormed, TypeOK, OfficerAlone, CallMatches,
            FlagsKept, mainVars, passengerVars, componentVars, kioskVars, beltVars,
            channelVars, FlyLocs
<1>1. CASE StopCreating
  BY <1>1 DEF StopCreating
<1>2. CASE Join
  <2>1. thread_q' \in Seq(Threads)
    BY <1>2, HeadTailProperties DEF Join
  <2>2. QED
    BY <1>2, <2>1 DEF Join
<1>3. CASE SystemDestroy
  BY <1>3 DEF SystemDestroy
<1>4. ASSUME NEW t \in Threads, CreatePassenger(t) PROVE OrderInv'
  <2>1. thread_q' \in Seq(Threads)
    BY <1>4, AppendProperties DEF CreatePassenger
  <2>2. TypeOK'
    <3>1. is_vip' \in [Threads -> BOOLEAN] /\ lost_boarding_pass' \in [Threads -> BOOLEAN]
      <4>1. PICK b \in BOOLEAN : is_vip' = [is_vip EXCEPT ![t] = b]
        BY <1>4 DEF CreatePassenger
      <4>2. PICK c \in BOOLEAN : lost_boarding_pass' = [lost_boarding_pass EXCEPT ![t] = c]
        BY <1>4 DEF CreatePassenger
      <4>. QED
        BY <4>1, <4>2
    <3>2. fly' \in [Threads -> FlyLocs] /\ main' = main /\ mutex_officer' = mutex_officer
      BY <1>4 DEF CreatePassenger, Goto
    <3>. QED
      BY <2>1, <3>1, <3>2
  <2>3. CallMatches'
    BY <1>4 DEF CreatePassenger, Goto, Kiosks!CallSelfCheck, Kiosks!Goto, OneCallAtATime,
       Kiosks!SelfLocs, Kiosks!SpecialLocs, Channel!GateLocs, Channel!KioskLocs
  <2>4. FlagsKept' /\ OfficerAlone'
    BY <1>4 DEF CreatePassenger, Goto
  <2>5. QED
    BY <2>2, <2>3, <2>4
<1>5. QED
  BY <1>1, <1>2, <1>3, <1>4 DEF Main

LEMMA OrderFly ==
  ASSUME Inv, OrderInv, NEW t \in Threads, Fly(t)
  PROVE  OrderInv'
<1> USE DEF Inv, Functions, OneCallAtATime, OrderInv, WellFormed, TypeOK, mainVars,
            passengerVars, componentVars, kioskVars, beltVars, channelVars, FlyLocs, Goto
<1>1. CASE AfterSelfCheck(t)
  <2> USE <1>1 DEF AfterSelfCheck, Channel!CallToGate, Channel!Goto,
          Belts!CallSecurityCheck, Belts!BeltGoto
  <2>1. TypeOK' /\ OfficerAlone'
    BY DEF OfficerAlone
  <2>2. CallMatches'
    BY DEF CallMatches, Kiosks!SelfLocs, Kiosks!SpecialLocs, Channel!GateLocs, Channel!KioskLocs
  <2>3. FlagsKept'
    BY DEF FlagsKept
  <2>4. QED
    BY <2>1, <2>2, <2>3
<1>2. CASE AfterSecurity(t) \/ AfterToGate(t)
  <2> USE <1>2 DEF AfterSecurity, AfterToGate
  <2>1. TypeOK' /\ OfficerAlone'
    BY DEF OfficerAlone
  <2>2. CallMatches'
    BY DEF CallMatches, Kiosks!SelfLocs, Kiosks!SpecialLocs, Channel!GateLocs, Channel!KioskLocs
  <2>3. FlagsKept'
    BY DEF FlagsKept
  <2>4. QED
    BY <2>1, <2>2, <2>3
<1>3. CASE OfficerStarts(t)
  <2> USE <1>3 DEF OfficerStarts, Down
  <2>1. TypeOK' /\ OfficerAlone'
    BY DEF OfficerAlone
  <2>2. CallMatches'
    BY DEF CallMatches, Kiosks!SelfLocs, Kiosks!SpecialLocs, Channel!GateLocs, Channel!KioskLocs
  <2>3. FlagsKept'
    BY DEF FlagsKept
  <2>4. QED
    BY <2>1, <2>2, <2>3
<1>4. CASE OfficerDecides(t)
  <2> USE <1>4 DEF OfficerDecides, Channel!CallToSpecialKiosk, Channel!Goto, Up
  <2>1. mutex_officer = 0 /\ mutex_officer' = 1
    BY DEF OfficerAlone
  <2>2. \A u \in Threads : fly'[u] # "officer"
    BY DEF OfficerAlone
  <2>3. TypeOK' /\ OfficerAlone'
    <3>1. fly' \in [Threads -> FlyLocs]
      OBVIOUS
    <3>2. is_vip' \in [Threads -> BOOLEAN] /\ lost_boarding_pass' \in [Threads -> BOOLEAN]
      OBVIOUS
    <3>3. OfficerAlone'
      BY <2>1, <2>2 DEF OfficerAlone
    <3>4. QED
      BY <2>1, <3>1, <3>2, <3>3
  <2>4. CallMatches'
    BY DEF CallMatches, Kiosks!SelfLocs, Kiosks!SpecialLocs, Channel!GateLocs, Channel!KioskLocs
  <2>5. FlagsKept'
    BY DEF FlagsKept, lostBoardingPass
  <2>6. QED
    BY <2>3, <2>4, <2>5
<1>5. CASE AfterToSpecialKiosk(t)
  <2> USE <1>5 DEF AfterToSpecialKiosk, Kiosks!CallSpecialCheck, Kiosks!Goto
  <2>1. TypeOK' /\ OfficerAlone'
    BY DEF OfficerAlone
  <2>2. CallMatches'
    BY DEF CallMatches, Kiosks!SelfLocs, Kiosks!SpecialLocs, Channel!GateLocs, Channel!KioskLocs
  <2>3. FlagsKept'
    BY DEF FlagsKept
  <2>4. QED
    BY <2>1, <2>2, <2>3
<1>6. CASE \E lost \in BOOLEAN : AfterSpecialCheck(t, lost)
  <2> USE <1>6 DEF AfterSpecialCheck, Channel!CallToGate, Channel!Goto
  <2>1. TypeOK' /\ OfficerAlone'
    BY DEF OfficerAlone
  <2>2. CallMatches'
    BY DEF CallMatches, Kiosks!SelfLocs, Kiosks!SpecialLocs, Channel!GateLocs, Channel!KioskLocs
  <2>3. FlagsKept'
    BY DEF FlagsKept
  <2>4. QED
    BY <2>1, <2>2, <2>3
<1>7. QED
  BY <1>1, <1>2, <1>3, <1>4, <1>5, <1>6 DEF Fly

LEMMA OrderNext == Inv /\ OrderInv /\ [Next]_vars => OrderInv'
<1>1. Inv /\ OrderInv /\ UNCHANGED vars => OrderInv'
  BY DEF OrderInv, WellFormed, TypeOK, OfficerAlone, CallMatches, FlagsKept, vars,
     mainVars, passengerVars, componentVars, kioskVars, beltVars, channelVars
<1>2. QED
  BY <1>1, OrderComponents, OrderMain, OrderFly DEF Next, Exited, Passenger

\* Only a passenger without a boarding pass is on its way to the special kiosk.
LEMMA InvOnlyTheLostGoBack == Inv /\ OrderInv => OnlyTheLostGoBack
BY DEF Inv, OneCallAtATime, OrderInv, CallMatches, FlagsKept, OnlyTheLostGoBack

\* Once main has destroyed the objects, nobody is in a component, and what each
\* component gives back when it is empty is all there is.
LEMMA InvAllResourcesBack == Inv /\ OrderInv /\ Restored => AllResourcesBack
<1> SUFFICES ASSUME Inv, OrderInv, Restored, main = "destroyed"
             PROVE  AllResourcesBack
  BY DEF AllResourcesBack
<1>1. \A t \in Threads : /\ fly[t] \in {"unborn", "boarded"}
                         /\ kiosk_at[t] = "out" /\ belt_at[t] = "out" /\ channel_at[t] = "out"
  BY Deserted
<1>2. mutex_officer = 1
  BY <1>1 DEF OrderInv, WellFormed, TypeOK, OfficerAlone
<1>3. available = totalKiosk /\ Len(q) = totalKiosk /\ mutex = 1 /\ mutex_special_kiosk = 1
  BY <1>1 DEF Restored, Checkpoints!RestoredWhenEmpty
<1>4. \A b \in Belts!Belts : security_belt_available_slot[b] = p /\ belt_available[b] = p
  BY <1>1 DEF Restored, Checkpoints!BeltsBackWhenEmpty, Checkpoints!Belts, Belts!Belts
<1>5. /\ available_to_kiosk = 1 /\ mutex_vip_channel = 1
      /\ count_to_gate = 0 /\ count_to_special_kiosk = 0
  BY <1>1 DEF Restored, ChannelProved!RestoredWhenEmpty, ChannelProved!At
<1>6. QED
  BY <1>2, <1>3, <1>4, <1>5 DEF AllResourcesBack

\* The officer has one passenger at a time, only passengers who lost their pass
\* go back, and when main is done every resource is back, for any number of
\* passengers, kiosks, belts and places.
THEOREM AirportInOrder == Spec => []InOrder
<1>1. Inv /\ OrderInv /\ Restored /\ DestroyedAfterUse => InOrder
  BY InvOnlyTheLostGoBack, InvAllResourcesBack DEF InOrder, OrderInv
<1>2. QED
  BY <1>1, InvInit, InvNext, OrderInit, OrderNext, AirportRestored, AirportDestroyedAfterUse,
     PTL DEF Spec
=============================================================================
