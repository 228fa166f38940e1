----------------------------- MODULE VipChannel -----------------------------
(***************************************************************************)
(* The VIP channel of the airport simulation (vip_channel.cpp): a corridor  *)
(* that passengers may cross in either direction, but only in one direction *)
(* at a time.  Passengers going to the gate have priority: the first of     *)
(* them takes the turnstile semaphore available_to_kiosk away from the      *)
(* other direction and keeps it until the last of them has left.            *)
(*                                                                          *)
(* Each passenger is a thread.  loc[t] is the statement thread t is about   *)
(* to execute inside one of the two functions, "out" when it is in neither. *)
(***************************************************************************)
EXTENDS Semaphores, FiniteSets

ASSUME ThreadsFinite == IsFiniteSet(Threads)

VARIABLES
  loc,                            \* program location of each thread
  count_to_gate,
  count_to_special_kiosk,
  available_to_kiosk,             \* the turnstile
  mutex_count_to_gate,
  mutex_count_to_special_kiosk,
  mutex_vip_channel               \* held by the direction that is crossing

vars == <<loc, count_to_gate, count_to_special_kiosk, available_to_kiosk,
          mutex_count_to_gate, mutex_count_to_special_kiosk, mutex_vip_channel>>

\* vip_channel_to_gate, statement by statement.
GateLocs == {"g_lock", "g_enter", "g_turnstile", "g_channel", "g_unlock",
             "g_cross", "g_leave", "g_free", "g_open", "g_return"}

\* vip_channel_to_special_kiosk, statement by statement.
KioskLocs == {"k_turnstile", "k_pass", "k_lock", "k_enter", "k_channel",
              "k_unlock", "k_cross", "k_leave", "k_free", "k_return"}

Locs == {"out"} \cup GateLocs \cup KioskLocs

At(S) == {t \in Threads : loc[t] \in S}

Goto(t, from, to) == loc[t] = from /\ loc' = [loc EXCEPT ![t] = to]

-----------------------------------------------------------------------------
Init ==
  /\ loc = [t \in Threads |-> "out"]
  /\ count_to_gate = 0
  /\ count_to_special_kiosk = 0
  /\ available_to_kiosk = 1
  /\ mutex_count_to_gate = 1
  /\ mutex_count_to_special_kiosk = 1
  /\ mutex_vip_channel = 1

gateVars  == <<count_to_gate, mutex_count_to_gate>>
kioskVars == <<count_to_special_kiosk, mutex_count_to_special_kiosk>>
sharedVars == <<available_to_kiosk, mutex_vip_channel>>

-----------------------------------------------------------------------------
(* vip_channel_to_gate *)

CallToGate(t) ==
  /\ Goto(t, "out", "g_lock")
  /\ UNCHANGED <<gateVars, kioskVars, sharedVars>>

GateLock(t) ==
  /\ Goto(t, "g_lock", "g_enter")
  /\ Down(mutex_count_to_gate)
  /\ UNCHANGED <<count_to_gate, kioskVars, sharedVars>>

\* Only the first passenger of a group goes on to claim the channel.
GateEnter(t) ==
  /\ count_to_gate' = count_to_gate + 1
  /\ Goto(t, "g_enter", IF count_to_gate' = 1 THEN "g_turnstile" ELSE "g_unlock")
  /\ UNCHANGED <<mutex_count_to_gate, kioskVars, sharedVars>>

\* Mutant: the claim on the turnstile is forgotten.
GateTurnstileForgotten(t) ==
  /\ Goto(t, "g_turnstile", "g_channel")
  /\ UNCHANGED <<gateVars, kioskVars, sharedVars>>

\* Claims the turnstile: from here on nobody starts towards the kiosk.
GateTurnstile(t) ==
  /\ Goto(t, "g_turnstile", "g_channel")
  /\ Down(available_to_kiosk)
  /\ UNCHANGED <<gateVars, kioskVars, mutex_vip_channel>>

\* Mutant: the turnstile is taken for enough, the channel is not waited for.
GateChannelForgotten(t) ==
  /\ Goto(t, "g_channel", "g_unlock")
  /\ UNCHANGED <<gateVars, kioskVars, sharedVars>>

GateChannel(t) ==
  /\ Goto(t, "g_channel", "g_unlock")
  /\ Down(mutex_vip_channel)
  /\ UNCHANGED <<gateVars, kioskVars, available_to_kiosk>>

GateUnlock(t) ==
  /\ Goto(t, "g_unlock", "g_cross")
  /\ Up(mutex_count_to_gate)
  /\ UNCHANGED <<count_to_gate, kioskVars, sharedVars>>

\* The crossing (a sleep) is over and the thread takes the mutex again.
GateCross(t) ==
  /\ Goto(t, "g_cross", "g_leave")
  /\ Down(mutex_count_to_gate)
  /\ UNCHANGED <<count_to_gate, kioskVars, sharedVars>>

\* Mutant: the counter is tested before it is decremented, one too early.
GateLeaveEarly(t) ==
  /\ count_to_gate' = count_to_gate - 1
  /\ Goto(t, "g_leave", IF count_to_gate' <= 1 THEN "g_free" ELSE "g_return")
  /\ UNCHANGED <<mutex_count_to_gate, kioskVars, sharedVars>>

GateLeave(t) ==
  /\ count_to_gate' = count_to_gate - 1
  /\ Goto(t, "g_leave", IF count_to_gate' = 0 THEN "g_free" ELSE "g_return")
  /\ UNCHANGED <<mutex_count_to_gate, kioskVars, sharedVars>>

GateFree(t) ==
  /\ Goto(t, "g_free", "g_open")
  /\ Up(mutex_vip_channel)
  /\ UNCHANGED <<gateVars, kioskVars, available_to_kiosk>>

\* Mutant: the last passenger leaves the turnstile shut.
GateOpenForgotten(t) ==
  /\ Goto(t, "g_open", "g_return")
  /\ UNCHANGED <<gateVars, kioskVars, sharedVars>>

GateOpen(t) ==
  /\ Goto(t, "g_open", "g_return")
  /\ Up(available_to_kiosk)
  /\ UNCHANGED <<gateVars, kioskVars, mutex_vip_channel>>

GateReturn(t) ==
  /\ Goto(t, "g_return", "out")
  /\ Up(mutex_count_to_gate)
  /\ UNCHANGED <<count_to_gate, kioskVars, sharedVars>>

ToGate(t) ==
  \/ GateLock(t) \/ GateEnter(t) \/ GateTurnstile(t) \/ GateChannel(t)
  \/ GateUnlock(t) \/ GateCross(t) \/ GateLeave(t) \/ GateFree(t)
  \/ GateOpen(t) \/ GateReturn(t)

-----------------------------------------------------------------------------
(* vip_channel_to_special_kiosk *)

CallToSpecialKiosk(t) ==
  /\ Goto(t, "out", "k_turnstile")
  /\ UNCHANGED <<gateVars, kioskVars, sharedVars>>

\* Mutant: the passengers to the special kiosk do not go through the turnstile.
KioskTurnstileSkipped(t) ==
  /\ Goto(t, "k_turnstile", "k_lock")
  /\ UNCHANGED <<gateVars, kioskVars, sharedVars>>

KioskTurnstile(t) ==
  /\ Goto(t, "k_turnstile", "k_pass")
  /\ Down(available_to_kiosk)
  /\ UNCHANGED <<gateVars, kioskVars, mutex_vip_channel>>

KioskPass(t) ==
  /\ Goto(t, "k_pass", "k_lock")
  /\ Up(available_to_kiosk)
  /\ UNCHANGED <<gateVars, kioskVars, mutex_vip_channel>>

KioskLock(t) ==
  /\ Goto(t, "k_lock", "k_enter")
  /\ Down(mutex_count_to_special_kiosk)
  /\ UNCHANGED <<count_to_special_kiosk, gateVars, sharedVars>>

KioskEnter(t) ==
  /\ count_to_special_kiosk' = count_to_special_kiosk + 1
  /\ Goto(t, "k_enter",
          IF count_to_special_kiosk' = 1 THEN "k_channel" ELSE "k_unlock")
  /\ UNCHANGED <<mutex_count_to_special_kiosk, gateVars, sharedVars>>

KioskChannel(t) ==
  /\ Goto(t, "k_channel", "k_unlock")
  /\ Down(mutex_vip_channel)
  /\ UNCHANGED <<gateVars, kioskVars, available_to_kiosk>>

KioskUnlock(t) ==
  /\ Goto(t, "k_unlock", "k_cross")
  /\ Up(mutex_count_to_special_kiosk)
  /\ UNCHANGED <<count_to_special_kiosk, gateVars, sharedVars>>

\* The crossing (a sleep) is over and the thread takes the mutex again.
KioskCross(t) ==
  /\ Goto(t, "k_cross", "k_leave")
  /\ Down(mutex_count_to_special_kiosk)
  /\ UNCHANGED <<count_to_special_kiosk, gateVars, sharedVars>>

KioskLeave(t) ==
  /\ count_to_special_kiosk' = count_to_special_kiosk - 1
  /\ Goto(t, "k_leave",
          IF count_to_special_kiosk' = 0 THEN "k_free" ELSE "k_return")
  /\ UNCHANGED <<mutex_count_to_special_kiosk, gateVars, sharedVars>>

KioskFree(t) ==
  /\ Goto(t, "k_free", "k_return")
  /\ Up(mutex_vip_channel)
  /\ UNCHANGED <<gateVars, kioskVars, available_to_kiosk>>

KioskReturn(t) ==
  /\ Goto(t, "k_return", "out")
  /\ Up(mutex_count_to_special_kiosk)
  /\ UNCHANGED <<count_to_special_kiosk, gateVars, sharedVars>>

ToSpecialKiosk(t) ==
  \/ KioskTurnstile(t) \/ KioskPass(t) \/ KioskLock(t) \/ KioskEnter(t)
  \/ KioskChannel(t) \/ KioskUnlock(t) \/ KioskCross(t) \/ KioskLeave(t)
  \/ KioskFree(t) \/ KioskReturn(t)

-----------------------------------------------------------------------------
Call(t) == CallToGate(t) \/ CallToSpecialKiosk(t)

Step(t) == ToGate(t) \/ ToSpecialKiosk(t)

Next == \E t \in Threads : Call(t) \/ Step(t)

Spec == Init /\ [][Next]_vars

\* The scheduler runs every thread that is not blocked; nobody has to call.
FairSpec == Spec /\ \A t \in Threads : WF_vars(Step(t))

-----------------------------------------------------------------------------
Some(S) == \E t \in Threads : loc[t] \in S

\* The threads counted by count_to_gate and by count_to_special_kiosk.
GateCounted  == At({"g_turnstile", "g_channel", "g_unlock", "g_cross", "g_leave"})
KioskCounted == At({"k_channel", "k_unlock", "k_cross", "k_leave"})

GateHolding  == {"g_enter", "g_turnstile", "g_channel", "g_unlock",
                 "g_leave", "g_free", "g_open", "g_return"}
KioskHolding == {"k_enter", "k_channel", "k_unlock",
                 "k_leave", "k_free", "k_return"}

\* A direction owns the channel from its first member's down to its last
\* member's up of mutex_vip_channel.
GateOwns  == Some({"g_free"}) \/ (GateCounted # {} /\ ~Some({"g_turnstile", "g_channel"}))
KioskOwns == Some({"k_free"}) \/ (KioskCounted # {} /\ ~Some({"k_channel"}))

\* The gate direction keeps the turnstile shut.
GateCloses == \/ Some({"g_free", "g_open"})
              \/ GateCounted # {} /\ ~Some({"g_turnstile"})

\* The values the program's variables may have.
TypeOK ==
  /\ loc \in [Threads -> Locs]
  /\ count_to_gate \in Nat
  /\ count_to_special_kiosk \in Nat
  /\ available_to_kiosk \in {0, 1}
  /\ mutex_count_to_gate \in {0, 1}
  /\ mutex_count_to_special_kiosk \in {0, 1}
  /\ mutex_vip_channel \in {0, 1}

\* At most one thread is between the down and the up of a counter's mutex.
Exclusive(mutex, holding) ==
  /\ mutex = 0 <=> Some(holding)
  /\ \A t, u \in Threads : loc[t] \in holding /\ loc[u] \in holding => t = u

Mutexes ==
  /\ Exclusive(mutex_count_to_gate, GateHolding)
  /\ Exclusive(mutex_count_to_special_kiosk, KioskHolding)

Counters ==
  /\ count_to_gate = Cardinality(GateCounted)
  /\ count_to_special_kiosk = Cardinality(KioskCounted)

\* The first of a group is alone in it, the last one leaves nobody behind.
FirstAndLast ==
  \A t \in Threads :
    /\ loc[t] \in {"g_turnstile", "g_channel"} => GateCounted = {t}
    /\ loc[t] \in {"g_free", "g_open"} => GateCounted = {}
    /\ loc[t] = "k_channel" => KioskCounted = {t}
    /\ loc[t] = "k_free" => KioskCounted = {}

ChannelHeld ==
  /\ mutex_vip_channel = 0 <=> GateOwns \/ KioskOwns
  /\ ~(GateOwns /\ KioskOwns)

TurnstileHeld ==
  /\ available_to_kiosk = 0 <=> GateCloses \/ Some({"k_pass"})
  /\ ~(GateCloses /\ Some({"k_pass"}))
  /\ \A t, u \in Threads : loc[t] = "k_pass" /\ loc[u] = "k_pass" => t = u

\* The bookkeeping that ties every semaphore and counter to the threads that
\* hold it: the counters count, and each semaphore is down exactly while a
\* thread, or a direction, has taken it.
Accounting == Mutexes /\ Counters /\ FirstAndLast /\ ChannelHeld /\ TurnstileHeld

\* Both together, at every statement: the inductive invariant of the channel.
Inv == TypeOK /\ Accounting

\* Passengers never cross the channel in both directions at once.
OneWay == ~(Some({"g_cross"}) /\ Some({"k_cross"}))

\* When the last passenger has left, the channel is as it was at the start:
\* no counter, mutex or turnstile is left behind by any history of crossings.
RestoredWhenEmpty ==
  At({"out"}) = Threads =>
    /\ count_to_gate = 0 /\ count_to_special_kiosk = 0
    /\ available_to_kiosk = 1 /\ mutex_vip_channel = 1
    /\ mutex_count_to_gate = 1 /\ mutex_count_to_special_kiosk = 1

\* A gate passenger that has shut the turnstile gets the channel: those
\* admitted before it leave, and no newcomer can keep the channel from it.
ClaimHonoured ==
  \A t \in Threads : loc[t] = "g_channel" ~> loc[t] = "g_cross"

\* The channel implements the corridor it promises.
Promise == INSTANCE Corridor WITH
  closed   <- GateCloses,
  admitted <- At({"k_pass", "k_lock", "k_enter", "k_channel", "k_unlock"}),
  toGate   <- At({"g_cross"}),
  toKiosk  <- At({"k_cross"})

ImplementsCorridor == Promise!Spec
=============================================================================
