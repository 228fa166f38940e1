------------------------------ MODULE Processes ------------------------------
(***************************************************************************)
(* The process table of the xv6 kernel (proc.c), the per-CPU scheduler and  *)
(* the system calls fork, exit, wait, kill and sleep (sysproc.c) with the   *)
(* parts of trap() that end a killed process and yield on a clock tick.     *)
(*                                                                          *)
(* What runs under ptable.lock is one action.  The lock is held across      *)
(* swtch(), so that giving up a CPU and what a process does first when it   *)
(* is switched to are part of the action that switches.  tick_lock is the   *)
(* process inside tickslock between its test and its sleep().  left[p] is   *)
(* what remains of n ticks, the difference sys_sleep computes from ticks,   *)
(* ticks0 and n.                                                            *)
(***************************************************************************)
EXTENDS Naturals, FiniteSets

CONSTANTS
  NPROC,         \* slots of the table
  Cpus, Boot,    \* the CPUs, and the one whose timer counts ticks
  MaxPid,        \* bound: no fork after this pid
  MaxSleep,      \* bound: longest sleep, in ticks
  KillTargets,   \* pids a user program passes to kill
  None

Slots == 1 .. NPROC
InitProc == 1    \* userinit() finds the first slot
Ticks == 0       \* the address &ticks as a sleep channel
States == {"UNUSED", "EMBRYO", "SLEEPING", "RUNNABLE", "RUNNING", "ZOMBIE"}

\* At least the slot of init; the boot CPU is one of them; pid 1 is init, which nobody kills.
ASSUME ProcessesAssumption ==
  /\ NPROC \in Nat \ {0}
  /\ Boot \in Cpus
  /\ MaxPid \in Nat /\ MaxSleep \in Nat
  /\ KillTargets \subseteq Nat \ {1}
  /\ None \notin Nat

VARIABLES
  state, pid, parent, killed, chan,   \* struct proc
  nextpid,
  pc, child, left,                    \* a process's position in the kernel, and locals there
  proc, scan,                         \* per CPU: c->proc, and where scheduler()'s loop is
  tick_lock

table == <<state, pid, parent, killed, chan, nextpid>>
local == <<pc, child, left>>
cpu == <<proc, scan>>
vars == <<table, local, cpu, tick_lock>>

Least(S) == CHOOSE s \in S : \A t \in S : s <= t

At(c, l) == proc[c] # None /\ pc[proc[c]] = l
Goto(c, l) == pc' = [pc EXCEPT ![proc[c]] = l]

\* wakeup1 for every channel in C.
Woken(C) == [s \in Slots |->
  IF state[s] = "SLEEPING" /\ chan[s] \in C THEN "RUNNABLE" ELSE state[s]]

Init ==
  /\ state = [s \in Slots |-> IF s = InitProc THEN "RUNNABLE" ELSE "UNUSED"]
  /\ pid = [s \in Slots |-> IF s = InitProc THEN 1 ELSE 0]
  /\ parent = [s \in Slots |-> None]
  /\ killed = [s \in Slots |-> FALSE]
  /\ chan = [s \in Slots |-> None]
  /\ nextpid = 2
  /\ pc = [s \in Slots |-> "forkret"]
  /\ child = [s \in Slots |-> None]
  /\ left = [s \in Slots |-> 0]
  /\ proc = [c \in Cpus |-> None]
  /\ scan = [c \in Cpus |-> 0]
  /\ tick_lock = None

-----------------------------------------------------------------------------
(* scheduler(), and what a process does first when it is switched to *)

\* Mutant: a process another CPU runs is taken too.
AnyRunnable == {s \in Slots : state[s] \in {"RUNNABLE", "RUNNING"}}

Candidates == {s \in Slots : state[s] = "RUNNABLE"}

\* The loop of c goes through the table from where it is, round and round.
Ahead(c) == {s \in Candidates : s > scan[c]}

\* Mutant: every search starts at the first slot again.
NextSlotFromStart(c) == Least(Candidates)

NextSlot(c) == Least(IF Ahead(c) # {} THEN Ahead(c) ELSE Candidates)

\* Back in forkret(), sleep() or yield(); a process the timer stopped in user mode is
\* looked at again, in case it was killed while it was off the CPU.
Dispatch(c) ==
  /\ proc[c] = None /\ Candidates # {}
  /\ LET s == NextSlot(c) IN
       /\ state' = [state EXCEPT ![s] = "RUNNING"]
       /\ proc' = [proc EXCEPT ![c] = s]
       /\ scan' = [scan EXCEPT ![c] = s]
       /\ chan' = [chan EXCEPT ![s] = None]
       /\ pc' = [pc EXCEPT ![s] = IF @ = "forkret" THEN "user"
                                   ELSE IF @ = "user" /\ killed[s] THEN "exit" ELSE @]
  /\ UNCHANGED <<pid, parent, killed, nextpid, child, left, tick_lock>>

-----------------------------------------------------------------------------
(* trap() *)

\* Interrupts are off inside tickslock.  The boot CPU's timer also counts the tick and
\* wakes sleepers; then the process exits if it was killed in user mode, or yields.
TimerInterrupt(c) ==
  /\ tick_lock = None \/ (c # Boot /\ tick_lock # proc[c])
  /\ c # Boot => proc[c] # None
  /\ left' = IF c = Boot THEN [s \in Slots |-> IF left[s] > 0 THEN left[s] - 1 ELSE 0] ELSE left
  /\ LET ticked == IF c = Boot THEN Woken({Ticks}) ELSE state IN
     IF At(c, "user") /\ killed[proc[c]]
     THEN state' = ticked /\ Goto(c, "exit") /\ UNCHANGED proc
     ELSE /\ state' = IF proc[c] = None THEN ticked ELSE [ticked EXCEPT ![proc[c]] = "RUNNABLE"]
          /\ proc' = [proc EXCEPT ![c] = None]
          /\ UNCHANGED pc
  /\ UNCHANGED <<pid, parent, killed, chan, nextpid, child, scan, tick_lock>>

\* The process on c is in user mode and alive: it may call the kernel, or fault.
Enters(c) == At(c, "user") /\ ~killed[proc[c]]

KilledAtEntry(c) ==
  /\ At(c, "user") /\ killed[proc[c]]
  /\ Goto(c, "exit")
  /\ UNCHANGED <<table, child, left, cpu, tick_lock>>

Return(c) ==
  /\ At(c, "ret")
  /\ Goto(c, IF killed[proc[c]] THEN "exit" ELSE "user")
  /\ UNCHANGED <<table, child, left, cpu, tick_lock>>

-----------------------------------------------------------------------------
(* fork() *)

\* allocproc() up to its release; the slot is ours although it is not linked to us yet.
AllocProc(c) ==
  /\ Enters(c)
  /\ nextpid <= MaxPid
  /\ LET p == proc[c]
         free == {s \in Slots : state[s] = "UNUSED"} IN
     IF free = {}
     THEN /\ Goto(c, "ret")
          /\ UNCHANGED <<state, pid, nextpid, child>>
     ELSE LET np == Least(free) IN
          /\ state' = [state EXCEPT ![np] = "EMBRYO"]
          /\ pid' = [pid EXCEPT ![np] = nextpid]
          /\ nextpid' = nextpid + 1
          /\ child' = [child EXCEPT ![p] = np]
          /\ Goto(c, "fork")
  /\ UNCHANGED <<parent, killed, chan, left, cpu, tick_lock>>

\* No memory for the kernel stack or for the copy of the address space.
ForkFails(c) ==
  /\ At(c, "fork")
  /\ state' = [state EXCEPT ![child[proc[c]]] = "UNUSED"]
  /\ child' = [child EXCEPT ![proc[c]] = None]
  /\ Goto(c, "ret")
  /\ UNCHANGED <<pid, parent, killed, chan, nextpid, left, cpu, tick_lock>>

ForkChild(c) ==
  /\ At(c, "fork")
  /\ LET p == proc[c]
         np == child[p] IN
       /\ state' = [state EXCEPT ![np] = "RUNNABLE"]
       /\ parent' = [parent EXCEPT ![np] = p]
       /\ child' = [child EXCEPT ![p] = None]
       /\ Goto(c, "ret")
  /\ UNCHANGED <<pid, killed, chan, nextpid, left, cpu, tick_lock>>

-----------------------------------------------------------------------------
(* exit() and wait() *)

\* Called, or forced by trap() on a fault.
Exit(c) ==
  /\ Enters(c)
  /\ Goto(c, "exit")
  /\ UNCHANGED <<table, child, left, cpu, tick_lock>>

Children(p) == {s \in Slots : parent[s] = p}
Zombies(p) == {s \in Children(p) : state[s] = "ZOMBIE"}

\* Mutant: init gets the dead children only.
HandedOnZombies(p) == [s \in Slots |-> IF s \in Zombies(p) THEN InitProc ELSE parent[s]]

HandedOn(p) == [s \in Slots |-> IF s \in Children(p) THEN InitProc ELSE parent[s]]

\* Mutant: only init is told, and only when it inherits a zombie.
ToldOfOrphans(p) == IF Zombies(p) # {} THEN {InitProc} ELSE {}

\* Who is woken when p exits: its parent, and init when it inherits a zombie.
Told(p) == {parent[p]} \cup IF Zombies(p) # {} THEN {InitProc} ELSE {}

BecomeZombie(c) ==
  /\ At(c, "exit")
  /\ state' = [Woken(Told(proc[c])) EXCEPT ![proc[c]] = "ZOMBIE"]
  /\ parent' = HandedOn(proc[c])
  /\ proc' = [proc EXCEPT ![c] = None]
  /\ Goto(c, "forkret")    \* where allocproc() starts the next process of the slot
  /\ UNCHANGED <<pid, killed, chan, nextpid, child, left, scan, tick_lock>>

Wait(c) ==
  /\ Enters(c)
  /\ Goto(c, "wait")
  /\ UNCHANGED <<table, child, left, cpu, tick_lock>>

\* One pass of wait() over the table.
Reap(c) ==
  /\ At(c, "wait")
  /\ Zombies(proc[c]) # {}
  /\ LET s == Least(Zombies(proc[c])) IN
       /\ state' = [state EXCEPT ![s] = "UNUSED"]
       /\ pid' = [pid EXCEPT ![s] = 0]
       /\ parent' = [parent EXCEPT ![s] = None]
       /\ killed' = [killed EXCEPT ![s] = FALSE]
  /\ Goto(c, "ret")
  /\ UNCHANGED <<chan, nextpid, child, left, cpu, tick_lock>>

WaitFails(c) ==
  /\ At(c, "wait")
  /\ Zombies(proc[c]) = {}
  /\ Children(proc[c]) = {} \/ killed[proc[c]]
  /\ Goto(c, "ret")
  /\ UNCHANGED <<table, child, left, cpu, tick_lock>>

WaitSleeps(c) ==
  /\ At(c, "wait")
  /\ Zombies(proc[c]) = {} /\ Children(proc[c]) # {} /\ ~killed[proc[c]]
  /\ state' = [state EXCEPT ![proc[c]] = "SLEEPING"]
  /\ chan' = [chan EXCEPT ![proc[c]] = proc[c]]
  /\ proc' = [proc EXCEPT ![c] = None]
  /\ UNCHANGED <<pid, parent, killed, nextpid, local, scan, tick_lock>>

-----------------------------------------------------------------------------
(* kill() and sys_sleep() *)

\* Mutant: a sleeping victim is left asleep.
KillLeavesAsleep(c, k) ==
  /\ Enters(c)
  /\ LET hit == {s \in Slots : pid[s] = k} IN
     IF hit = {} THEN UNCHANGED killed ELSE killed' = [killed EXCEPT ![Least(hit)] = TRUE]
  /\ Goto(c, "ret")
  /\ UNCHANGED <<state, pid, parent, chan, nextpid, child, left, cpu, tick_lock>>

Kill(c, k) ==
  /\ Enters(c)
  /\ LET hit == {s \in Slots : pid[s] = k}
         v == Least(hit) IN
     IF hit = {}
     THEN UNCHANGED <<killed, state>>
     ELSE /\ killed' = [killed EXCEPT ![v] = TRUE]
          /\ state' = [state EXCEPT ![v] = IF @ = "SLEEPING" THEN "RUNNABLE" ELSE @]
  /\ Goto(c, "ret")
  /\ UNCHANGED <<pid, parent, chan, nextpid, child, left, cpu, tick_lock>>

SysSleep(c, n) ==
  /\ Enters(c)
  /\ left' = [left EXCEPT ![proc[c]] = n]
  /\ Goto(c, "sleep")
  /\ UNCHANGED <<table, child, cpu, tick_lock>>

\* Mutant: tickslock is let go before ptable.lock is taken.
SleepCheckUnlocked(c) ==
  /\ At(c, "sleep") /\ tick_lock = None
  /\ LET p == proc[c] IN Goto(c, IF left[p] = 0 \/ killed[p] THEN "ret" ELSE "tosleep")
  /\ UNCHANGED <<table, child, left, cpu, tick_lock>>

\* The loop condition and the test of killed, under tickslock.
SleepCheck(c) ==
  /\ At(c, "sleep") /\ tick_lock = None
  /\ LET p == proc[c] IN
     IF left[p] = 0 \/ killed[p]
     THEN Goto(c, "ret") /\ UNCHANGED tick_lock
     ELSE Goto(c, "tosleep") /\ tick_lock' = p
  /\ UNCHANGED <<table, child, left, cpu>>

\* sleep(&ticks, &tickslock): takes ptable.lock before it lets tickslock go.
GoToSleep(c) ==
  /\ At(c, "tosleep")
  /\ state' = [state EXCEPT ![proc[c]] = "SLEEPING"]
  /\ chan' = [chan EXCEPT ![proc[c]] = Ticks]
  /\ Goto(c, "sleep")
  /\ tick_lock' = None
  /\ proc' = [proc EXCEPT ![c] = None]
  /\ UNCHANGED <<pid, parent, killed, nextpid, child, left, scan>>

-----------------------------------------------------------------------------
\* What a process does in the kernel once it is there.
Kernel(c) ==
  \/ KilledAtEntry(c) \/ Return(c)
  \/ ForkFails(c) \/ ForkChild(c) \/ BecomeZombie(c)
  \/ Reap(c) \/ WaitFails(c) \/ WaitSleeps(c) \/ SleepCheck(c) \/ GoToSleep(c)

\* What a user program asks for, or does wrong; init (init.c) only forks and waits.
User(c) ==
  \/ AllocProc(c) \/ Wait(c)
  \/ /\ proc[c] # InitProc
     /\ \/ Exit(c)
        \/ \E k \in KillTargets : Kill(c, k)
        \/ \E n \in 1 .. MaxSleep : SysSleep(c, n)

Next == \E c \in Cpus : Dispatch(c) \/ Kernel(c) \/ User(c) \/ TimerInterrupt(c)

WorksInKernel(s) == \E c \in Cpus : proc[c] = s /\ Kernel(c)
InitWaits == \E c \in Cpus : proc[c] = InitProc /\ Wait(c)

(* Each CPU's scheduler loop and timer go on; ptable.lock is free in between for everyone
   who spins for it; and a clock tick is long enough for a process to get on, so that it
   does not meet the next one at the same place for ever.  init waits again and again. *)
Fairness ==
  /\ \A c \in Cpus : WF_vars(Dispatch(c)) /\ WF_vars(TimerInterrupt(c))
  /\ \A s \in Slots : SF_vars(WorksInKernel(s))
  /\ SF_vars(InitWaits)

Spec == Init /\ [][Next]_vars
FairSpec == Spec /\ Fairness
-----------------------------------------------------------------------------
(* Invariants *)

Live == {s \in Slots : state[s] \notin {"UNUSED", "EMBRYO"}}
OnCpu(s) == {c \in Cpus : proc[c] = s}

TypeOK ==
  /\ state \in [Slots -> States]
  /\ pid \in [Slots -> Nat] /\ nextpid \in Nat
  /\ parent \in [Slots -> Slots \cup {None}]
  /\ killed \in [Slots -> BOOLEAN]
  /\ chan \in [Slots -> Slots \cup {Ticks, None}]
  /\ pc \in [Slots -> {"forkret", "user", "ret", "fork", "exit", "wait", "sleep", "tosleep"}]
  /\ child \in [Slots -> Slots \cup {None}]
  /\ left \in [Slots -> Nat]
  /\ proc \in [Cpus -> Slots \cup {None}]
  /\ scan \in [Cpus -> Slots \cup {0}]
  /\ tick_lock \in Slots \cup {None}

\* A process is RUNNING exactly while one CPU, and one only, has it.
OneCpu ==
  /\ \A c \in Cpus : proc[c] # None => state[proc[c]] = "RUNNING"
  /\ \A c, d \in Cpus : proc[c] # None /\ proc[c] = proc[d] => c = d
  /\ \A s \in Slots : state[s] = "RUNNING" => \E c \in Cpus : proc[c] = s

\* The types, one CPU per running process, and no pid in use twice.
Inv ==
  /\ TypeOK
  /\ OneCpu
  /\ \A s, t \in Slots : state[s] # "UNUSED" /\ state[t] # "UNUSED" /\ pid[s] = pid[t] => s = t

\* Nobody is left to a parent that cannot wait for it any more: exit() hands children on.
ParentLives == \A s \in Live \ {InitProc} :
  parent[s] # None /\ parent[s] \in Live /\ state[parent[s]] # "ZOMBIE"

\* No wakeup is lost: who sleeps in wait() has a child to wait for, none that exited, and
\* was not killed; who sleeps in sleep() has still ticks to wait for.
NoLostWakeup == \A s \in Slots : state[s] = "SLEEPING" =>
  /\ chan[s] = s => Children(s) # {} /\ Zombies(s) = {} /\ ~killed[s]
  /\ chan[s] = Ticks => left[s] > 0

(* Liveness *)

\* The scheduler starves nobody.
RunnableRuns == \A s \in Slots : state[s] = "RUNNABLE" ~> state[s] = "RUNNING"

\* init reaps every zombie it inherits.
OrphansReaped == \A s \in Slots \ {InitProc} :
  state[s] = "ZOMBIE" /\ parent[s] = InitProc ~> state[s] = "UNUSED"

\* A killed process exits, wherever it was when it was killed.
KilledDies == \A k \in KillTargets :
  (\E s \in Slots : pid[s] = k /\ killed[s] /\ state[s] # "UNUSED")
    ~> ~(\E s \in Live : pid[s] = k /\ state[s] # "ZOMBIE")

\* Every process gets on: it runs, it is reaped, and it dies when it is killed.
ProcessesGetOn == RunnableRuns /\ OrphansReaped /\ KilledDies
=============================================================================
