-------------------------- MODULE ProcessesProofs --------------------------
(***************************************************************************)
(* Proofs about Processes, for any number of slots and of CPUs, any pids,   *)
(* sleeps and targets of kill.                                              *)
(***************************************************************************)
EXTENDS Processes, WellFoundedInduction, TLAPS

-----------------------------------------------------------------------------
(* The inductive invariant *)

Numbered == \A s \in Slots : pid[s] < nextpid

PidsDiffer == \A s, t \in Slots :
  state[s] # "UNUSED" /\ state[t] # "UNUSED" /\ pid[s] = pid[t] => s = t

\* init is there for the orphans: it neither exits nor is killed.
InitStays ==
  /\ state[InitProc] \in {"RUNNABLE", "RUNNING", "SLEEPING"}
  /\ pid[InitProc] = 1 /\ ~killed[InitProc]
  /\ pc[InitProc] # "exit"

\* A slot that fork() took belongs to one caller, which is off and on a CPU meanwhile but
\* neither asleep nor gone.
Forking ==
  /\ \A s \in Slots : pc[s] = "fork" =>
       /\ state[s] \in {"RUNNABLE", "RUNNING"}
       /\ child[s] \in Slots /\ state[child[s]] = "EMBRYO"
  /\ \A s, t \in Slots : pc[s] = "fork" /\ pc[t] = "fork" /\ child[s] = child[t] => s = t

\* A slot without a process has no parent, nor has init; nobody is its own parent.
Unlinked ==
  /\ \A s \in Slots : state[s] \in {"UNUSED", "EMBRYO"} => parent[s] = None
  /\ parent[InitProc] = None /\ \A s \in Slots : parent[s] # s

\* Between its test and its sleep a process holds tickslock, so that no tick comes in.
TicksHeld == \A s \in Slots : pc[s] = "tosleep" => left[s] > 0 /\ tick_lock = s

IInv ==
  /\ TypeOK /\ OneCpu /\ Numbered /\ PidsDiffer /\ InitStays /\ Forking /\ Unlinked
  /\ TicksHeld /\ ParentLives /\ NoLostWakeup

-----------------------------------------------------------------------------
(* Lemmas *)

\* A search that takes the least slot of a set finds one of the set.
LEMMA LeastIn ==
  ASSUME NEW S \in SUBSET Slots, S # {}
  PROVE  Least(S) \in S
<1>1. S \subseteq Nat
  BY DEF Slots
<1>2. PICK s \in S : \A t \in S : ~(<<t, s>> \in OpToRel(<, Nat))
  BY <1>1, NatLessThanWellFounded, WFMin, ZenonT(60)
<1>3. \A t \in S : ~(t < s)
  BY <1>1, <1>2 DEF OpToRel
<1>4. \A t \in S : s <= t
  BY <1>1, <1>3
<1>. QED
  BY <1>4 DEF Least

\* The scheduler's loop stops at a process that may run.
LEMMA NextSlotRunnable ==
  ASSUME NEW c \in Cpus, Candidates # {}
  PROVE  NextSlot(c) \in Slots /\ state[NextSlot(c)] = "RUNNABLE"
<1>1. CASE Ahead(c) # {}
  <2>1. Ahead(c) \in SUBSET Slots /\ Ahead(c) \subseteq Candidates
    BY DEF Ahead, Candidates
  <2>2. Least(Ahead(c)) \in Ahead(c)
    BY <1>1, <2>1, LeastIn, ZenonT(60)
  <2>. QED
    BY <1>1, <2>1, <2>2 DEF NextSlot, Candidates
<1>2. CASE Ahead(c) = {}
  <2>1. Candidates \in SUBSET Slots
    BY DEF Candidates
  <2>2. Least(Candidates) \in Candidates
    BY <2>1, LeastIn, ZenonT(60)
  <2>. QED
    BY <1>2, <2>1, <2>2 DEF NextSlot, Candidates
<1>. QED
  BY <1>1, <1>2

\* The first slot is there for init, and what stands for no slot or for the clock is none.
LEMMA SlotFacts ==
  /\ InitProc \in Slots /\ Slots \subseteq Nat
  /\ None \notin Slots /\ Ticks \notin Slots /\ None # Ticks
BY ProcessesAssumption DEF InitProc, Slots, Ticks

\* The process a CPU has is a slot, and it is running.
LEMMA Current ==
  ASSUME TypeOK, OneCpu, NEW c \in Cpus, proc[c] # None
  PROVE  proc[c] \in Slots /\ state[proc[c]] = "RUNNING"
BY DEF TypeOK, OneCpu

\* A step that only moves the process on c in the kernel, and perhaps sets its sleep.
LEMMA GotoOnly ==
  ASSUME IInv, NEW c \in Cpus, NEW l \in {"user", "ret", "exit", "wait", "sleep"}, proc[c] # None,
         proc[c] = InitProc => l # "exit",
         Goto(c, l), left' \in [Slots -> Nat], \A s \in Slots : s # proc[c] => left'[s] = left[s],
         UNCHANGED <<table, child, cpu, tick_lock>>
  PROVE  IInv'
<1>. DEFINE p == proc[c]
<1>a. /\ TypeOK /\ OneCpu /\ Numbered /\ PidsDiffer /\ InitStays
      /\ Forking /\ Unlinked /\ TicksHeld /\ ParentLives /\ NoLostWakeup
  BY DEF IInv
<1>b. p \in Slots /\ p # None /\ state[p] = "RUNNING"
  BY <1>a, SlotFacts, Current
<1>c. pc' = [pc EXCEPT ![p] = l] /\ (p = InitProc => l # "exit")
  BY DEF Goto
<1>d. left' \in [Slots -> Nat] /\ \A s \in Slots : s # p => left'[s] = left[s]
  OBVIOUS
<1>e. UNCHANGED <<state, pid, parent, killed, chan, nextpid, child, proc, scan, tick_lock>>
  BY DEF table, cpu
<1>. HIDE DEF p
<1>1. TypeOK'
  BY <1>a, <1>b, <1>c, <1>d, <1>e DEF TypeOK, States
<1>2. OneCpu'
  BY <1>a, <1>b, <1>e DEF TypeOK, OneCpu
<1>3. Numbered'
  BY <1>a, <1>b, <1>e DEF TypeOK, Numbered
<1>4. PidsDiffer'
  BY <1>a, <1>b, <1>e DEF TypeOK, PidsDiffer
<1>5. InitStays'
  BY <1>a, <1>b, <1>c, <1>e, SlotFacts DEF TypeOK, InitStays
<1>6. Forking'
  BY <1>a, <1>b, <1>c, <1>e DEF TypeOK, Forking
<1>7. Unlinked'
  BY <1>a, <1>b, <1>e, SlotFacts DEF TypeOK, Unlinked
<1>8. TicksHeld'
  BY <1>a, <1>b, <1>c, <1>d, <1>e DEF TypeOK, TicksHeld
<1>9. ParentLives'
  BY <1>a, <1>b, <1>e DEF TypeOK, ParentLives, Live
<1>10. NoLostWakeup'
  BY <1>a, <1>b, <1>d, <1>e DEF TypeOK, NoLostWakeup, Children, Zombies
<1>. QED
  BY <1>1, <1>2, <1>3, <1>4, <1>5, <1>6, <1>7, <1>8, <1>9, <1>10 DEF IInv

\* The scheduler's step.
LEMMA KeepsDispatch ==
  ASSUME IInv, NEW c \in Cpus, Dispatch(c)
  PROVE  IInv'
<1>. DEFINE n == NextSlot(c)
<1>a. /\ TypeOK /\ OneCpu /\ Numbered /\ PidsDiffer /\ InitStays
      /\ Forking /\ Unlinked /\ TicksHeld /\ ParentLives /\ NoLostWakeup
  BY DEF IInv
<1>b. n \in Slots /\ state[n] = "RUNNABLE" /\ proc[c] = None
  BY NextSlotRunnable DEF Dispatch
<1>c. state' = [state EXCEPT ![n] = "RUNNING"] /\ proc' = [proc EXCEPT ![c] = n]
  BY DEF Dispatch
<1>d. chan' = [chan EXCEPT ![n] = None] /\ scan' = [scan EXCEPT ![c] = n]
  BY DEF Dispatch
<1>e. pc' = [pc EXCEPT ![n] = IF @ = "forkret" THEN "user"
                             ELSE IF @ = "user" /\ killed[n] THEN "exit" ELSE @]
  BY DEF Dispatch
<1>f. UNCHANGED <<pid, parent, killed, nextpid, child, left, tick_lock>>
  BY DEF Dispatch
<1>. HIDE DEF n
<1>1. TypeOK'
  BY <1>a, <1>b, <1>c, <1>d, <1>e, <1>f DEF TypeOK, States
<1>2. OneCpu'
  BY <1>a, <1>b, <1>c, SlotFacts DEF TypeOK, OneCpu
<1>3. Numbered'
  BY <1>a, <1>b, <1>f DEF TypeOK, Numbered
<1>4. PidsDiffer'
  BY <1>a, <1>b, <1>c, <1>f DEF TypeOK, PidsDiffer
<1>5. InitStays'
  BY <1>a, <1>b, <1>c, <1>e, <1>f, SlotFacts DEF TypeOK, InitStays
<1>6. Forking'
  BY <1>a, <1>b, <1>c, <1>e, <1>f DEF TypeOK, Forking
<1>7. Unlinked'
  BY <1>a, <1>b, <1>c, <1>f DEF TypeOK, Unlinked
<1>8. TicksHeld'
  BY <1>a, <1>b, <1>e, <1>f DEF TypeOK, TicksHeld
<1>9. ParentLives'
  BY <1>a, <1>b, <1>c, <1>f DEF TypeOK, ParentLives, Live
<1>10. NoLostWakeup'
  BY <1>a, <1>b, <1>c, <1>d, <1>f, SlotFacts DEF TypeOK, NoLostWakeup, Children, Zombies
<1>. QED
  BY <1>1, <1>2, <1>3, <1>4, <1>5, <1>6, <1>7, <1>8, <1>9, <1>10 DEF IInv

\* fork() takes a slot, if there is one.
LEMMA KeepsAllocProc ==
  ASSUME IInv, NEW c \in Cpus, AllocProc(c)
  PROVE  IInv'
<1>. DEFINE p == proc[c]
            free == {s \in Slots : state[s] = "UNUSED"}
            n == Least(free)
<1>a. /\ TypeOK /\ OneCpu /\ Numbered /\ PidsDiffer /\ InitStays
      /\ Forking /\ Unlinked /\ TicksHeld /\ ParentLives /\ NoLostWakeup
  BY DEF IInv
<1>b. p = proc[c] /\ p \in Slots /\ p # None /\ state[p] = "RUNNING" /\ pc[p] = "user"
  BY <1>a, SlotFacts, Current DEF AllocProc, At, Enters
<1>c. \/ /\ pc' = [pc EXCEPT ![p] = "ret"] /\ UNCHANGED <<state, pid, nextpid, child>>
      \/ /\ n \in Slots /\ state[n] = "UNUSED"
         /\ state' = [state EXCEPT ![n] = "EMBRYO"]
         /\ pid' = [pid EXCEPT ![n] = nextpid] /\ nextpid' = nextpid + 1
         /\ child' = [child EXCEPT ![p] = n]
         /\ pc' = [pc EXCEPT ![p] = "fork"]
  BY LeastIn DEF AllocProc, Goto
<1>d. UNCHANGED <<parent, killed, chan, left, proc, scan, tick_lock>>
  BY DEF AllocProc, cpu
<1>. HIDE DEF p, free, n
<1>1. TypeOK'
  BY <1>a, <1>b, <1>c, <1>d DEF TypeOK, States
<1>2. OneCpu'
  BY <1>a, <1>b, <1>c, <1>d DEF TypeOK, OneCpu
<1>3. Numbered'
  BY <1>a, <1>b, <1>c DEF TypeOK, Numbered
<1>4. PidsDiffer'
  BY <1>a, <1>b, <1>c DEF TypeOK, PidsDiffer, Numbered
<1>5. InitStays'
  BY <1>a, <1>b, <1>c, <1>d, SlotFacts DEF TypeOK, InitStays
<1>6. Forking'
  BY <1>a, <1>b, <1>c DEF TypeOK, Forking
<1>7. Unlinked'
  BY <1>a, <1>b, <1>c, <1>d, SlotFacts DEF TypeOK, Unlinked
<1>8. TicksHeld'
  BY <1>a, <1>b, <1>c, <1>d DEF TypeOK, TicksHeld
<1>9. ParentLives'
  BY <1>a, <1>b, <1>c, <1>d DEF TypeOK, ParentLives, Live
<1>10. NoLostWakeup'
  BY <1>a, <1>b, <1>c, <1>d DEF TypeOK, NoLostWakeup, Children, Zombies
<1>. QED
  BY <1>1, <1>2, <1>3, <1>4, <1>5, <1>6, <1>7, <1>8, <1>9, <1>10 DEF IInv

\* fork() gives its slot back.
LEMMA KeepsForkFails ==
  ASSUME IInv, NEW c \in Cpus, ForkFails(c)
  PROVE  IInv'
<1>. DEFINE p == proc[c]
            n == child[p]
<1>a. /\ TypeOK /\ OneCpu /\ Numbered /\ PidsDiffer /\ InitStays
      /\ Forking /\ Unlinked /\ TicksHeld /\ ParentLives /\ NoLostWakeup
  BY DEF IInv
<1>b. p = proc[c] /\ p \in Slots /\ p # None /\ state[p] = "RUNNING" /\ pc[p] = "fork"
  BY <1>a, SlotFacts, Current DEF ForkFails, At
<1>c. n = child[p] /\ n \in Slots /\ state[n] = "EMBRYO" /\ parent[n] = None
  BY <1>a, <1>b DEF Forking, Unlinked
<1>d. state' = [state EXCEPT ![n] = "UNUSED"]
  BY DEF ForkFails
<1>e. child' = [child EXCEPT ![p] = None] /\ pc' = [pc EXCEPT ![p] = "ret"]
  BY DEF ForkFails, Goto
<1>f. UNCHANGED <<pid, parent, killed, chan, nextpid, left, proc, scan, tick_lock>>
  BY DEF ForkFails, cpu
<1>. HIDE DEF p, n
<1>1. TypeOK'
  BY <1>a, <1>b, <1>c, <1>d, <1>e, <1>f DEF TypeOK, States
<1>2. OneCpu'
  BY <1>a, <1>b, <1>c, <1>d, <1>f DEF TypeOK, OneCpu
<1>3. Numbered'
  BY <1>a, <1>b, <1>c, <1>f DEF TypeOK, Numbered
<1>4. PidsDiffer'
  BY <1>a, <1>b, <1>c, <1>d, <1>f DEF TypeOK, PidsDiffer
<1>5. InitStays'
  BY <1>a, <1>b, <1>c, <1>d, <1>e, <1>f, SlotFacts DEF TypeOK, InitStays
<1>6. Forking'
  BY <1>a, <1>b, <1>c, <1>d, <1>e DEF TypeOK, Forking
<1>7. Unlinked'
  BY <1>a, <1>b, <1>c, <1>d, <1>f, SlotFacts DEF TypeOK, Unlinked
<1>8. TicksHeld'
  BY <1>a, <1>b, <1>c, <1>e, <1>f DEF TypeOK, TicksHeld
<1>9. ParentLives'
  BY <1>a, <1>b, <1>c, <1>d, <1>f DEF TypeOK, ParentLives, Live
<1>10. NoLostWakeup'
  BY <1>a, <1>b, <1>c, <1>d, <1>f DEF TypeOK, NoLostWakeup, Children, Zombies
<1>. QED
  BY <1>1, <1>2, <1>3, <1>4, <1>5, <1>6, <1>7, <1>8, <1>9, <1>10 DEF IInv

\* fork() lets its child run.
LEMMA KeepsForkChild ==
  ASSUME IInv, NEW c \in Cpus, ForkChild(c)
  PROVE  IInv'
<1>. DEFINE p == proc[c]
            n == child[p]
<1>a. /\ TypeOK /\ OneCpu /\ Numbered /\ PidsDiffer /\ InitStays
      /\ Forking /\ Unlinked /\ TicksHeld /\ ParentLives /\ NoLostWakeup
  BY DEF IInv
<1>b. p = proc[c] /\ p \in Slots /\ p # None /\ state[p] = "RUNNING" /\ pc[p] = "fork"
  BY <1>a, SlotFacts, Current DEF ForkChild, At
<1>c. n = child[p] /\ n \in Slots /\ state[n] = "EMBRYO" /\ parent[n] = None
  BY <1>a, <1>b DEF Forking, Unlinked
<1>d. state' = [state EXCEPT ![n] = "RUNNABLE"] /\ parent' = [parent EXCEPT ![n] = p]
  BY DEF ForkChild
<1>e. child' = [child EXCEPT ![p] = None] /\ pc' = [pc EXCEPT ![p] = "ret"]
  BY DEF ForkChild, Goto
<1>f. UNCHANGED <<pid, killed, chan, nextpid, left, proc, scan, tick_lock>>
  BY DEF ForkChild, cpu
<1>. HIDE DEF p, n
<1>1. TypeOK'
  BY <1>a, <1>b, <1>c, <1>d, <1>e, <1>f DEF TypeOK, States
<1>2. OneCpu'
  BY <1>a, <1>b, <1>c, <1>d, <1>f DEF TypeOK, OneCpu
<1>3. Numbered'
  BY <1>a, <1>b, <1>c, <1>f DEF TypeOK, Numbered
<1>4. PidsDiffer'
  BY <1>a, <1>b, <1>c, <1>d, <1>f DEF TypeOK, PidsDiffer
<1>5. InitStays'
  BY <1>a, <1>b, <1>c, <1>d, <1>e, <1>f, SlotFacts DEF TypeOK, InitStays
<1>6. Forking'
  BY <1>a, <1>b, <1>c, <1>d, <1>e DEF TypeOK, Forking
<1>7. Unlinked'
  BY <1>a, <1>b, <1>c, <1>d, SlotFacts DEF TypeOK, Unlinked, InitStays
<1>8. TicksHeld'
  BY <1>a, <1>b, <1>c, <1>e, <1>f DEF TypeOK, TicksHeld
<1>9. ParentLives'
  BY <1>a, <1>b, <1>c, <1>d DEF TypeOK, ParentLives, Live
<1>10. NoLostWakeup'
  <2>1. \A s \in Slots : state'[s] = "SLEEPING" => state[s] = "SLEEPING" /\ s # p
    BY <1>a, <1>b, <1>c, <1>d DEF TypeOK
  <2>2. \A s \in Slots : s # p => Children(s)' = Children(s)
    BY <1>a, <1>b, <1>c, <1>d, SlotFacts DEF TypeOK, Children
  <2>3. \A s \in Slots : s # p => Zombies(s)' = Zombies(s)
    BY <1>a, <1>b, <1>c, <1>d, SlotFacts DEF TypeOK, Children, Zombies
  <2>. QED
    BY <1>a, <1>f, <2>1, <2>2, <2>3 DEF NoLostWakeup
<1>. QED
  BY <1>1, <1>2, <1>3, <1>4, <1>5, <1>6, <1>7, <1>8, <1>9, <1>10 DEF IInv

\* wait() frees the slot of a zombie.
LEMMA KeepsReap ==
  ASSUME IInv, NEW c \in Cpus, Reap(c)
  PROVE  IInv'
<1>. DEFINE p == proc[c]
            z == Least(Zombies(p))
<1>a. /\ TypeOK /\ OneCpu /\ Numbered /\ PidsDiffer /\ InitStays
      /\ Forking /\ Unlinked /\ TicksHeld /\ ParentLives /\ NoLostWakeup
  BY DEF IInv
<1>b. p = proc[c] /\ p \in Slots /\ p # None /\ state[p] = "RUNNING" /\ pc[p] = "wait"
  BY <1>a, SlotFacts, Current DEF Reap, At
<1>c. z \in Slots /\ state[z] = "ZOMBIE" /\ z # InitProc
  BY <1>a, LeastIn DEF Reap, Zombies, Children, InitStays
<1>d. state' = [state EXCEPT ![z] = "UNUSED"]
  BY DEF Reap
<1>e. pid' = [pid EXCEPT ![z] = 0]
  BY DEF Reap
<1>f. parent' = [parent EXCEPT ![z] = None]
  BY DEF Reap
<1>g. killed' = [killed EXCEPT ![z] = FALSE]
  BY DEF Reap
<1>h. pc' = [pc EXCEPT ![p] = "ret"]
  BY DEF Reap, Goto
<1>i. UNCHANGED <<chan, nextpid, child, left, proc, scan, tick_lock>>
  BY DEF Reap, cpu
<1>. HIDE DEF p, z
<1>1. TypeOK'
  BY <1>a, <1>b, <1>c, <1>d, <1>e, <1>f, <1>g, <1>h, <1>i DEF TypeOK, States
<1>2. OneCpu'
  BY <1>a, <1>b, <1>c, <1>d, <1>i DEF TypeOK, OneCpu
<1>3. Numbered'
  BY <1>a, <1>b, <1>c, <1>e, <1>i DEF TypeOK, Numbered
<1>4. PidsDiffer'
  BY <1>a, <1>b, <1>c, <1>d, <1>e DEF TypeOK, PidsDiffer
<1>5. InitStays'
  BY <1>a, <1>b, <1>c, <1>d, <1>e, <1>g, <1>h, SlotFacts DEF TypeOK, InitStays
<1>6. Forking'
  BY <1>a, <1>b, <1>c, <1>d, <1>h, <1>i DEF TypeOK, Forking
<1>7. Unlinked'
  BY <1>a, <1>b, <1>c, <1>d, <1>f, SlotFacts DEF TypeOK, Unlinked
<1>8. TicksHeld'
  BY <1>a, <1>b, <1>c, <1>h, <1>i DEF TypeOK, TicksHeld
<1>9. ParentLives'
  BY <1>a, <1>b, <1>c, <1>d, <1>f DEF TypeOK, ParentLives, Live
<1>10. NoLostWakeup'
  BY <1>a, <1>b, <1>c, <1>d, <1>f, <1>g, <1>i DEF TypeOK, NoLostWakeup, Children, Zombies
<1>. QED
  BY <1>1, <1>2, <1>3, <1>4, <1>5, <1>6, <1>7, <1>8, <1>9, <1>10 DEF IInv

\* wait() falls asleep.
LEMMA KeepsWaitSleeps ==
  ASSUME IInv, NEW c \in Cpus, WaitSleeps(c)
  PROVE  IInv'
<1>. DEFINE p == proc[c]
<1>a. /\ TypeOK /\ OneCpu /\ Numbered /\ PidsDiffer /\ InitStays
      /\ Forking /\ Unlinked /\ TicksHeld /\ ParentLives /\ NoLostWakeup
  BY DEF IInv
<1>b. p = proc[c] /\ p \in Slots /\ p # None /\ state[p] = "RUNNING" /\ pc[p] = "wait"
  BY <1>a, SlotFacts, Current DEF WaitSleeps, At
<1>c. Zombies(p) = {} /\ Children(p) # {} /\ ~killed[p]
  BY DEF WaitSleeps
<1>d. state' = [state EXCEPT ![p] = "SLEEPING"] /\ proc' = [proc EXCEPT ![c] = None]
  BY DEF WaitSleeps
<1>e. chan' = [chan EXCEPT ![p] = p]
  BY DEF WaitSleeps
<1>f. UNCHANGED <<pid, parent, killed, nextpid, pc, child, left, scan, tick_lock>>
  BY DEF WaitSleeps, local
<1>. HIDE DEF p
<1>1. TypeOK'
  BY <1>a, <1>b, <1>c, <1>d, <1>e, <1>f DEF TypeOK, States
<1>2. OneCpu'
  BY <1>a, <1>b, <1>d DEF TypeOK, OneCpu
<1>3. Numbered'
  BY <1>a, <1>b, <1>f DEF TypeOK, Numbered
<1>4. PidsDiffer'
  BY <1>a, <1>b, <1>d, <1>f DEF TypeOK, PidsDiffer
<1>5. InitStays'
  BY <1>a, <1>b, <1>d, <1>f, SlotFacts DEF TypeOK, InitStays
<1>6. Forking'
  BY <1>a, <1>b, <1>d, <1>f DEF TypeOK, Forking
<1>7. Unlinked'
  BY <1>a, <1>b, <1>d, <1>f, SlotFacts DEF TypeOK, Unlinked
<1>8. TicksHeld'
  BY <1>a, <1>b, <1>f DEF TypeOK, TicksHeld
<1>9. ParentLives'
  BY <1>a, <1>b, <1>d, <1>f DEF TypeOK, ParentLives, Live
<1>10. NoLostWakeup'
  BY <1>a, <1>b, <1>c, <1>d, <1>e, <1>f, SlotFacts DEF TypeOK, NoLostWakeup, Children, Zombies
<1>. QED
  BY <1>1, <1>2, <1>3, <1>4, <1>5, <1>6, <1>7, <1>8, <1>9, <1>10 DEF IInv

\* sleep() on the clock.
LEMMA KeepsGoToSleep ==
  ASSUME IInv, NEW c \in Cpus, GoToSleep(c)
  PROVE  IInv'
<1>. DEFINE p == proc[c]
<1>a. /\ TypeOK /\ OneCpu /\ Numbered /\ PidsDiffer /\ InitStays
      /\ Forking /\ Unlinked /\ TicksHeld /\ ParentLives /\ NoLostWakeup
  BY DEF IInv
<1>b. p = proc[c] /\ p \in Slots /\ p # None /\ state[p] = "RUNNING" /\ pc[p] = "tosleep"
  BY <1>a, SlotFacts, Current DEF GoToSleep, At
<1>c. left[p] > 0
  BY <1>a, <1>b DEF TicksHeld
<1>d. state' = [state EXCEPT ![p] = "SLEEPING"] /\ proc' = [proc EXCEPT ![c] = None]
  BY DEF GoToSleep
<1>e. chan' = [chan EXCEPT ![p] = Ticks]
  BY DEF GoToSleep
<1>f. pc' = [pc EXCEPT ![p] = "sleep"] /\ tick_lock' = None
  BY DEF GoToSleep, Goto
<1>g. UNCHANGED <<pid, parent, killed, nextpid, child, left, scan>>
  BY DEF GoToSleep
<1>. HIDE DEF p
<1>1. TypeOK'
  BY <1>a, <1>b, <1>c, <1>d, <1>e, <1>f, <1>g DEF TypeOK, States
<1>2. OneCpu'
  BY <1>a, <1>b, <1>d DEF TypeOK, OneCpu
<1>3. Numbered'
  BY <1>a, <1>b, <1>g DEF TypeOK, Numbered
<1>4. PidsDiffer'
  BY <1>a, <1>b, <1>d, <1>g DEF TypeOK, PidsDiffer
<1>5. InitStays'
  BY <1>a, <1>b, <1>d, <1>f, <1>g, SlotFacts DEF TypeOK, InitStays
<1>6. Forking'
  BY <1>a, <1>b, <1>d, <1>f, <1>g DEF TypeOK, Forking
<1>7. Unlinked'
  BY <1>a, <1>b, <1>d, <1>g, SlotFacts DEF TypeOK, Unlinked
<1>8. TicksHeld'
  BY <1>a, <1>b, <1>f, <1>g DEF TypeOK, TicksHeld
<1>9. ParentLives'
  BY <1>a, <1>b, <1>d, <1>g DEF TypeOK, ParentLives, Live
<1>10. NoLostWakeup'
  BY <1>a, <1>b, <1>c, <1>d, <1>e, <1>g, SlotFacts DEF TypeOK, NoLostWakeup, Children, Zombies
<1>. QED
  BY <1>1, <1>2, <1>3, <1>4, <1>5, <1>6, <1>7, <1>8, <1>9, <1>10 DEF IInv

\* The loop condition of sys_sleep().
LEMMA KeepsSleepCheck ==
  ASSUME IInv, NEW c \in Cpus, SleepCheck(c)
  PROVE  IInv'
<1>. DEFINE p == proc[c]
<1>a. /\ TypeOK /\ OneCpu /\ Numbered /\ PidsDiffer /\ InitStays
      /\ Forking /\ Unlinked /\ TicksHeld /\ ParentLives /\ NoLostWakeup
  BY DEF IInv
<1>b. /\ p = proc[c] /\ p \in Slots /\ p # None
      /\ state[p] = "RUNNING" /\ pc[p] = "sleep" /\ tick_lock = None
  BY <1>a, SlotFacts, Current DEF SleepCheck, At
<1>c. \/ pc' = [pc EXCEPT ![p] = "ret"] /\ UNCHANGED tick_lock
      \/ left[p] # 0 /\ pc' = [pc EXCEPT ![p] = "tosleep"] /\ tick_lock' = p
  <2>1. CASE left[p] = 0 \/ killed[p]
    BY <2>1 DEF SleepCheck, Goto
  <2>2. CASE ~(left[p] = 0 \/ killed[p])
    BY <2>2 DEF SleepCheck, Goto
  <2>. QED
    BY <2>1, <2>2
<1>d. UNCHANGED <<state, pid, parent, killed, chan, nextpid, child, left, proc, scan>>
  BY DEF SleepCheck, table, cpu
<1>. HIDE DEF p
<1>1. TypeOK'
  BY <1>a, <1>b, <1>c, <1>d DEF TypeOK, States
<1>2. OneCpu'
  BY <1>a, <1>b, <1>d DEF TypeOK, OneCpu
<1>3. Numbered'
  BY <1>a, <1>b, <1>d DEF TypeOK, Numbered
<1>4. PidsDiffer'
  BY <1>a, <1>b, <1>d DEF TypeOK, PidsDiffer
<1>5. InitStays'
  BY <1>a, <1>b, <1>c, <1>d, SlotFacts DEF TypeOK, InitStays
<1>6. Forking'
  BY <1>a, <1>b, <1>c, <1>d DEF TypeOK, Forking
<1>7. Unlinked'
  BY <1>a, <1>b, <1>d, SlotFacts DEF TypeOK, Unlinked
<1>8. TicksHeld'
  BY <1>a, <1>b, <1>c, <1>d, SlotFacts DEF TypeOK, TicksHeld
<1>9. ParentLives'
  BY <1>a, <1>b, <1>d DEF TypeOK, ParentLives, Live
<1>10. NoLostWakeup'
  BY <1>a, <1>b, <1>d DEF TypeOK, NoLostWakeup, Children, Zombies
<1>. QED
  BY <1>1, <1>2, <1>3, <1>4, <1>5, <1>6, <1>7, <1>8, <1>9, <1>10 DEF IInv

\* kill() of a pid that is not init's.
LEMMA KeepsKill ==
  ASSUME IInv, NEW c \in Cpus, NEW k \in KillTargets, Kill(c, k)
  PROVE  IInv'
<1>. DEFINE p == proc[c]
            hit == {s \in Slots : pid[s] = k}
            v == Least(hit)
<1>a. /\ TypeOK /\ OneCpu /\ Numbered /\ PidsDiffer /\ InitStays
      /\ Forking /\ Unlinked /\ TicksHeld /\ ParentLives /\ NoLostWakeup
  BY DEF IInv
<1>b. p = proc[c] /\ p \in Slots /\ p # None /\ state[p] = "RUNNING" /\ pc[p] = "user"
  BY <1>a, SlotFacts, Current DEF Kill, At, Enters
<1>c. \/ UNCHANGED <<killed, state>>
      \/ /\ v \in Slots /\ v # InitProc /\ killed' = [killed EXCEPT ![v] = TRUE]
         /\ state' = [state EXCEPT ![v] = IF @ = "SLEEPING" THEN "RUNNABLE" ELSE @]
  BY <1>a, LeastIn, ProcessesAssumption DEF InitStays, Kill
<1>d. pc' = [pc EXCEPT ![p] = "ret"]
  BY DEF Kill, Goto
<1>e. UNCHANGED <<pid, parent, chan, nextpid, child, left, proc, scan, tick_lock>>
  BY DEF Kill, cpu
<1>. HIDE DEF p, hit, v
<1>1. TypeOK'
  BY <1>a, <1>b, <1>c, <1>d, <1>e DEF TypeOK, States
<1>2. OneCpu'
  BY <1>a, <1>b, <1>c, <1>e DEF TypeOK, OneCpu
<1>3. Numbered'
  BY <1>a, <1>b, <1>e DEF TypeOK, Numbered
<1>4. PidsDiffer'
  BY <1>a, <1>b, <1>c, <1>e DEF TypeOK, PidsDiffer
<1>5. InitStays'
  BY <1>a, <1>b, <1>c, <1>d, <1>e, SlotFacts DEF TypeOK, InitStays
<1>6. Forking'
  BY <1>a, <1>b, <1>c, <1>d, <1>e DEF TypeOK, Forking
<1>7. Unlinked'
  BY <1>a, <1>b, <1>c, <1>e, SlotFacts DEF TypeOK, Unlinked
<1>8. TicksHeld'
  BY <1>a, <1>b, <1>d, <1>e DEF TypeOK, TicksHeld
<1>9. ParentLives'
  BY <1>a, <1>b, <1>c, <1>e DEF TypeOK, ParentLives, Live
<1>10. NoLostWakeup'
  BY <1>a, <1>b, <1>c, <1>e DEF TypeOK, NoLostWakeup, Children, Zombies
<1>. QED
  BY <1>1, <1>2, <1>3, <1>4, <1>5, <1>6, <1>7, <1>8, <1>9, <1>10 DEF IInv

\* A clock tick, on the boot CPU and on the others.
LEMMA KeepsTimer ==
  ASSUME IInv, NEW c \in Cpus, TimerInterrupt(c)
  PROVE  IInv'
<1>. DEFINE p == proc[c]
            ticked == IF c = Boot THEN Woken({Ticks}) ELSE state
<1>a. /\ TypeOK /\ OneCpu /\ Numbered /\ PidsDiffer /\ InitStays
      /\ Forking /\ Unlinked /\ TicksHeld /\ ParentLives /\ NoLostWakeup
  BY DEF IInv
<1>b. p = proc[c] /\ (p # None => p \in Slots /\ state[p] = "RUNNING")
  BY <1>a, SlotFacts, Current
<1>c. /\ tick_lock = None \/ (c # Boot /\ tick_lock # p)
      /\ c # Boot => p # None /\ left' = left
      /\ c = Boot => left' = [s \in Slots |-> IF left[s] > 0 THEN left[s] - 1 ELSE 0]
  BY DEF TimerInterrupt
<1>d. UNCHANGED <<pid, parent, killed, chan, nextpid, child, scan, tick_lock>>
  BY DEF TimerInterrupt
<1>e. /\ ticked \in [Slots -> States]
      /\ \A s \in Slots : ticked[s] = state[s] \/ (state[s] = "SLEEPING" /\ ticked[s] = "RUNNABLE")
  BY <1>a, SlotFacts DEF TypeOK, Woken, States
<1>f. c = Boot => \A s \in Slots : ticked[s] = "SLEEPING" => chan[s] # Ticks
  BY DEF Woken
<1>g. left' \in [Slots -> Nat]
  BY <1>a DEF TypeOK, TimerInterrupt
<1>h. \/ /\ p # None /\ pc[p] = "user" /\ killed[p]
         /\ state' = ticked /\ pc' = [pc EXCEPT ![p] = "exit"] /\ UNCHANGED proc
      \/ /\ p = None /\ state' = ticked /\ UNCHANGED <<proc, pc>>
      \/ /\ p # None /\ state' = [ticked EXCEPT ![p] = "RUNNABLE"]
         /\ proc' = [proc EXCEPT ![c] = None] /\ UNCHANGED pc
  BY <1>a DEF TimerInterrupt, At, Goto, TypeOK
<1>. HIDE DEF p, ticked
<1>1. TypeOK'
  BY <1>a, <1>b, <1>c, <1>d, <1>e, <1>f, <1>g, <1>h DEF TypeOK, States
<1>2. OneCpu'
  <2>1. \A s \in Slots : ticked[s] = "RUNNING" <=> state[s] = "RUNNING"
    BY <1>e
  <2>2. CASE state' = ticked /\ UNCHANGED proc
    BY <1>a, <2>1, <2>2 DEF TypeOK, OneCpu
  <2>3. CASE /\ p # None /\ state' = [ticked EXCEPT ![p] = "RUNNABLE"]
             /\ proc' = [proc EXCEPT ![c] = None]
    BY <1>a, <1>b, <1>e, <2>1, <2>3 DEF TypeOK, OneCpu
  <2>. QED
    BY <1>h, <2>2, <2>3
<1>3. Numbered'
  BY <1>a, <1>b, <1>d DEF TypeOK, Numbered
<1>4. PidsDiffer'
  BY <1>a, <1>b, <1>d, <1>e, <1>h DEF TypeOK, PidsDiffer
<1>5. InitStays'
  BY <1>a, <1>b, <1>d, <1>e, <1>h, SlotFacts DEF TypeOK, InitStays
<1>6. Forking'
  BY <1>a, <1>b, <1>d, <1>e, <1>h DEF TypeOK, Forking
<1>7. Unlinked'
  BY <1>a, <1>b, <1>d, <1>e, <1>h, SlotFacts DEF TypeOK, Unlinked
<1>8. TicksHeld'
  <2>1. \A s \in Slots : pc'[s] = "tosleep" => pc[s] = "tosleep"
    BY <1>a, <1>b, <1>h DEF TypeOK
  <2>2. tick_lock # None => left' = left
    BY <1>c
  <2>. QED
    BY <1>a, <1>d, <2>1, <2>2, SlotFacts DEF TicksHeld
<1>9. ParentLives'
  BY <1>a, <1>b, <1>d, <1>e, <1>h DEF TypeOK, ParentLives, Live
<1>10. NoLostWakeup'
  <2>1. \A s \in Slots : state'[s] = "SLEEPING" => ticked[s] = "SLEEPING" /\ state[s] = "SLEEPING"
    BY <1>b, <1>e, <1>h
  <2>2. \A s \in Slots : state'[s] = "ZOMBIE" => state[s] = "ZOMBIE"
    BY <1>b, <1>e, <1>h
  <2>3. \A s \in Slots : Children(s)' = Children(s) /\ Zombies(s)' \subseteq Zombies(s)
    BY <1>d, <2>2 DEF Children, Zombies
  <2>4. \A s \in Slots : state'[s] = "SLEEPING" /\ chan[s] = Ticks => left' = left
    BY <1>c, <1>f, <2>1
  <2>. QED
    BY <1>a, <1>d, <2>1, <2>3, <2>4 DEF NoLostWakeup
<1>. QED
  BY <1>1, <1>2, <1>3, <1>4, <1>5, <1>6, <1>7, <1>8, <1>9, <1>10 DEF IInv

\* exit() once the files are closed.
LEMMA KeepsBecomeZombie ==
  ASSUME IInv, NEW c \in Cpus, BecomeZombie(c)
  PROVE  IInv'
<1>. DEFINE p == proc[c]
<1>a. /\ TypeOK /\ OneCpu /\ Numbered /\ PidsDiffer /\ InitStays
      /\ Forking /\ Unlinked /\ TicksHeld /\ ParentLives /\ NoLostWakeup
  BY DEF IInv
<1>b. /\ p = proc[c] /\ p \in Slots /\ p # None
      /\ state[p] = "RUNNING" /\ pc[p] = "exit" /\ p # InitProc
  BY <1>a, SlotFacts, Current DEF BecomeZombie, At, InitStays
<1>c. /\ state' \in [Slots -> States] /\ state'[p] = "ZOMBIE"
      /\ \A s \in Slots \ {p} :
             IF state[s] = "SLEEPING" /\ chan[s] \in Told(p) THEN state'[s] = "RUNNABLE"
             ELSE state'[s] = state[s]
  BY <1>a, <1>b DEF BecomeZombie, Woken, TypeOK, States
<1>d. /\ parent' \in [Slots -> Slots \cup {None}]
      /\ \A s \in Slots : parent'[s] = IF parent[s] = p THEN InitProc ELSE parent[s]
  BY <1>a, SlotFacts DEF BecomeZombie, HandedOn, Children, TypeOK
<1>e. /\ parent[p] \in Told(p)
      /\ \A s \in Slots : parent[s] = p /\ state[s] = "ZOMBIE" => InitProc \in Told(p)
  BY DEF Told, Zombies, Children
<1>f. /\ proc' = [proc EXCEPT ![c] = None] /\ pc' = [pc EXCEPT ![p] = "forkret"]
  BY DEF BecomeZombie, Goto
<1>g. UNCHANGED <<pid, killed, chan, nextpid, child, left, scan, tick_lock>>
  BY DEF BecomeZombie
<1>. HIDE DEF p
<1>1. TypeOK'
  BY <1>a, <1>b, <1>c, <1>d, <1>e, <1>f, <1>g DEF TypeOK, States
<1>2. OneCpu'
  BY <1>a, <1>b, <1>c, <1>f DEF TypeOK, OneCpu
<1>3. Numbered'
  BY <1>a, <1>b, <1>g DEF TypeOK, Numbered
<1>4. PidsDiffer'
  BY <1>a, <1>b, <1>c, <1>g DEF TypeOK, PidsDiffer
<1>5. InitStays'
  BY <1>a, <1>b, <1>c, <1>f, <1>g, SlotFacts DEF TypeOK, InitStays
<1>6. Forking'
  <2>1. ASSUME NEW s \in Slots, pc'[s] = "fork"
        PROVE  /\ s # p /\ pc[s] = "fork" /\ child'[s] = child[s] /\ child[s] \in Slots
               /\ state[s] \in {"RUNNABLE", "RUNNING"} /\ state[child[s]] = "EMBRYO"
    BY <1>a, <1>b, <1>f, <1>g, <2>1 DEF TypeOK, Forking
  <2>2. ASSUME NEW s \in Slots, pc'[s] = "fork"
        PROVE  /\ state'[s] \in {"RUNNABLE", "RUNNING"}
               /\ child'[s] \in Slots /\ state'[child'[s]] = "EMBRYO"
    <3>1. child[s] # p
      BY <1>a, <1>b, <2>1, <2>2
    <3>2. QED
      BY <1>b, <1>c, <2>1, <2>2, <3>1
  <2>3. ASSUME NEW s \in Slots, NEW t \in Slots,
               pc'[s] = "fork", pc'[t] = "fork", child'[s] = child'[t]
        PROVE  s = t
    BY <1>a, <2>1, <2>3 DEF Forking
  <2>4. QED
    BY <2>2, <2>3 DEF Forking
<1>7. Unlinked'
  BY <1>a, <1>b, <1>c, <1>d, SlotFacts DEF TypeOK, Unlinked
<1>8. TicksHeld'
  BY <1>a, <1>b, <1>f, <1>g DEF TypeOK, TicksHeld
<1>9. ParentLives'
  <2>1. ASSUME NEW s \in Live' \ {InitProc}
        PROVE  parent'[s] # None /\ parent'[s] \in Live' /\ state'[parent'[s]] # "ZOMBIE"
    <3>1. s \in Slots /\ s \in Live \ {InitProc}
      BY <1>b, <1>c, <2>1 DEF Live
    <3>2. parent[s] # None /\ parent[s] \in Slots
          /\ state[parent[s]] \notin {"UNUSED", "EMBRYO", "ZOMBIE"}
      BY <1>a, <3>1 DEF ParentLives, Live
    <3>3. CASE parent[s] = p
      <4>1. parent'[s] = InitProc
        BY <1>d, <3>1, <3>3
      <4>2. state'[InitProc] \in {"RUNNABLE", "RUNNING", "SLEEPING"}
        BY <1>a, <1>b, <1>c, SlotFacts DEF InitStays
      <4>. QED
        BY <4>1, <4>2, SlotFacts DEF Live
    <3>4. CASE parent[s] # p
      <4>1. parent'[s] = parent[s]
        BY <1>d, <3>1, <3>4
      <4>2. state'[parent[s]] \notin {"UNUSED", "EMBRYO", "ZOMBIE"}
        BY <1>c, <3>2, <3>4
      <4>. QED
        BY <3>2, <4>1, <4>2, SlotFacts DEF Live
    <3>. QED
      BY <3>3, <3>4
  <2>. QED
    BY <2>1 DEF ParentLives
<1>10. NoLostWakeup'
  <2>1. ASSUME NEW s \in Slots, state'[s] = "SLEEPING", chan'[s] = s
        PROVE  Children(s)' # {} /\ Zombies(s)' = {} /\ ~killed'[s]
    <3>1. state[s] = "SLEEPING" /\ s # p /\ chan[s] = s /\ s \notin Told(p)
      BY <1>b, <1>c, <1>g, <2>1
    <3>2. Children(s) # {} /\ Zombies(s) = {} /\ ~killed[s]
      BY <1>a, <3>1 DEF NoLostWakeup
    <3>3. Children(s) \subseteq Children(s)'
      BY <1>d, <3>1 DEF Children
    <3>4. ASSUME NEW z \in Slots, parent'[z] = s, state'[z] = "ZOMBIE"
          PROVE  FALSE
      <4>1. CASE z = p
        <5>1. parent'[p] = parent[p] \/ (parent[p] = p /\ parent'[p] = InitProc)
          BY <1>b, <1>d
        <5>. QED
          BY <1>a, <1>b, <1>e, <3>1, <3>4, <4>1, <5>1 DEF Unlinked
      <4>2. CASE z # p
        <5>1. state[z] = "ZOMBIE"
          BY <1>c, <3>4, <4>2
        <5>2. CASE parent[z] = p
          BY <1>d, <1>e, <3>1, <3>4, <5>1, <5>2
        <5>3. CASE parent[z] # p
          BY <1>d, <3>2, <3>4, <5>1, <5>3 DEF Zombies, Children
        <5>. QED
          BY <5>2, <5>3
      <4>. QED
        BY <4>1, <4>2
    <3>. QED
      BY <1>g, <3>2, <3>3, <3>4 DEF Zombies, Children
  <2>2. ASSUME NEW s \in Slots, state'[s] = "SLEEPING", chan'[s] = Ticks
        PROVE  left'[s] > 0
    <3>1. state[s] = "SLEEPING" /\ chan[s] = Ticks
      BY <1>b, <1>c, <1>g, <2>2
    <3>. QED
      BY <1>a, <1>g, <3>1 DEF NoLostWakeup
  <2>. QED
    BY <2>1, <2>2 DEF NoLostWakeup
<1>. QED
  BY <1>1, <1>2, <1>3, <1>4, <1>5, <1>6, <1>7, <1>8, <1>9, <1>10 DEF IInv

-----------------------------------------------------------------------------
(* The invariant of every behaviour *)

\* The kernel starts with init alone, which is runnable.
LEMMA InitIInv == ASSUME Init PROVE IInv
<1>. USE DEF Init
<1>1. TypeOK
  BY SlotFacts DEF TypeOK, States
<1>2. OneCpu /\ Forking /\ TicksHeld
  BY SlotFacts DEF OneCpu, Forking, TicksHeld
<1>3. Numbered /\ PidsDiffer /\ InitStays /\ Unlinked
  BY SlotFacts DEF Numbered, PidsDiffer, InitStays, Unlinked
<1>4. ParentLives /\ NoLostWakeup
  BY SlotFacts DEF ParentLives, NoLostWakeup, Live
<1>. QED
  BY <1>1, <1>2, <1>3, <1>4 DEF IInv

\* What a process in the kernel does.
LEMMA KeepsKernel ==
  ASSUME IInv, NEW c \in Cpus, Kernel(c)
  PROVE  IInv'
<1>a. TypeOK /\ OneCpu /\ InitStays
  BY DEF IInv
<1>1. CASE KilledAtEntry(c)
  <2>1. proc[c] # InitProc
    BY <1>a, <1>1, SlotFacts DEF KilledAtEntry, At, InitStays
  <2>. QED
    BY <1>a, <1>1, <2>1, GotoOnly DEF KilledAtEntry, At, TypeOK
<1>2. CASE Return(c)
  <2>. DEFINE l == IF killed[proc[c]] THEN "exit" ELSE "user"
  <2>1. proc[c] = InitProc => l # "exit"
    BY <1>a, SlotFacts DEF InitStays
  <2>2. Goto(c, l) /\ l \in {"user", "exit"}
    BY <1>2 DEF Return
  <2>. HIDE DEF l
  <2>. QED
    BY <1>a, <1>2, <2>1, <2>2, GotoOnly DEF Return, At, TypeOK
<1>3. CASE ForkFails(c)
  BY <1>3, KeepsForkFails
<1>4. CASE ForkChild(c)
  BY <1>4, KeepsForkChild
<1>5. CASE BecomeZombie(c)
  BY <1>5, KeepsBecomeZombie
<1>6. CASE Reap(c)
  BY <1>6, KeepsReap
<1>7. CASE WaitFails(c)
  BY <1>a, <1>7, GotoOnly DEF WaitFails, At, TypeOK
<1>8. CASE WaitSleeps(c)
  BY <1>8, KeepsWaitSleeps
<1>9. CASE SleepCheck(c)
  BY <1>9, KeepsSleepCheck
<1>10. CASE GoToSleep(c)
  BY <1>10, KeepsGoToSleep
<1>. QED
  BY <1>1, <1>2, <1>3, <1>4, <1>5, <1>6, <1>7, <1>8, <1>9, <1>10 DEF Kernel

\* What a process asks the kernel for.
LEMMA KeepsUser ==
  ASSUME IInv, NEW c \in Cpus, User(c)
  PROVE  IInv'
<1>a. TypeOK
  BY DEF IInv
<1>1. CASE AllocProc(c)
  BY <1>1, KeepsAllocProc
<1>2. CASE Wait(c)
  BY <1>a, <1>2, GotoOnly DEF Wait, Enters, At, TypeOK
<1>3. CASE proc[c] # InitProc /\ Exit(c)
  BY <1>a, <1>3, GotoOnly DEF Exit, Enters, At, TypeOK
<1>4. ASSUME NEW k \in KillTargets, Kill(c, k)
      PROVE  IInv'
  BY <1>4, KeepsKill
<1>5. ASSUME NEW n \in 1 .. MaxSleep, SysSleep(c, n)
      PROVE  IInv'
  <2>1. left' \in [Slots -> Nat] /\ \A s \in Slots : s # proc[c] => left'[s] = left[s]
    <3>1. n \in Nat /\ left \in [Slots -> Nat]
      BY <1>a, ProcessesAssumption DEF TypeOK
    <3>2. left' = [left EXCEPT ![proc[c]] = n]
      BY <1>5 DEF SysSleep
    <3>. QED
      BY <3>1, <3>2
  <2>. QED
    BY <1>a, <1>5, <2>1, GotoOnly DEF SysSleep, Enters, At
<1>. QED
  BY <1>1, <1>2, <1>3, <1>4, <1>5 DEF User

\* Every step keeps the invariant.
LEMMA NextIInv == ASSUME IInv, [Next]_vars PROVE IInv'
<1>1. CASE UNCHANGED vars
  BY <1>1 DEF IInv, TypeOK, OneCpu, Numbered, PidsDiffer, InitStays, Forking, Unlinked,
     TicksHeld, ParentLives, NoLostWakeup, Live, Children, Zombies, vars, table, local, cpu
<1>2. ASSUME NEW c \in Cpus, Dispatch(c) \/ Kernel(c) \/ User(c) \/ TimerInterrupt(c)
      PROVE  IInv'
  BY <1>2, KeepsDispatch, KeepsKernel, KeepsUser, KeepsTimer
<1>. QED
  BY <1>1, <1>2 DEF Next

\* The invariant holds in every behaviour.
THEOREM ProcessesIInv == Spec => []IInv
<1>1. Init => IInv
  BY InitIInv
<1>2. IInv /\ [Next]_vars => IInv'
  BY NextIInv
<1>. QED
  BY <1>1, <1>2, PTL DEF Spec

\* The process table keeps its types, a running process has one CPU, and no two processes
\* that are there have one pid, for any number of slots and CPUs.
THEOREM ProcessesInv == Spec => []Inv
<1>1. IInv => Inv
  BY DEF IInv, Inv, PidsDiffer
<1>. QED
  BY <1>1, ProcessesIInv, PTL

\* exit() leaves no child behind: the parent of every process but init is there and can wait.
THEOREM ProcessesParentLives == Spec => []ParentLives
<1>1. IInv => ParentLives
  BY DEF IInv
<1>. QED
  BY <1>1, ProcessesIInv, PTL

\* Nobody sleeps in wait() over a child that exited, and nobody in sleep() whose time is up.
THEOREM ProcessesNoLostWakeup == Spec => []NoLostWakeup
<1>1. IInv => NoLostWakeup
  BY DEF IInv
<1>. QED
  BY <1>1, ProcessesIInv, PTL
=============================================================================
