-------------------------------- MODULE Pipe --------------------------------
(***************************************************************************)
(* A pipe of the xv6 kernel (pipe.c) with the reference counts of its two   *)
(* files (fileclose in file.c), written and read by processes that may be   *)
(* killed.  A writer writes one message and closes; a reader reads until    *)
(* the end of file and closes.  Each byte is the pair of its writer and its *)
(* place in the writer's message.                                           *)
(*                                                                          *)
(* What runs under the pipe's lock is one action, except that kill() takes  *)
(* another lock: between the test of killed and sleep() there is a step.    *)
(***************************************************************************)
EXTENDS Integers, Sequences, FiniteSets

CONSTANTS
  Writers, Readers,
  PIPESIZE,
  M,             \* the counters are unsigned: they wrap at M
  Length,        \* bytes of a message
  ReadSize,      \* bytes a reader asks for at a time
  None

ASSUME PipeAssumption ==
  /\ PIPESIZE \in Nat \ {0} /\ Length \in Nat \ {0} /\ ReadSize \in Nat \ {0}
  /\ M \in Nat /\ M > PIPESIZE /\ M % PIPESIZE = 0
  /\ Writers # {} /\ Readers # {} /\ Writers \cap Readers = {}
  /\ IsFiniteSet(Writers \cup Readers) /\ None \notin Writers \cup Readers

Procs == Writers \cup Readers

VARIABLES
  data, nread, nwrite, readopen, writeopen,   \* struct pipe
  lock,                                       \* p->lock
  freed,                                      \* kfree(p)
  ref,                                        \* f->ref of the two files
  pc, i, killed, received

pipe == <<data, nread, nwrite, readopen, writeopen>>
vars == <<pipe, lock, freed, ref, pc, i, killed, received>>

Byte == Writers \X (1 .. Length)
End(p) == IF p \in Writers THEN "w" ELSE "r"

Goto(p, l) == pc' = [pc EXCEPT ![p] = l]

Init ==
  /\ data = [k \in 0 .. PIPESIZE - 1 |-> None]
  /\ nread = 0 /\ nwrite = 0 /\ readopen = TRUE /\ writeopen = TRUE
  /\ lock = None /\ freed = FALSE
  /\ ref = [w |-> Cardinality(Writers), r |-> Cardinality(Readers)]
  /\ pc = [p \in Procs |-> IF p \in Writers THEN "write" ELSE "read"]
  /\ i = [p \in Procs |-> 0]
  /\ killed = [p \in Procs |-> FALSE]
  /\ received = <<>>

-----------------------------------------------------------------------------
(* wakeup() of one channel *)

\* p goes on at l; who sleeps in place `asleep' takes the lock again at place `at'.
GotoWaking(p, l, asleep, at) ==
  pc' = [q \in Procs |-> IF q = p THEN l ELSE IF pc[q] = asleep THEN at ELSE pc[q]]

\* Mutants: one side is not woken.
LeavingReaders(p, l) == Goto(p, l)
LeavingWriters(p, l) == Goto(p, l)

WakingReaders(p, l) == GotoWaking(p, l, "rasleep", "read")

WakingWriters(p, l) == GotoWaking(p, l, "wasleep", "write")

-----------------------------------------------------------------------------
(* pipewrite() *)

\* Mutant: full one byte too late.
RoomForOneMore == (PIPESIZE + 1) - ((nwrite - nread) % M)

Room == PIPESIZE - ((nwrite - nread) % M)

\* The loop as far as there is room: n bytes go in at nwrite and behind it.
Put(p, n) ==
  /\ data' = [k \in 0 .. PIPESIZE - 1 |->
                LET d == (k - nwrite) % PIPESIZE IN
                IF d < n THEN <<p, i[p] + d + 1>> ELSE data[k]]
  /\ nwrite' = (nwrite + n) % M
  /\ i' = [i EXCEPT ![p] = @ + n]

\* From taking the lock to the end, or to the moment before sleep().  Who finds the pipe
\* full and its readers gone, or is killed, leaves what it wrote and wakes nobody.
Write(p) ==
  /\ pc[p] = "write" /\ lock = None
  /\ \/ /\ Length - i[p] <= Room
        /\ Put(p, Length - i[p])
        /\ WakingReaders(p, "close") /\ UNCHANGED lock
     \/ /\ Length - i[p] > Room
        /\ Put(p, Room)
        /\ IF ~readopen \/ killed[p]
           THEN Goto(p, "close") /\ UNCHANGED lock
           ELSE WakingReaders(p, "wsleep") /\ lock' = p
  /\ UNCHANGED <<nread, readopen, writeopen, freed, ref, killed, received>>

\* sleep(&p->nwrite, &p->lock)
WriteSleep(p) ==
  /\ pc[p] = "wsleep"
  /\ Goto(p, "wasleep") /\ lock' = None
  /\ UNCHANGED <<pipe, freed, ref, i, killed, received>>

-----------------------------------------------------------------------------
(* piperead() *)

Held == (nwrite - nread) % M

\* Mutant: a pipe without writers counts as empty.
ReadAtEnd(p) ==
  /\ pc[p] = "read" /\ lock = None
  /\ Held = 0 \/ ~writeopen
  /\ IF writeopen /\ ~killed[p]
     THEN Goto(p, "rsleep") /\ lock' = p
     ELSE Goto(p, "close") /\ UNCHANGED lock
  /\ UNCHANGED <<pipe, freed, ref, i, killed, received>>

\* Nothing to read: the end of the file, or -1, or sleep.
ReadNothing(p) ==
  /\ pc[p] = "read" /\ lock = None
  /\ Held = 0
  /\ IF ~writeopen
     THEN WakingWriters(p, "close") /\ UNCHANGED lock
     ELSE IF killed[p]
          THEN Goto(p, "close") /\ UNCHANGED lock
          ELSE Goto(p, "rsleep") /\ lock' = p
  /\ UNCHANGED <<pipe, freed, ref, i, killed, received>>

ReadSome(p) ==
  /\ pc[p] = "read" /\ lock = None
  /\ Held > 0
  /\ LET n == IF Held < ReadSize THEN Held ELSE ReadSize IN
       /\ received' = received \o [k \in 1 .. n |-> data[(nread + k - 1) % PIPESIZE]]
       /\ nread' = (nread + n) % M
  /\ WakingWriters(p, IF killed[p] THEN "close" ELSE "read")
  /\ UNCHANGED <<data, nwrite, readopen, writeopen, lock, freed, ref, i, killed>>

\* sleep(&p->nread, &p->lock)
ReadSleep(p) ==
  /\ pc[p] = "rsleep"
  /\ Goto(p, "rasleep") /\ lock' = None
  /\ UNCHANGED <<pipe, freed, ref, i, killed, received>>

-----------------------------------------------------------------------------
(* close(), kill() *)

\* fileclose() under the lock of the file table: the last one closes the pipe's end.
FileClose(p) ==
  /\ pc[p] = "close"
  /\ ref' = [ref EXCEPT ![End(p)] = @ - 1]
  /\ Goto(p, IF ref[End(p)] = 1 THEN "pipeclose" ELSE "done")
  /\ UNCHANGED <<pipe, lock, freed, i, killed, received>>

\* Mutant: the page is given back with the first end.
PipeCloseFrees(p) ==
  /\ pc[p] = "pipeclose" /\ lock = None
  /\ IF p \in Writers
     THEN writeopen' = FALSE /\ UNCHANGED readopen /\ WakingReaders(p, "done")
     ELSE readopen' = FALSE /\ UNCHANGED writeopen /\ WakingWriters(p, "done")
  /\ freed' = TRUE
  /\ UNCHANGED <<data, nread, nwrite, lock, ref, i, killed, received>>

PipeClose(p) ==
  /\ pc[p] = "pipeclose" /\ lock = None
  /\ IF p \in Writers
     THEN writeopen' = FALSE /\ UNCHANGED readopen /\ WakingReaders(p, "done")
     ELSE readopen' = FALSE /\ UNCHANGED writeopen /\ WakingWriters(p, "done")
  /\ freed' = (~readopen' /\ ~writeopen')
  /\ UNCHANGED <<data, nread, nwrite, lock, ref, i, killed, received>>

\* kill() of a process that has the pipe open.
Kill(p) ==
  /\ ~killed[p] /\ pc[p] \notin {"close", "pipeclose", "done"}
  /\ killed' = [killed EXCEPT ![p] = TRUE]
  /\ pc' = [pc EXCEPT ![p] = IF @ = "wasleep" THEN "write"
                              ELSE IF @ = "rasleep" THEN "read" ELSE @]
  /\ UNCHANGED <<pipe, lock, freed, ref, i, received>>

Step(p) ==
  \/ p \in Writers /\ (Write(p) \/ WriteSleep(p))
  \/ p \in Readers /\ (ReadNothing(p) \/ ReadSome(p) \/ ReadSleep(p))
  \/ FileClose(p) \/ PipeClose(p)

Next == \E p \in Procs : Step(p) \/ Kill(p)

Spec == Init /\ [][Next]_vars

\* The lock is free again and again for who spins for it, and every process gets a CPU.
FairSpec == Spec /\ \A p \in Procs : SF_vars(Step(p))
-----------------------------------------------------------------------------
(* Invariants *)

TypeOK ==
  /\ data \in [0 .. PIPESIZE - 1 -> Byte \cup {None}]
  /\ nread \in 0 .. M - 1 /\ nwrite \in 0 .. M - 1
  /\ readopen \in BOOLEAN /\ writeopen \in BOOLEAN /\ freed \in BOOLEAN
  /\ lock \in Procs \cup {None}
  /\ ref \in [{"w", "r"} -> Nat]
  /\ pc \in [Procs -> {"write", "wsleep", "wasleep", "read", "rsleep", "rasleep",
                        "close", "pipeclose", "done"}]
  /\ i \in [Procs -> 0 .. Length]
  /\ killed \in [Procs -> BOOLEAN]
  /\ received \in Seq(Byte)

\* Nobody sleeps beside the work it waits for: a writer sleeps while the pipe is full and
\* has readers; a reader while it is empty and has writers, unless a killed writer left
\* without waking anybody (pipewrite returns before its wakeup).
NoStranded == \A p \in Procs :
  /\ pc[p] = "wasleep" => Held = PIPESIZE /\ readopen
  /\ pc[p] = "rasleep" => (Held = 0 /\ writeopen) \/ \E w \in Writers : killed[w]

Open(e) == {p \in Procs : End(p) = e /\ pc[p] \notin {"pipeclose", "done"}}

\* The pipe never holds more than it has room for, whatever the counters have wrapped to,
\* is not given back before the last process is through with it, and strands nobody.
Inv ==
  /\ TypeOK
  /\ Held <= PIPESIZE
  /\ freed => \A p \in Procs : pc[p] = "done"
  /\ \A e \in {"w", "r"} : ref[e] = Cardinality(Open(e))
  /\ NoStranded

\* Every write that was completed and read to the end of the file has arrived, byte by byte.
Complete == \A w \in Writers :
  (\A p \in Procs : ~killed[p]) /\ (\A r \in Readers : pc[r] = "done") =>
    \A k \in 1 .. Length : \E n \in DOMAIN received : received[n] = <<w, k>>

(* Refinement and liveness *)

\* The bytes between nread and nwrite.
Queue == [k \in 1 .. Held |-> data[(nread + k - 1) % PIPESIZE]]

Channel == INSTANCE ByteChannel WITH
  Capacity <- PIPESIZE, queue <- Queue, readable <- readopen, writable <- writeopen

\* The ring with its wrapping counters is a bounded first-in-first-out channel.
ImplementsChannel == Channel!Spec

\* Nobody waits for ever: readers see the end of the file, writers get rid of their
\* message or learn that nobody reads, and killed processes end.
EveryoneEnds == <>[](\A p \in Procs : pc[p] = "done")
=============================================================================
