------------------------------- MODULE Journal -------------------------------
(***************************************************************************)
(* The log of the xv6 file system (log.c): operations write blocks in the   *)
(* cache between begin_op() and end_op(), the last one to end commits, and  *)
(* a restart recovers from the log.  A write of one disk block is a step;   *)
(* the machine may stop between any two, during recovery too.               *)
(*                                                                          *)
(* What runs under log.lock is one action.  An operation's writes leave the *)
(* number of the operation in the block.                                    *)
(***************************************************************************)
EXTENDS Naturals, Sequences, FiniteSets, SequencesExt

CONSTANTS
  Blocks, Procs,
  MAXOPBLOCKS, LOGSIZE,
  LogBlocks,     \* sb.nlog: blocks of the log on disk, its header included
  MaxOps,        \* bound: operations of each process
  MaxCrashes     \* bound

ASSUME JournalAssumption ==
  /\ MAXOPBLOCKS \in Nat \ {0} /\ LOGSIZE \in Nat /\ LogBlocks \in Nat
  /\ MAXOPBLOCKS <= LOGSIZE
  /\ IsFiniteSet(Procs) /\ MaxOps \in [Procs -> Nat] /\ MaxCrashes \in Nat

VARIABLES
  home, slot, head,               \* on disk: the blocks, the log's blocks and its header
  cache,                          \* the blocks as bread() returns them
  lh, outstanding, committing,    \* struct log
  stage, tail,                    \* where commit() or recovery is
  pc, op, written,                \* processes: position, number of operations, blocks written
  crashes

disk == <<home, slot, head>>
log == <<lh, outstanding, committing>>
vars == <<disk, cache, log, stage, tail, pc, op, written, crashes>>

Value == {<<>>} \cup UNION {{p} \X (1 .. MaxOps[p]) : p \in Procs}

Init ==
  /\ home = [b \in Blocks |-> <<>>]
  /\ slot = [k \in 1 .. LOGSIZE |-> <<>>]
  /\ head = <<>>
  /\ cache = home
  /\ lh = <<>> /\ outstanding = 0 /\ committing = FALSE
  /\ stage = "idle" /\ tail = 1
  /\ pc = [p \in Procs |-> "idle"]
  /\ op = [p \in Procs |-> 0]
  /\ written = [p \in Procs |-> 0]
  /\ crashes = 0

Up == stage # "recover" /\ stage # "replay" /\ stage # "clear"

-----------------------------------------------------------------------------
(* Operations *)

WakeAll == [p \in Procs |-> IF pc[p] = "asleep" THEN "begin" ELSE pc[p]]

Call(p) ==
  /\ Up /\ pc[p] = "idle" /\ op[p] < MaxOps[p]
  /\ pc' = [pc EXCEPT ![p] = "begin"]
  /\ UNCHANGED <<disk, cache, log, stage, tail, op, written, crashes>>

\* Room in the log for all that this operation and the others in progress may write.
Fits == Len(lh) + (outstanding + 1) * MAXOPBLOCKS <= LOGSIZE

BeginOp(p) ==
  /\ pc[p] = "begin"
  /\ IF committing \/ ~Fits
     THEN /\ pc' = [pc EXCEPT ![p] = "asleep"]
          /\ UNCHANGED <<outstanding, op, written>>
     ELSE /\ outstanding' = outstanding + 1
          /\ pc' = [pc EXCEPT ![p] = "op"]
          /\ op' = [op EXCEPT ![p] = @ + 1]
          /\ written' = [written EXCEPT ![p] = 0]
  /\ UNCHANGED <<disk, cache, lh, committing, stage, tail, crashes>>

\* log_write() stops the machine before it looks whether the block is in the log already.
TooBig == Len(lh) >= LOGSIZE \/ Len(lh) >= LogBlocks - 1

\* Mutant: a block that is in the log is noted again.
LogWriteTwice(p, b) ==
  /\ pc[p] = "op" /\ written[p] < MAXOPBLOCKS
  /\ ~TooBig
  /\ cache' = [cache EXCEPT ![b] = <<p, op[p]>>]
  /\ lh' = Append(lh, b)
  /\ written' = [written EXCEPT ![p] = @ + 1]
  /\ UNCHANGED <<disk, outstanding, committing, stage, tail, pc, op, crashes>>

\* A block is changed in the cache and noted in the log once.
LogWrite(p, b) ==
  /\ pc[p] = "op" /\ written[p] < MAXOPBLOCKS
  /\ ~TooBig
  /\ cache' = [cache EXCEPT ![b] = <<p, op[p]>>]
  /\ lh' = IF b \in ToSet(lh) THEN lh ELSE Append(lh, b)
  /\ written' = [written EXCEPT ![p] = @ + 1]
  /\ UNCHANGED <<disk, outstanding, committing, stage, tail, pc, op, crashes>>

EndOp(p) ==
  /\ pc[p] = "op"
  /\ outstanding' = outstanding - 1
  /\ IF outstanding = 1
     THEN /\ committing' = TRUE
          /\ stage' = (IF lh = <<>> THEN "done" ELSE "log") /\ tail' = 1
          /\ pc' = [pc EXCEPT ![p] = "commit"]
     ELSE /\ pc' = [WakeAll EXCEPT ![p] = "idle"]
          /\ UNCHANGED <<committing, stage, tail>>
  /\ UNCHANGED <<disk, cache, lh, op, written, crashes>>

-----------------------------------------------------------------------------
(* commit() *)

\* The next block of a loop from 1 to Len(lh), or the stage after the loop.
Advance(next) ==
  IF tail < Len(lh) THEN tail' = tail + 1 /\ UNCHANGED stage
                    ELSE tail' = 1 /\ stage' = next

WriteLog ==
  /\ stage = "log"
  /\ slot' = [slot EXCEPT ![tail] = cache[lh[tail]]]
  /\ Advance("head")
  /\ UNCHANGED <<home, head, cache, log, pc, op, written, crashes>>

\* The true point at which the transaction commits.
WriteHead ==
  /\ stage = "head"
  /\ head' = lh
  /\ stage' = "install"
  /\ UNCHANGED <<home, slot, cache, log, tail, pc, op, written, crashes>>

InstallTrans ==
  /\ stage \in {"install", "replay"}
  /\ home' = [home EXCEPT ![lh[tail]] = slot[tail]]
  /\ cache' = [cache EXCEPT ![lh[tail]] = slot[tail]]
  /\ Advance(IF stage = "install" THEN "erase" ELSE "clear")
  /\ UNCHANGED <<slot, head, log, pc, op, written, crashes>>

EraseHead ==
  /\ stage \in {"erase", "clear"}
  /\ lh' = <<>> /\ head' = <<>>
  /\ stage' = IF stage = "erase" THEN "done" ELSE "idle"
  /\ UNCHANGED <<home, slot, cache, outstanding, committing, tail, pc, op, written, crashes>>

\* Mutants: nobody is woken; the commit is never over.
EndCommitQuietly(p) ==
  /\ pc[p] = "commit" /\ stage = "done"
  /\ committing' = FALSE
  /\ stage' = "idle"
  /\ pc' = [pc EXCEPT ![p] = "idle"]
  /\ UNCHANGED <<disk, cache, lh, outstanding, tail, op, written, crashes>>

EndCommitStays(p) ==
  /\ pc[p] = "commit" /\ stage = "done"
  /\ stage' = "idle"
  /\ pc' = [WakeAll EXCEPT ![p] = "idle"]
  /\ UNCHANGED <<disk, cache, log, tail, op, written, crashes>>

EndCommit(p) ==
  /\ pc[p] = "commit" /\ stage = "done"
  /\ committing' = FALSE
  /\ stage' = "idle"
  /\ pc' = [WakeAll EXCEPT ![p] = "idle"]
  /\ UNCHANGED <<disk, cache, lh, outstanding, tail, op, written, crashes>>

Commit == WriteLog \/ WriteHead \/ InstallTrans \/ EraseHead

-----------------------------------------------------------------------------
(* Crash and recovery *)

\* Memory is lost, and the operations in progress with it.
Crash ==
  /\ crashes < MaxCrashes
  /\ crashes' = crashes + 1
  /\ stage' = "recover"
  /\ cache' = home
  /\ lh' = <<>> /\ outstanding' = 0 /\ committing' = FALSE
  /\ tail' = 1
  /\ pc' = [p \in Procs |-> "idle"]
  /\ UNCHANGED <<disk, op, written>>

\* Mutant: the log is cleared first.
ReadHeadAndClear ==
  /\ stage = "recover"
  /\ lh' = head /\ head' = <<>>
  /\ stage' = IF head = <<>> THEN "clear" ELSE "replay"
  /\ UNCHANGED <<home, slot, cache, outstanding, committing, tail, pc, op, written, crashes>>

ReadHead ==
  /\ stage = "recover"
  /\ lh' = head
  /\ stage' = IF head = <<>> THEN "clear" ELSE "replay"
  /\ UNCHANGED <<disk, cache, outstanding, committing, tail, pc, op, written, crashes>>

-----------------------------------------------------------------------------
Op(p) == BeginOp(p) \/ EndOp(p) \/ EndCommit(p)

Next ==
  \/ \E p \in Procs : Call(p) \/ Op(p) \/ \E b \in Blocks : LogWrite(p, b)
  \/ Commit \/ Crash \/ ReadHead

Spec == Init /\ [][Next]_vars

\* The disk answers, recovery goes on and every operation ends; what it writes is its own affair.
FairSpec == Spec /\ WF_vars(Commit) /\ WF_vars(ReadHead) /\ \A p \in Procs : WF_vars(Op(p))
-----------------------------------------------------------------------------
(* Properties *)

TypeOK ==
  /\ home \in [Blocks -> Value] /\ cache \in [Blocks -> Value]
  /\ slot \in [1 .. LOGSIZE -> Value]
  /\ head \in Seq(Blocks) /\ lh \in Seq(Blocks)
  /\ outstanding \in Nat /\ committing \in BOOLEAN
  /\ stage \in {"idle", "log", "head", "install", "erase", "done", "recover", "replay", "clear"}
  /\ tail \in 1 .. LOGSIZE
  /\ pc \in [Procs -> {"idle", "begin", "asleep", "op", "commit"}]
  /\ op \in [Procs -> Nat] /\ \A p \in Procs : op[p] <= MaxOps[p]
  /\ written \in [Procs -> 0 .. MAXOPBLOCKS]
  /\ crashes \in 0 .. MaxCrashes

\* Whoever sleeps in begin_op() will be woken: an operation or a commit is in progress.
SleeperHasWaker ==
  (\E p \in Procs : pc[p] = "asleep") => committing \/ outstanding > 0

\* Nothing commits while an operation is in progress, no block is in the log twice, when
\* all is quiet everything is where it belongs and the log is empty, and nobody sleeps for ever.
Inv ==
  /\ TypeOK
  /\ SleeperHasWaker
  /\ committing => outstanding = 0
  /\ \A j, k \in DOMAIN lh : lh[j] = lh[k] => j = k
  /\ (Up /\ outstanding = 0 /\ ~committing) => lh = <<>> /\ head = <<>> /\ home = cache

\* What a restart finds: the home blocks, overwritten from a committed log.
Recovered == [b \in Blocks |->
  IF b \in ToSet(head) THEN slot[CHOOSE k \in DOMAIN head : head[k] = b] ELSE home[b]]

Atomic == INSTANCE AtomicDisk WITH
  Ops <- Procs,
  stable <- Recovered,
  current <- IF Up THEN cache ELSE Recovered,
  active <- {p \in Procs : pc[p] = "op"}

\* Operations reach the disk all or not at all, whenever the machine stops.
ImplementsAtomicDisk == Atomic!Spec

\* Every call gets its operation done or is lost with the machine.
OpsEnd == \A p \in Procs : pc[p] # "idle" ~> pc[p] = "idle"
=============================================================================
