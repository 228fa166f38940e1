---------------------------- MODULE StorageProofs ----------------------------
(***************************************************************************)
(* Proofs about Journal, for any finite set of processes, any blocks, any   *)
(* size of the log and of an operation, and any number of crashes; about    *)
(* BufferCache, for any finite set of threads, any blocks, and any number   *)
(* of buffers that leaves one for each thread beside the pinned ones; and   *)
(* about Blocks, for any writers and files, any size of the disk, of a       *)
(* block and of an operation.                                               *)
(***************************************************************************)
EXTENDS Journal, BufferCache, FiniteSetTheorems, SequenceTheorems, WellFoundedInduction, TLAPS

-----------------------------------------------------------------------------
(* The log: the inductive invariant *)

Committing == {"log", "head", "install", "erase", "done"}
Recovering == {"recover", "replay", "clear"}

Active == {p \in Procs : pc[p] = "op"}

\* One process commits, while no operation is in progress; nobody is up during recovery.
Phases ==
  /\ committing <=> stage \in Committing
  /\ \A p \in Procs : pc[p] = "commit" => committing
  /\ \A p, q \in Procs : pc[p] = "commit" /\ pc[q] = "commit" => p = q
  /\ \A p \in Procs : pc[p] = "op" => stage = "idle"
  /\ stage \in Recovering => \A p \in Procs : pc[p] = "idle"

\* Operations are counted, in the log and by their process.
Counts ==
  /\ outstanding = Cardinality(Active)
  /\ \A p \in Procs : pc[p] \in {"begin", "asleep"} => op[p] < MaxOps[p]
  /\ \A p \in Procs : pc[p] = "op" => op[p] >= 1

NoDouble(s) == \A j, k \in DOMAIN s : s[j] = s[k] => j = k

\* What the log in memory and the header on disk hold in each stage.
Headers ==
  /\ Len(lh) <= LOGSIZE /\ NoDouble(lh)
  /\ Len(head) <= LOGSIZE /\ NoDouble(head)
  /\ stage \in {"log", "install", "replay"} => tail <= Len(lh)
  /\ stage \in {"head", "recover"} => tail = 1
  /\ stage = "head" => lh # <<>>
  /\ stage \in {"done", "recover"} => lh = <<>>
  /\ stage = "idle" /\ Active = {} => lh = <<>>
  /\ stage \in {"idle", "log", "head", "done"} => head = <<>>
  /\ stage \in {"install", "erase", "replay", "clear"} => head = lh

\* How far the blocks of the log are copied: to the log on disk, and then home.
Copies ==
  /\ stage \in Recovering => cache = home
  /\ stage \notin Recovering => \A b \in Blocks : b \notin ToSet(lh) => home[b] = cache[b]
  /\ stage \in {"log", "head", "install"} =>
       \A k \in DOMAIN lh : (stage = "log" => k < tail) => slot[k] = cache[lh[k]]
  /\ stage \in {"install", "replay", "erase", "clear"} =>
       \A k \in DOMAIN lh :
         (stage \in {"install", "replay"} => k < tail) => home[lh[k]] = slot[k]
  /\ stage = "erase" => home = cache

IInv == TypeOK /\ Phases /\ Counts /\ Headers /\ Copies /\ SleeperHasWaker

-----------------------------------------------------------------------------
(* Lemmas about the log's list and the blocks *)

LEMMA Sizes ==
  /\ MAXOPBLOCKS \in Nat \ {0} /\ LOGSIZE \in Nat \ {0} /\ LogBlocks \in Nat
  /\ MAXOPBLOCKS <= LOGSIZE /\ MaxOps \in [Procs -> Nat] /\ MaxCrashes \in Nat
BY JournalAssumption

\* What an operation writes is a value.
LEMMA Values ==
  /\ <<>> \in Value
  /\ \A p \in Procs : \A n \in 1 .. MaxOps[p] : <<p, n>> \in Value
<1>1. <<>> \in Value
  BY DEF Value
<1>2. ASSUME NEW p \in Procs, NEW n \in 1 .. MaxOps[p] PROVE <<p, n>> \in Value
  <2>1. <<p, n>> \in {p} \X (1 .. MaxOps[p])
    OBVIOUS
  <2>2. QED
    BY <2>1 DEF Value
<1>3. QED
  BY <1>1, <1>2

LEMMA ActiveFinite == IsFiniteSet(Active) /\ Cardinality(Active) \in Nat
BY JournalAssumption, FS_Subset, FS_CardinalityType DEF Active

\* Elements of a sequence.
LEMMA InToSet == ASSUME NEW s, NEW b PROVE b \in ToSet(s) <=> \E k \in DOMAIN s : s[k] = b
BY DEF ToSet

LEMMA EmptyList ==
  /\ <<>> \in Seq(Blocks) /\ Len(<<>>) = 0 /\ DOMAIN <<>> = {}
  /\ NoDouble(<<>>) /\ \A b : b \notin ToSet(<<>>)
<1>1. <<>> \in Seq(Blocks) /\ Len(<<>>) = 0 /\ DOMAIN <<>> = {}
  OBVIOUS
<1>2. QED
  BY <1>1, InToSet DEF NoDouble

\* A block that is not in the list is appended.
LEMMA AppendNew ==
  ASSUME NEW s \in Seq(Blocks), NEW b \in Blocks, NoDouble(s), b \notin ToSet(s)
  PROVE  /\ Append(s, b) \in Seq(Blocks) /\ Len(Append(s, b)) = Len(s) + 1
         /\ NoDouble(Append(s, b))
         /\ \A c : c \in ToSet(Append(s, b)) <=> c \in ToSet(s) \/ c = b
<1> DEFINE t == Append(s, b)
<1>1. /\ t \in Seq(Blocks) /\ Len(t) = Len(s) + 1 /\ t[Len(s) + 1] = b
      /\ \A k \in 1 .. Len(s) : t[k] = s[k]
      /\ Len(s) \in Nat /\ DOMAIN s = 1 .. Len(s)
  BY AppendProperties, LenProperties
<1>2. DOMAIN t = 1 .. Len(s) + 1
  BY <1>1, LenProperties
<1> HIDE DEF t
<1>3. \A k \in 1 .. Len(s) : s[k] # b
  BY <1>1, InToSet
<1>4. NoDouble(t)
  <2> SUFFICES ASSUME NEW j \in 1 .. Len(s) + 1, NEW k \in 1 .. Len(s) + 1, t[j] = t[k]
               PROVE  j = k
    BY <1>2 DEF NoDouble
  <2>1. (j \in 1 .. Len(s) \/ j = Len(s) + 1) /\ (k \in 1 .. Len(s) \/ k = Len(s) + 1)
    BY <1>1
  <2>2. QED
    BY <1>1, <1>3, <2>1 DEF NoDouble
<1>5. ASSUME NEW c PROVE c \in ToSet(t) <=> c \in ToSet(s) \/ c = b
  <2>1. ASSUME NEW k \in 1 .. Len(s) + 1, t[k] = c PROVE c \in ToSet(s) \/ c = b
    <3>1. k \in 1 .. Len(s) \/ k = Len(s) + 1
      BY <1>1
    <3>2. QED
      BY <1>1, <2>1, <3>1, InToSet
  <2>2. ASSUME NEW k \in 1 .. Len(s), s[k] = c PROVE \E j \in 1 .. Len(s) + 1 : t[j] = c
    <3>1. k \in 1 .. Len(s) + 1
      BY <1>1
    <3>2. QED
      BY <1>1, <2>2, <3>1
  <2>3. Len(s) + 1 \in 1 .. Len(s) + 1
    BY <1>1
  <2>4. QED
    BY <1>1, <1>2, <2>1, <2>2, <2>3, InToSet
<1>6. QED
  BY <1>1, <1>4, <1>5 DEF t

-----------------------------------------------------------------------------
(* Each action preserves the invariant *)

LEMMA IInvInit == Init => IInv
<1> SUFFICES ASSUME Init PROVE IInv
  OBVIOUS
<1> USE Sizes
<1>1. TypeOK
  <2>1. home \in [Blocks -> Value] /\ slot \in [1 .. LOGSIZE -> Value] /\ cache \in [Blocks -> Value]
    BY Values DEF Init
  <2>2. head \in Seq(Blocks) /\ lh \in Seq(Blocks)
    BY EmptyList DEF Init
  <2>3. op \in [Procs -> Nat] /\ \A p \in Procs : op[p] <= MaxOps[p]
    BY DEF Init
  <2>4. written \in [Procs -> 0 .. MAXOPBLOCKS] /\ tail \in 1 .. LOGSIZE /\ crashes \in 0 .. MaxCrashes
    BY DEF Init
  <2>5. QED
    BY <2>1, <2>2, <2>3, <2>4 DEF Init, TypeOK
<1>2. Phases /\ SleeperHasWaker
  BY DEF Init, Phases, SleeperHasWaker, Committing, Recovering
<1>3. Active = {}
  BY DEF Init, Active
<1>4. Counts
  BY <1>3, FS_EmptySet DEF Init, Counts
<1>5. Headers
  BY EmptyList DEF Init, Headers
<1>6. Copies
  BY DEF Init, Copies, Recovering
<1>7. QED
  BY <1>1, <1>2, <1>4, <1>5, <1>6 DEF IInv

\* A step that only moves processes among "idle", "begin" and "asleep".
LEMMA IInvMoves ==
  ASSUME IInv, UNCHANGED <<home, slot, head, cache, lh, outstanding, committing, stage, tail, crashes>>,
         UNCHANGED <<op, written>>, stage \notin Recovering,
         NEW p \in Procs, NEW l \in {"begin", "asleep"}, pc[p] \in {"idle", "begin"},
         pc' = [pc EXCEPT ![p] = l], op[p] < MaxOps[p],
         l = "asleep" => committing \/ outstanding > 0
  PROVE  IInv'
<1> USE Sizes
<1>1. pc'[p] = l /\ \A q \in Procs : q # p => pc'[q] = pc[q]
  BY DEF IInv, TypeOK
<1>2. TypeOK'
  BY DEF IInv, TypeOK
<1>3. Active' = Active
  BY <1>1 DEF Active
<1>4. Phases'
  BY <1>1 DEF IInv, Phases
<1>5. Counts'
  BY <1>1, <1>3 DEF IInv, Counts
<1>6. Headers'
  BY <1>3 DEF IInv, Headers
<1>7. Copies'
  BY DEF IInv, Copies
<1>8. SleeperHasWaker'
  BY <1>1 DEF IInv, SleeperHasWaker
<1>9. QED
  BY <1>2, <1>4, <1>5, <1>6, <1>7, <1>8 DEF IInv

LEMMA IInvCall == ASSUME IInv, NEW p \in Procs, Call(p) PROVE IInv'
<1>1. stage \notin Recovering
  BY DEF Call, Up, Recovering
<1>2. QED
  BY <1>1, IInvMoves DEF Call, disk, log

\* A log that is quiet has room for one operation.
LEMMA QuietFits ==
  ASSUME IInv, ~committing, outstanding = 0, stage \notin Recovering
  PROVE  Fits
<1> USE Sizes
<1>1. stage = "idle"
  BY DEF IInv, TypeOK, Phases, Committing, Recovering
<1>2. Active = {}
  BY ActiveFinite, FS_EmptySet DEF IInv, Counts
<1>3. Len(lh) = 0
  BY <1>1, <1>2, EmptyList DEF IInv, Headers
<1>4. QED
  BY <1>3 DEF Fits

LEMMA IInvBeginOp == ASSUME IInv, NEW p \in Procs, BeginOp(p) PROVE IInv'
<1> USE Sizes
<1>1. /\ pc[p] = "begin" /\ UNCHANGED <<home, slot, head, cache, lh, committing, stage, tail, crashes>>
      /\ op \in [Procs -> Nat] /\ op[p] < MaxOps[p] /\ outstanding \in Nat
  BY DEF BeginOp, disk, IInv, TypeOK, Counts
<1>2. stage \notin Recovering
  BY <1>1 DEF IInv, Phases
<1>3. CASE committing \/ ~Fits
  <2>1. committing \/ outstanding > 0
    BY <1>1, <1>2, <1>3, QuietFits
  <2>2. pc' = [pc EXCEPT ![p] = "asleep"] /\ UNCHANGED <<outstanding, op, written>>
    BY <1>3 DEF BeginOp
  <2>3. QED
    BY <1>1, <1>2, <2>1, <2>2, IInvMoves
<1>4. CASE ~committing /\ Fits
  <2>1. /\ outstanding' = outstanding + 1
        /\ pc' = [pc EXCEPT ![p] = "op"] /\ op' = [op EXCEPT ![p] = @ + 1]
        /\ written' = [written EXCEPT ![p] = 0]
    BY <1>4 DEF BeginOp
  <2>2. pc'[p] = "op" /\ \A q \in Procs : q # p => pc'[q] = pc[q]
    BY <2>1 DEF IInv, TypeOK
  <2>3. op'[p] = op[p] + 1 /\ \A q \in Procs : q # p => op'[q] = op[q]
    BY <1>1, <2>1
  <2>4. TypeOK'
    <3>1. op' \in [Procs -> Nat]
      BY <1>1, <2>1
    <3>2. ASSUME NEW q \in Procs PROVE op'[q] <= MaxOps[q]
      <4>1. op[q] <= MaxOps[q]
        BY DEF IInv, TypeOK
      <4>2. MaxOps[p] \in Nat /\ op[p] \in Nat
        BY <1>1
      <4>3. QED
        BY <1>1, <2>3, <4>1, <4>2
    <3>3. written' \in [Procs -> 0 .. MAXOPBLOCKS]
      <4>1. written \in [Procs -> 0 .. MAXOPBLOCKS]
        BY DEF IInv, TypeOK
      <4>2. 0 \in 0 .. MAXOPBLOCKS
        OBVIOUS
      <4>3. QED
        BY <2>1, <4>1, <4>2
    <3>4. pc' \in [Procs -> {"idle", "begin", "asleep", "op", "commit"}]
      BY <2>1 DEF IInv, TypeOK
    <3>5. outstanding' \in Nat
      BY <1>1, <2>1
    <3>6. QED
      BY <1>1, <3>1, <3>2, <3>3, <3>4, <3>5 DEF IInv, TypeOK
  <2>5. stage = "idle"
    BY <1>2, <1>4 DEF IInv, TypeOK, Phases, Committing, Recovering
  <2>6. Phases'
    BY <1>1, <2>2, <2>5 DEF IInv, Phases, Recovering
  <2>7. Active' = Active \cup {p} /\ p \notin Active
    BY <1>1, <2>2 DEF Active
  <2>8. Counts'
    <3>1. outstanding' = Cardinality(Active')
      BY <2>1, <2>7, ActiveFinite, FS_AddElement DEF IInv, Counts
    <3>2. QED
      BY <1>1, <2>2, <2>3, <3>1 DEF IInv, Counts
  <2>9. Headers'
    BY <1>1, <2>7 DEF IInv, Headers
  <2>10. Copies'
    BY <1>1 DEF IInv, Copies
  <2>11. SleeperHasWaker'
    BY <1>1, <2>1 DEF SleeperHasWaker
  <2>12. QED
    BY <2>4, <2>6, <2>8, <2>9, <2>10, <2>11 DEF IInv
<1>5. QED
  BY <1>3, <1>4

LEMMA IInvLogWrite == ASSUME IInv, NEW p \in Procs, NEW b \in Blocks, LogWrite(p, b) PROVE IInv'
<1> USE Sizes
<1>0. lh \in Seq(Blocks) /\ Len(lh) \in Nat
  BY LenProperties DEF IInv, TypeOK
<1>1. /\ pc[p] = "op" /\ written[p] < MAXOPBLOCKS /\ Len(lh) < LOGSIZE
      /\ UNCHANGED <<home, slot, head, outstanding, committing, stage, tail, pc, op, crashes>>
      /\ cache' = [cache EXCEPT ![b] = <<p, op[p]>>]
      /\ lh' = IF b \in ToSet(lh) THEN lh ELSE Append(lh, b)
      /\ written' = [written EXCEPT ![p] = @ + 1]
  BY <1>0 DEF LogWrite, TooBig, disk
<1>2. stage = "idle" /\ p \in Active
  BY <1>1 DEF IInv, Phases, Active
<1>3. /\ lh' \in Seq(Blocks) /\ Len(lh') <= LOGSIZE /\ NoDouble(lh')
      /\ \A c : c \in ToSet(lh') <=> c \in ToSet(lh) \/ c = b
  <2>1. CASE b \in ToSet(lh)
    <3>1. lh' = lh /\ NoDouble(lh) /\ Len(lh) <= LOGSIZE
      BY <1>1, <2>1 DEF IInv, Headers
    <3>2. QED
      BY <1>0, <2>1, <3>1
  <2>2. CASE b \notin ToSet(lh)
    <3>1. NoDouble(lh)
      BY DEF IInv, Headers
    <3>2. /\ Append(lh, b) \in Seq(Blocks) /\ Len(Append(lh, b)) = Len(lh) + 1
          /\ NoDouble(Append(lh, b))
          /\ \A c : c \in ToSet(Append(lh, b)) <=> c \in ToSet(lh) \/ c = b
      BY <1>0, <2>2, <3>1, AppendNew
    <3>3. lh' = Append(lh, b)
      BY <1>1, <2>2
    <3>4. Len(lh) + 1 <= LOGSIZE
      BY <1>0, <1>1
    <3>5. QED
      BY <3>2, <3>3, <3>4
  <2>3. QED
    BY <2>1, <2>2
<1>4. TypeOK'
  <2>1. <<p, op[p]>> \in Value
    <3>1. op[p] \in Nat /\ op[p] <= MaxOps[p] /\ op[p] >= 1
      BY <1>1 DEF IInv, TypeOK, Counts
    <3>2. op[p] \in 1 .. MaxOps[p]
      BY <3>1
    <3>3. QED
      BY <3>2, Values
  <2>2. cache' \in [Blocks -> Value]
    BY <1>1, <2>1 DEF IInv, TypeOK
  <2>3. written' \in [Procs -> 0 .. MAXOPBLOCKS]
    <3>1. written \in [Procs -> 0 .. MAXOPBLOCKS]
      BY DEF IInv, TypeOK
    <3>2. written[p] + 1 \in 0 .. MAXOPBLOCKS
      BY <1>1, <3>1
    <3>3. QED
      BY <1>1, <3>1, <3>2
  <2>4. QED
    BY <1>1, <1>3, <2>2, <2>3 DEF IInv, TypeOK
<1>5. Active' = Active
  BY <1>1 DEF Active
<1>6. Phases' /\ Counts' /\ SleeperHasWaker'
  BY <1>1, <1>5 DEF IInv, Phases, Counts, SleeperHasWaker
<1>7. Headers'
  BY <1>1, <1>2, <1>3, <1>5 DEF IInv, Headers, NoDouble
<1>8. Copies'
  <2>1. \A c \in Blocks : c # b => cache'[c] = cache[c]
    BY <1>1 DEF IInv, TypeOK
  <2>2. QED
    BY <1>1, <1>2, <1>3, <2>1 DEF IInv, Copies, Recovering
<1>9. QED
  BY <1>4, <1>6, <1>7, <1>8 DEF IInv

LEMMA IInvEndOp == ASSUME IInv, NEW p \in Procs, EndOp(p) PROVE IInv'
<1> USE Sizes
<1>1. /\ pc[p] = "op" /\ outstanding' = outstanding - 1 /\ outstanding \in Nat
      /\ UNCHANGED <<home, slot, head, cache, lh, op, written, crashes>>
      /\ pc \in [Procs -> {"idle", "begin", "asleep", "op", "commit"}]
  BY DEF EndOp, disk, IInv, TypeOK
<1>2. stage = "idle" /\ ~committing /\ head = <<>> /\ \A q \in Procs : pc[q] # "commit"
  BY <1>1 DEF IInv, Phases, Headers, Committing
<1>3. /\ p \in Active /\ outstanding = Cardinality(Active)
      /\ Cardinality(Active \ {p}) = outstanding - 1 /\ outstanding > 0
      /\ IsFiniteSet(Active \ {p}) /\ Cardinality(Active \ {p}) \in Nat
  <2>1. p \in Active /\ outstanding = Cardinality(Active)
    BY <1>1 DEF IInv, Counts, Active
  <2>2. IsFiniteSet(Active \ {p}) /\ Cardinality(Active \ {p}) = Cardinality(Active) - 1
    BY <2>1, ActiveFinite, FS_RemoveElement
  <2>3. Cardinality(Active \ {p}) \in Nat
    BY <2>2, FS_CardinalityType
  <2>4. QED
    BY <1>1, <2>1, <2>2, <2>3
<1>4. CASE outstanding = 1
  <2>1. /\ committing' = TRUE /\ stage' = (IF lh = <<>> THEN "done" ELSE "log") /\ tail' = 1
        /\ pc' = [pc EXCEPT ![p] = "commit"]
    BY <1>4 DEF EndOp
  <2>2. pc'[p] = "commit" /\ \A q \in Procs : q # p => pc'[q] = pc[q]
    BY <1>1, <2>1
  <2>3. TypeOK'
    <3>1. /\ outstanding' \in Nat /\ tail' \in 1 .. LOGSIZE
          /\ pc' \in [Procs -> {"idle", "begin", "asleep", "op", "commit"}]
      BY <1>1, <1>3, <2>1
    <3>2. QED
      BY <1>1, <2>1, <3>1 DEF IInv, TypeOK
  <2>4. Active' = Active \ {p}
    BY <2>2 DEF Active
  <2>5. Active \ {p} = {}
    BY <1>3, <1>4, FS_EmptySet
  <2>6. \A q \in Procs : pc'[q] # "op"
    BY <2>4, <2>5 DEF Active
  <2>7. Phases'
    BY <1>2, <2>1, <2>2, <2>6 DEF Phases, Committing, Recovering
  <2>8. Counts'
    BY <1>1, <1>3, <2>2, <2>4, <2>6 DEF IInv, Counts
  <2>9. Headers'
    <3>1. lh # <<>> => 1 <= Len(lh)
      <4>1. lh \in Seq(Blocks)
        BY DEF IInv, TypeOK
      <4>2. lh # <<>> => Len(lh) \in Nat \ {0}
        BY <4>1, EmptySeq
      <4>3. QED
        BY <4>2
    <3>2. QED
      BY <1>1, <1>2, <2>1, <3>1 DEF IInv, Headers
  <2>10. Copies'
    <3>1. \A k \in DOMAIN lh : ~(k < 1)
      <4>1. lh \in Seq(Blocks)
        BY DEF IInv, TypeOK
      <4>2. DOMAIN lh = 1 .. Len(lh) /\ Len(lh) \in Nat
        BY <4>1, LenProperties
      <4>3. QED
        BY <4>2
    <3>2. QED
      BY <1>1, <1>2, <2>1, <3>1 DEF IInv, Copies, Recovering
  <2>11. SleeperHasWaker'
    BY <2>1 DEF SleeperHasWaker
  <2>12. QED
    BY <2>3, <2>7, <2>8, <2>9, <2>10, <2>11 DEF IInv
<1>5. CASE outstanding # 1
  <2>1. UNCHANGED <<committing, stage, tail>> /\ pc' = [WakeAll EXCEPT ![p] = "idle"]
    BY <1>5 DEF EndOp
  <2>2. /\ pc'[p] = "idle"
        /\ \A q \in Procs : q # p => pc'[q] = IF pc[q] = "asleep" THEN "begin" ELSE pc[q]
        /\ pc' \in [Procs -> {"idle", "begin", "asleep", "op", "commit"}]
    BY <1>1, <2>1 DEF WakeAll
  <2>3. TypeOK'
    BY <1>1, <1>3, <2>1, <2>2 DEF IInv, TypeOK
  <2>4. Active' = Active \ {p} /\ Active \ {p} # {}
    <3>1. Active' = Active \ {p}
      BY <1>1, <2>2 DEF Active
    <3>2. Cardinality(Active \ {p}) # 0
      BY <1>1, <1>3, <1>5
    <3>3. QED
      BY <3>1, <3>2, FS_EmptySet
  <2>5. Phases'
    BY <1>2, <2>1, <2>2 DEF IInv, Phases, Recovering
  <2>6. Counts'
    BY <1>1, <1>3, <2>2, <2>4 DEF IInv, Counts
  <2>7. Headers'
    BY <1>1, <1>2, <2>1, <2>4 DEF IInv, Headers
  <2>8. Copies'
    BY <1>1, <2>1 DEF IInv, Copies
  <2>9. SleeperHasWaker'
    BY <2>2 DEF SleeperHasWaker
  <2>10. QED
    BY <2>3, <2>5, <2>6, <2>7, <2>8, <2>9 DEF IInv
<1>6. QED
  BY <1>4, <1>5

\* The places of the list of blocks, and the one a loop is at.
LEMMA AtTail ==
  ASSUME IInv, stage \in {"log", "install", "replay"}
  PROVE  /\ lh \in Seq(Blocks) /\ Len(lh) \in Nat /\ DOMAIN lh = 1 .. Len(lh)
         /\ tail \in DOMAIN lh /\ lh[tail] \in Blocks /\ tail \in 1 .. LOGSIZE
         /\ Len(lh) <= LOGSIZE /\ \A k \in DOMAIN lh : lh[k] \in Blocks
<1>1. lh \in Seq(Blocks) /\ tail \in 1 .. LOGSIZE
  BY DEF IInv, TypeOK
<1>2. Len(lh) \in Nat /\ DOMAIN lh = 1 .. Len(lh) /\ lh \in [1 .. Len(lh) -> Blocks]
  BY <1>1, LenProperties
<1>3. tail <= Len(lh) /\ Len(lh) <= LOGSIZE
  BY DEF IInv, Headers
<1>4. tail \in Nat /\ tail >= 1
  BY <1>1, Sizes
<1>5. tail \in 1 .. Len(lh)
  <2>1. Len(lh) \in Nat
    BY <1>2
  <2>2. QED
    BY <1>3, <1>4, <2>1
<1>6. QED
  BY <1>1, <1>2, <1>3, <1>5

\* A loop goes on at the next place, or is through with all of them.
LEMMA AdvanceTo ==
  ASSUME IInv, stage \in {"log", "install", "replay"}, NEW l, Advance(l)
  PROVE  /\ tail' \in 1 .. LOGSIZE
         /\ \/ stage' = stage /\ tail' = tail + 1 /\ tail' <= Len(lh)
            \/ stage' = l /\ tail' = 1 /\ tail = Len(lh)
<1>1. /\ tail \in Nat /\ tail >= 1 /\ tail <= Len(lh)
      /\ Len(lh) \in Nat /\ Len(lh) <= LOGSIZE /\ LOGSIZE \in Nat
  <2>1. tail \in 1 .. Len(lh) /\ Len(lh) \in Nat /\ Len(lh) <= LOGSIZE
    BY AtTail
  <2>2. QED
    BY <2>1, Sizes
<1>2. CASE tail < Len(lh)
  <2>1. tail' = tail + 1 /\ stage' = stage
    BY <1>2 DEF Advance
  <2>2. tail' \in 1 .. LOGSIZE /\ tail' <= Len(lh)
    BY <1>1, <1>2, <2>1
  <2>3. QED
    BY <2>1, <2>2
<1>3. CASE ~(tail < Len(lh))
  <2>1. tail' = 1 /\ stage' = l
    BY <1>3 DEF Advance
  <2>2. tail' \in 1 .. LOGSIZE /\ tail = Len(lh)
    BY <1>1, <1>3, <2>1
  <2>3. QED
    BY <2>1, <2>2
<1>4. QED
  BY <1>2, <1>3

LEMMA IInvWriteLog == IInv /\ WriteLog => IInv'
<1> SUFFICES ASSUME IInv, WriteLog PROVE IInv'
  OBVIOUS
<1> USE Sizes
<1>1. /\ stage = "log" /\ slot' = [slot EXCEPT ![tail] = cache[lh[tail]]]
      /\ UNCHANGED <<home, head, cache, lh, outstanding, committing, pc, op, written, crashes>>
      /\ Advance("head") /\ slot \in [1 .. LOGSIZE -> Value] /\ cache \in [Blocks -> Value]
  BY DEF WriteLog, log, IInv, TypeOK
<1>2. /\ lh \in Seq(Blocks) /\ Len(lh) \in Nat /\ DOMAIN lh = 1 .. Len(lh)
      /\ tail \in DOMAIN lh /\ lh[tail] \in Blocks /\ tail \in 1 .. LOGSIZE
      /\ Len(lh) <= LOGSIZE
  BY <1>1, AtTail
<1>3. /\ tail' \in 1 .. LOGSIZE
      /\ \/ stage' = "log" /\ tail' = tail + 1 /\ tail' <= Len(lh)
         \/ stage' = "head" /\ tail' = 1 /\ tail = Len(lh)
  BY <1>1, AdvanceTo
<1>4. TypeOK'
  BY <1>1, <1>2, <1>3 DEF IInv, TypeOK
<1>5. Active' = Active
  BY <1>1 DEF Active
<1>6. Phases' /\ Counts' /\ SleeperHasWaker'
  BY <1>1, <1>3, <1>5 DEF IInv, Phases, Counts, SleeperHasWaker, Committing, Recovering
<1>7. Headers'
  <2>1. lh # <<>>
    BY <1>2
  <2>2. QED
    BY <1>1, <1>3, <2>1 DEF IInv, Headers
<1>8. Copies'
  <2>1. ASSUME NEW k \in DOMAIN lh, stage' = "log" => k < tail'
        PROVE  slot'[k] = cache[lh[k]]
    <3>1. k \in 1 .. LOGSIZE
      BY <1>2
    <3>2. CASE k = tail
      BY <1>1, <3>1, <3>2
    <3>3. CASE k # tail
      <4>1. k < tail
        BY <1>2, <1>3, <2>1, <3>3
      <4>2. slot[k] = cache[lh[k]]
        BY <1>1, <4>1 DEF IInv, Copies
      <4>3. QED
        BY <1>1, <3>1, <3>3, <4>2
    <3>4. QED
      BY <3>2, <3>3
  <2>2. \A b \in Blocks : b \notin ToSet(lh) => home[b] = cache[b]
    BY <1>1 DEF IInv, Copies, Recovering
  <2>3. stage' \in {"log", "head"}
    BY <1>3
  <2>4. QED
    BY <1>1, <2>1, <2>2, <2>3 DEF Copies, Recovering
<1>9. QED
  BY <1>4, <1>6, <1>7, <1>8 DEF IInv

LEMMA IInvWriteHead == IInv /\ WriteHead => IInv'
<1> SUFFICES ASSUME IInv, WriteHead PROVE IInv'
  OBVIOUS
<1> USE Sizes
<1>1. /\ stage = "head" /\ stage' = "install" /\ head' = lh /\ tail' = tail
      /\ UNCHANGED <<home, slot, cache, lh, outstanding, committing, pc, op, written, crashes>>
  BY DEF WriteHead, log
<1>2. tail = 1 /\ lh # <<>> /\ lh \in Seq(Blocks)
  BY <1>1 DEF IInv, Headers, TypeOK
<1>3. 1 <= Len(lh) /\ DOMAIN lh = 1 .. Len(lh)
  <2>1. Len(lh) \in Nat \ {0}
    BY <1>2, EmptySeq
  <2>2. QED
    BY <1>2, <2>1, LenProperties
<1>4. TypeOK'
  BY <1>1, <1>2 DEF IInv, TypeOK
<1>5. Active' = Active
  BY <1>1 DEF Active
<1>6. Phases' /\ Counts' /\ SleeperHasWaker'
  BY <1>1, <1>5 DEF IInv, Phases, Counts, SleeperHasWaker, Committing, Recovering
<1>7. Headers'
  BY <1>1, <1>2, <1>3 DEF IInv, Headers
<1>8. Copies'
  <2>1. /\ \A b \in Blocks : b \notin ToSet(lh) => home[b] = cache[b]
        /\ \A k \in DOMAIN lh : slot[k] = cache[lh[k]]
    BY <1>1 DEF IInv, Copies, Recovering
  <2>2. \A k \in DOMAIN lh : ~(k < 1)
    BY <1>3
  <2>3. QED
    BY <1>1, <1>2, <2>1, <2>2 DEF Copies, Recovering
<1>9. QED
  BY <1>4, <1>6, <1>7, <1>8 DEF IInv

LEMMA IInvInstallTrans == IInv /\ InstallTrans => IInv'
<1> SUFFICES ASSUME IInv, InstallTrans PROVE IInv'
  OBVIOUS
<1> USE Sizes
<1>1. /\ stage \in {"install", "replay"}
      /\ home' = [home EXCEPT ![lh[tail]] = slot[tail]]
      /\ cache' = [cache EXCEPT ![lh[tail]] = slot[tail]]
      /\ Advance(IF stage = "install" THEN "erase" ELSE "clear")
      /\ UNCHANGED <<slot, head, lh, outstanding, committing, pc, op, written, crashes>>
      /\ slot \in [1 .. LOGSIZE -> Value]
      /\ home \in [Blocks -> Value] /\ cache \in [Blocks -> Value]
  BY DEF InstallTrans, log, IInv, TypeOK
<1>2. /\ lh \in Seq(Blocks) /\ Len(lh) \in Nat /\ DOMAIN lh = 1 .. Len(lh)
      /\ tail \in DOMAIN lh /\ lh[tail] \in Blocks /\ tail \in 1 .. LOGSIZE
      /\ Len(lh) <= LOGSIZE /\ \A k \in DOMAIN lh : lh[k] \in Blocks
  BY <1>1, AtTail
<1>3. /\ tail' \in 1 .. LOGSIZE
      /\ \/ stage' = stage /\ tail' = tail + 1 /\ tail' <= Len(lh)
         \/ /\ stage' = IF stage = "install" THEN "erase" ELSE "clear"
            /\ tail' = 1 /\ tail = Len(lh)
  BY <1>1, AdvanceTo, ZenonT(60)
<1>4. slot[tail] \in Value
  BY <1>1, <1>2
<1>5. TypeOK'
  <2>1. home' \in [Blocks -> Value] /\ cache' \in [Blocks -> Value]
    BY <1>1, <1>2, <1>4
  <2>2. stage' \in {"install", "replay", "erase", "clear"}
    BY <1>1, <1>3
  <2>3. QED
    BY <1>1, <1>3, <2>1, <2>2 DEF IInv, TypeOK
<1>6. Active' = Active
  BY <1>1 DEF Active
<1>7. Phases' /\ Counts' /\ SleeperHasWaker'
  BY <1>1, <1>3, <1>6 DEF IInv, Phases, Counts, SleeperHasWaker, Committing, Recovering
<1>8. Headers'
  BY <1>1, <1>3 DEF IInv, Headers
<1>9. ASSUME NEW k \in DOMAIN lh, stage' \in {"install", "replay"} => k < tail'
      PROVE  home'[lh[k]] = slot[k]
  <2>1. CASE k = tail
    BY <1>1, <1>2, <2>1
  <2>2. CASE k # tail
    <3>1. k < tail
      <4>1. k \in Nat /\ tail \in Nat /\ k <= Len(lh)
        BY <1>2
      <4>2. CASE stage' = stage /\ tail' = tail + 1
        <5>1. k < tail + 1
          BY <1>1, <1>9, <4>2
        <5>2. QED
          BY <2>2, <4>1, <5>1
      <4>3. CASE tail = Len(lh)
        BY <2>2, <4>1, <4>3
      <4>4. QED
        BY <1>3, <4>2, <4>3
    <3>2. home[lh[k]] = slot[k]
      BY <1>1, <3>1 DEF IInv, Copies
    <3>3. lh[k] # lh[tail]
      BY <1>2, <2>2 DEF IInv, Headers, NoDouble
    <3>4. QED
      BY <1>1, <1>2, <3>2, <3>3
  <2>3. QED
    BY <2>1, <2>2
<1>10. CASE stage = "install"
  <2>1. /\ \A b \in Blocks : b \notin ToSet(lh) => home[b] = cache[b]
        /\ \A k \in DOMAIN lh : slot[k] = cache[lh[k]]
    BY <1>10 DEF IInv, Copies, Recovering
  <2>2. cache' = cache
    BY <1>1, <1>2, <2>1
  <2>3. \A b \in Blocks : b \notin ToSet(lh) => home'[b] = cache[b]
    <3> TAKE b \in Blocks
    <3> HAVE b \notin ToSet(lh)
    <3>1. b # lh[tail]
      BY <1>2, InToSet
    <3>2. QED
      BY <1>1, <2>1, <3>1
  <2>4. stage' = "erase" => home' = cache
    <3> HAVE stage' = "erase"
    <3>1. \A k \in DOMAIN lh : home'[lh[k]] = cache[lh[k]]
      BY <1>9, <2>1
    <3>2. \A b \in Blocks : home'[b] = cache[b]
      BY <2>3, <3>1, InToSet
    <3>3. QED
      BY <1>1, <1>2, <1>4, <3>2
  <2>5. stage' \in {"install", "erase"}
    BY <1>3, <1>10
  <2>6. Copies'
    <3>1. stage' \notin Recovering
      BY <2>5 DEF Recovering
    <3>2. \A b \in Blocks : b \notin ToSet(lh') => home'[b] = cache'[b]
      BY <1>1, <2>3
    <3>3. stage' \in {"log", "head", "install"} =>
            \A k \in DOMAIN lh' : (stage' = "log" => k < tail') => slot'[k] = cache'[lh'[k]]
      BY <1>1, <2>1, <2>2, <2>5
    <3>4. stage' \in {"install", "replay", "erase", "clear"} =>
            \A k \in DOMAIN lh' :
              (stage' \in {"install", "replay"} => k < tail') => home'[lh'[k]] = slot'[k]
      BY <1>1, <1>9, <2>5
    <3>5. QED
      BY <3>1, <3>2, <3>3, <3>4, <2>4, <2>5, <1>1 DEF Copies
  <2>7. QED
    BY <1>5, <1>7, <1>8, <2>6 DEF IInv
<1>11. CASE stage = "replay"
  <2>1. cache' = home'
    BY <1>1, <1>11 DEF IInv, Copies, Recovering
  <2>2. stage' \in {"replay", "clear"}
    BY <1>3, <1>11
  <2>3. Copies'
    BY <1>1, <1>9, <2>1, <2>2 DEF Copies, Recovering
  <2>4. QED
    BY <1>5, <1>7, <1>8, <2>3 DEF IInv
<1>12. QED
  BY <1>1, <1>10, <1>11

LEMMA IInvEraseHead == IInv /\ EraseHead => IInv'
<1> SUFFICES ASSUME IInv, EraseHead PROVE IInv'
  OBVIOUS
<1> USE Sizes
<1>1. /\ stage \in {"erase", "clear"} /\ lh' = <<>> /\ head' = <<>>
      /\ stage' = IF stage = "erase" THEN "done" ELSE "idle"
      /\ UNCHANGED <<home, slot, cache, outstanding, committing, tail, pc, op, written, crashes>>
  BY DEF EraseHead
<1>2. home = cache
  BY <1>1 DEF IInv, Copies, Recovering
<1>3. TypeOK'
  BY <1>1, EmptyList DEF IInv, TypeOK
<1>4. Active' = Active
  BY <1>1 DEF Active
<1>5. Phases' /\ Counts' /\ SleeperHasWaker'
  BY <1>1, <1>4 DEF IInv, Phases, Counts, SleeperHasWaker, Committing, Recovering
<1>6. Headers'
  BY <1>1, EmptyList DEF Headers
<1>7. Copies'
  BY <1>1, <1>2, EmptyList DEF Copies, Recovering
<1>8. QED
  BY <1>3, <1>5, <1>6, <1>7 DEF IInv

LEMMA IInvEndCommit == ASSUME IInv, NEW p \in Procs, EndCommit(p) PROVE IInv'
<1> USE Sizes
<1>1. /\ pc[p] = "commit" /\ stage = "done" /\ committing' = FALSE /\ stage' = "idle"
      /\ pc' = [WakeAll EXCEPT ![p] = "idle"]
      /\ UNCHANGED <<home, slot, head, cache, lh, outstanding, tail, op, written, crashes>>
      /\ pc \in [Procs -> {"idle", "begin", "asleep", "op", "commit"}]
  BY DEF EndCommit, disk, IInv, TypeOK
<1>2. /\ pc'[p] = "idle"
      /\ \A q \in Procs : q # p => pc'[q] = IF pc[q] = "asleep" THEN "begin" ELSE pc[q]
      /\ pc' \in [Procs -> {"idle", "begin", "asleep", "op", "commit"}]
  BY <1>1 DEF WakeAll
<1>3. TypeOK'
  BY <1>1, <1>2 DEF IInv, TypeOK
<1>4. Active' = Active
  BY <1>1, <1>2 DEF Active
<1>5. \A q \in Procs : pc'[q] # "commit"
  BY <1>1, <1>2 DEF IInv, Phases
<1>6. Phases'
  BY <1>1, <1>5 DEF Phases, Committing, Recovering
<1>7. Counts'
  BY <1>1, <1>2, <1>4 DEF IInv, Counts
<1>8. Headers'
  BY <1>1 DEF IInv, Headers
<1>9. Copies'
  BY <1>1 DEF IInv, Copies, Recovering
<1>10. SleeperHasWaker'
  BY <1>2 DEF SleeperHasWaker
<1>11. QED
  BY <1>3, <1>6, <1>7, <1>8, <1>9, <1>10 DEF IInv

LEMMA IInvCrash == IInv /\ Crash => IInv'
<1> SUFFICES ASSUME IInv, Crash PROVE IInv'
  OBVIOUS
<1> USE Sizes
<1>1. /\ crashes < MaxCrashes /\ crashes' = crashes + 1 /\ stage' = "recover" /\ cache' = home
      /\ lh' = <<>> /\ outstanding' = 0 /\ committing' = FALSE /\ tail' = 1
      /\ pc' = [p \in Procs |-> "idle"]
      /\ UNCHANGED <<home, slot, head, op, written>>
  BY DEF Crash, disk
<1>2. TypeOK'
  <2>1. crashes' \in 0 .. MaxCrashes
    <3>1. crashes \in 0 .. MaxCrashes
      BY DEF IInv, TypeOK
    <3>2. QED
      BY <1>1, <3>1
  <2>2. tail' \in 1 .. LOGSIZE
    BY <1>1
  <2>3. QED
    BY <1>1, <2>1, <2>2, EmptyList DEF IInv, TypeOK
<1>3. Active' = {}
  BY <1>1 DEF Active
<1>4. Phases'
  BY <1>1 DEF Phases, Committing, Recovering
<1>5. Counts'
  BY <1>1, <1>3, FS_EmptySet DEF Counts
<1>6. Headers'
  <2>1. Len(head) <= LOGSIZE /\ NoDouble(head)
    BY DEF IInv, Headers
  <2>2. Len(lh') <= LOGSIZE /\ NoDouble(lh')
    BY <1>1, EmptyList
  <2>3. QED
    BY <1>1, <2>1, <2>2 DEF Headers
<1>7. Copies'
  BY <1>1 DEF Copies, Recovering
<1>8. SleeperHasWaker'
  BY <1>1 DEF SleeperHasWaker
<1>9. QED
  BY <1>2, <1>4, <1>5, <1>6, <1>7, <1>8 DEF IInv

LEMMA IInvReadHead == IInv /\ ReadHead => IInv'
<1> SUFFICES ASSUME IInv, ReadHead PROVE IInv'
  OBVIOUS
<1> USE Sizes
<1>1. /\ stage = "recover" /\ lh' = head
      /\ stage' = IF head = <<>> THEN "clear" ELSE "replay"
      /\ UNCHANGED <<home, slot, head, cache, outstanding, committing, tail, pc, op, written, crashes>>
  BY DEF ReadHead, disk
<1>2. tail = 1 /\ head \in Seq(Blocks) /\ cache = home
  BY <1>1 DEF IInv, Headers, TypeOK, Copies, Recovering
<1>3. Len(head) \in Nat /\ DOMAIN head = 1 .. Len(head) /\ (head # <<>> => 1 <= Len(head))
  <2>1. head # <<>> => Len(head) \in Nat \ {0}
    BY <1>2, EmptySeq
  <2>2. QED
    BY <1>2, <2>1, LenProperties
<1>4. TypeOK'
  BY <1>1, <1>2 DEF IInv, TypeOK
<1>5. Active' = Active
  BY <1>1 DEF Active
<1>6. Phases' /\ Counts' /\ SleeperHasWaker'
  BY <1>1, <1>5 DEF IInv, Phases, Counts, SleeperHasWaker, Committing, Recovering
<1>7. Headers'
  BY <1>1, <1>2, <1>3 DEF IInv, Headers
<1>8. Copies'
  <2>1. \A k \in DOMAIN head : ~(k < 1)
    BY <1>3
  <2>2. head = <<>> => DOMAIN head = {}
    BY EmptyList
  <2>3. QED
    BY <1>1, <1>2, <2>1, <2>2 DEF Copies, Recovering
<1>9. QED
  BY <1>4, <1>6, <1>7, <1>8 DEF IInv

LEMMA IInvNext == IInv /\ [Next]_vars => IInv'
<1> SUFFICES ASSUME IInv, [Next]_vars PROVE IInv'
  OBVIOUS
<1>1. ASSUME NEW p \in Procs, Call(p) \/ Op(p) PROVE IInv'
  BY <1>1, IInvCall, IInvBeginOp, IInvEndOp, IInvEndCommit DEF Op
<1>2. ASSUME NEW p \in Procs, NEW b \in Blocks, LogWrite(p, b) PROVE IInv'
  BY <1>2, IInvLogWrite
<1>3. Commit => IInv'
  BY IInvWriteLog, IInvWriteHead, IInvInstallTrans, IInvEraseHead DEF Commit
<1>4. CASE UNCHANGED vars
  BY <1>4 DEF vars, disk, log, IInv, TypeOK, Phases, Counts, Active, Headers, Copies, SleeperHasWaker
<1>5. QED
  BY <1>1, <1>2, <1>3, <1>4, IInvCrash, IInvReadHead DEF Next

LEMMA IInvImplies == IInv => Inv
<1> SUFFICES ASSUME IInv PROVE Inv
  OBVIOUS
<1>1. committing => outstanding = 0
  <2> HAVE committing
  <2>1. stage # "idle"
    BY DEF IInv, Phases, Committing
  <2>2. Active = {}
    BY <2>1 DEF IInv, Phases, Active
  <2>3. QED
    BY <2>2, FS_EmptySet DEF IInv, Counts
<1>2. ASSUME Up, outstanding = 0, ~committing PROVE lh = <<>> /\ head = <<>> /\ home = cache
  <2>1. stage = "idle"
    BY <1>2 DEF Up, IInv, TypeOK, Phases, Committing
  <2>2. Active = {}
    BY <1>2, ActiveFinite, FS_EmptySet DEF IInv, Counts
  <2>3. lh = <<>> /\ head = <<>>
    BY <2>1, <2>2 DEF IInv, Headers
  <2>4. \A b \in Blocks : home[b] = cache[b]
    BY <2>1, <2>3, EmptyList DEF IInv, Copies, Recovering
  <2>5. home = cache
    <3>1. home \in [Blocks -> Value] /\ cache \in [Blocks -> Value]
      BY DEF IInv, TypeOK
    <3>2. QED
      BY <2>4, <3>1
  <2>6. QED
    BY <2>3, <2>5
<1>3. QED
  BY <1>1, <1>2 DEF IInv, Headers, NoDouble, Inv

-----------------------------------------------------------------------------
(* The invariants *)

LEMMA JournalInvariant == Spec => []IInv
<1>1. Init => IInv
  BY IInvInit
<1>2. IInv /\ [Next]_vars => IInv'
  BY IInvNext
<1> HIDE DEF IInv
<1>3. QED
  BY <1>1, <1>2, PTL DEF Spec

\* Nothing commits while an operation is in progress, no block is in the log twice, and a
\* quiet log is empty with every block at home, wherever the machine was stopped before;
\* whoever sleeps in begin_op() is woken by an operation or a commit in progress.
THEOREM JournalInv == Spec => []Inv
<1>1. IInv => Inv
  BY IInvImplies
<1> HIDE DEF IInv, Inv
<1>2. QED
  BY <1>1, JournalInvariant, PTL

-----------------------------------------------------------------------------
(* The log implements a disk whose blocks change together *)

\* What a restart makes of a header, the log's blocks and the home blocks.
Restored(hd, sl, hm) == [b \in Blocks |->
  IF b \in ToSet(hd) THEN sl[CHOOSE k \in DOMAIN hd : hd[k] = b] ELSE hm[b]]

LEMMA RecoveredIs ==
  Recovered = Restored(head, slot, home) /\ Recovered' = Restored(head', slot', home')
BY ZenonT(60) DEF Recovered, Restored

\* The copy of a block is in the one place the header has it at.
LEMMA RestoredAt ==
  ASSUME NEW hd \in Seq(Blocks), NoDouble(hd), NEW sl, NEW hm
  PROVE  /\ DOMAIN Restored(hd, sl, hm) = Blocks
         /\ \A k \in DOMAIN hd : hd[k] \in Blocks /\ Restored(hd, sl, hm)[hd[k]] = sl[k]
         /\ \A b \in Blocks : b \notin ToSet(hd) => Restored(hd, sl, hm)[b] = hm[b]
<1>1. ASSUME NEW k \in DOMAIN hd
      PROVE  hd[k] \in Blocks /\ Restored(hd, sl, hm)[hd[k]] = sl[k]
  <2>1. hd[k] \in Blocks /\ hd[k] \in ToSet(hd)
    BY LenProperties, InToSet
  <2>2. (CHOOSE j \in DOMAIN hd : hd[j] = hd[k]) = k
    BY DEF NoDouble
  <2>3. QED
    BY <2>1, <2>2 DEF Restored
<1>2. QED
  BY <1>1 DEF Restored

\* With the log's header, the blocks it names do not matter.
LEMMA RestoredSame ==
  ASSUME NEW hd \in Seq(Blocks), NoDouble(hd), NEW sl, NEW hm, NEW hm2,
         \A b \in Blocks : b \notin ToSet(hd) => hm2[b] = hm[b]
  PROVE  Restored(hd, sl, hm2) = Restored(hd, sl, hm)
<1> DEFINE f(h) == [b \in Blocks |->
             IF b \in ToSet(hd) THEN sl[CHOOSE k \in DOMAIN hd : hd[k] = b] ELSE h[b]]
<1>1. \A b \in Blocks : f(hm)[b] = f(hm2)[b]
  OBVIOUS
<1>2. f(hm) = f(hm2)
  BY <1>1
<1>3. QED
  BY <1>2 DEF Restored

\* A function on the blocks is what a restart finds if it is that at home and in the log.
LEMMA RestoredEqual ==
  ASSUME NEW hd \in Seq(Blocks), NoDouble(hd), NEW sl, NEW hm, NEW f \in [Blocks -> Value],
         \A k \in DOMAIN hd : sl[k] = f[hd[k]],
         \A b \in Blocks : b \notin ToSet(hd) => hm[b] = f[b]
  PROVE  Restored(hd, sl, hm) = f
<1> DEFINE g == Restored(hd, sl, hm)
<1>1. /\ DOMAIN g = Blocks
      /\ \A k \in DOMAIN hd : hd[k] \in Blocks /\ g[hd[k]] = sl[k]
      /\ \A b \in Blocks : b \notin ToSet(hd) => g[b] = hm[b]
  BY RestoredAt
<1>2. g = [b \in Blocks |-> g[b]]
  BY DEF Restored
<1> HIDE DEF g
<1>3. \A b \in Blocks : g[b] = f[b]
  BY <1>1, InToSet
<1>4. g = f
  BY <1>2, <1>3
<1>5. QED
  BY <1>4 DEF g

LEMMA AtomicInit == Init => Atomic!Init
<1> SUFFICES ASSUME Init PROVE Atomic!Init
  OBVIOUS
<1>1. home \in [Blocks -> Value] /\ cache = home /\ head = <<>> /\ stage = "idle"
  BY Values DEF Init
<1>2. Recovered = home
  BY <1>1, EmptyList, RestoredEqual, RecoveredIs
<1>3. Active = {} /\ Up
  BY DEF Init, Active, Up
<1>4. QED
  BY <1>1, <1>2, <1>3 DEF Atomic!Init, Active

\* Steps that change nothing on disk while the machine is up.
LEMMA AtomicOps ==
  ASSUME IInv, NEW p \in Procs,
         Call(p) \/ Op(p) \/ \E b \in Blocks : LogWrite(p, b)
  PROVE  Atomic!Next \/ UNCHANGED Atomic!vars
<1>1. UNCHANGED <<home, slot, head>>
  BY DEF Call, Op, BeginOp, EndOp, EndCommit, LogWrite, disk
<1>2. Recovered' = Recovered
  BY <1>1 DEF Recovered
<1>3. Up /\ Up'
  <2>1. stage \notin Recovering
    BY DEF Call, Op, BeginOp, EndOp, EndCommit, LogWrite, IInv, Phases, Up, Recovering
  <2>2. stage' = stage \/ stage' \in {"done", "log", "idle"}
    BY DEF Call, Op, BeginOp, EndOp, EndCommit, LogWrite
  <2>3. QED
    BY <2>1, <2>2 DEF Up, Recovering
<1>4. pc \in [Procs -> {"idle", "begin", "asleep", "op", "commit"}]
  BY DEF IInv, TypeOK
<1>5. CASE UNCHANGED <<cache, Active>>
  BY <1>2, <1>3, <1>5 DEF Atomic!vars, Active
<1>6. CASE Call(p)
  <2>1. cache' = cache /\ Active' = Active
    BY <1>4, <1>6 DEF Call, Active
  <2>2. QED
    BY <1>5, <2>1
<1>7. CASE BeginOp(p)
  <2>1. cache' = cache /\ pc[p] = "begin"
    BY <1>7 DEF BeginOp
  <2>2. CASE pc' = [pc EXCEPT ![p] = "asleep"]
    <3>1. Active' = Active
      BY <1>4, <2>1, <2>2 DEF Active
    <3>2. QED
      BY <1>5, <2>1, <3>1
  <2>3. CASE pc' = [pc EXCEPT ![p] = "op"]
    <3>1. Active' = Active \cup {p} /\ p \notin Active
      BY <1>4, <2>1, <2>3 DEF Active
    <3>2. Atomic!Begin(p)
      BY <1>2, <1>3, <2>1, <3>1 DEF Atomic!Begin, Active
    <3>3. QED
      BY <3>2 DEF Atomic!Next
  <2>4. QED
    BY <1>7, <2>2, <2>3 DEF BeginOp
<1>8. CASE EndOp(p)
  <2>1. cache' = cache /\ pc[p] = "op"
    BY <1>8 DEF EndOp
  <2>2. Active' = Active \ {p} /\ p \in Active
    BY <1>4, <1>8 DEF EndOp, WakeAll, Active
  <2>3. Atomic!End(p)
    BY <1>2, <1>3, <2>1, <2>2 DEF Atomic!End, Active
  <2>4. QED
    BY <2>3 DEF Atomic!Next
<1>9. CASE EndCommit(p)
  <2>1. cache' = cache /\ Active' = Active
    BY <1>4, <1>9 DEF EndCommit, WakeAll, Active
  <2>2. QED
    BY <1>5, <2>1
<1>10. ASSUME NEW b \in Blocks, LogWrite(p, b) PROVE Atomic!Next
  <2>1. /\ pc[p] = "op" /\ pc' = pc /\ op' = op
        /\ cache' = [cache EXCEPT ![b] = <<p, op[p]>>]
    BY <1>10 DEF LogWrite
  <2>2. <<p, op[p]>> \in Value
    <3>1. op[p] \in Nat /\ op[p] <= MaxOps[p] /\ op[p] >= 1
      BY <2>1 DEF IInv, TypeOK, Counts
    <3>2. op[p] \in 1 .. MaxOps[p]
      BY <3>1, Sizes
    <3>3. QED
      BY <3>2, Values
  <2>3. Active' = Active /\ p \in Active
    BY <2>1 DEF Active
  <2>4. Atomic!Write(p)
    BY <1>2, <1>3, <2>1, <2>2, <2>3 DEF Atomic!Write, Active
  <2>5. QED
    BY <2>4 DEF Atomic!Next
<1>11. QED
  BY <1>6, <1>7, <1>8, <1>9, <1>10 DEF Op

\* Copies to the log, from the log and the end of a transaction are not seen.
LEMMA AtomicStutter ==
  ASSUME IInv, WriteLog \/ InstallTrans \/ EraseHead \/ ReadHead
  PROVE  UNCHANGED Atomic!vars
<1>1. /\ pc' = pc /\ head \in Seq(Blocks) /\ NoDouble(head)
      /\ home \in [Blocks -> Value] /\ cache \in [Blocks -> Value]
  BY DEF WriteLog, InstallTrans, EraseHead, ReadHead, IInv, TypeOK, Headers
<1>2. SUFFICES /\ Recovered' = Recovered
               /\ \/ Up /\ Up' /\ cache' = cache
                  \/ ~Up /\ ~Up'
                  \/ ~Up /\ Up' /\ cache' = Recovered
  BY <1>1 DEF Atomic!vars
<1>3. CASE WriteLog
  <2>1. stage = "log" /\ head = <<>> /\ UNCHANGED <<home, head, cache>>
    BY <1>3 DEF WriteLog, IInv, Headers
  <2>2. stage' \in {"log", "head"}
    BY <1>3, <2>1 DEF WriteLog, Advance
  <2>3. Recovered = home /\ Recovered' = home
    BY <1>1, <2>1, EmptyList, RestoredEqual, RecoveredIs
  <2>4. QED
    BY <2>1, <2>2, <2>3 DEF Up
<1>4. CASE InstallTrans
  <2>1. /\ stage \in {"install", "replay"} /\ UNCHANGED <<slot, head>> /\ head = lh
        /\ home' = [home EXCEPT ![lh[tail]] = slot[tail]]
        /\ cache' = [cache EXCEPT ![lh[tail]] = slot[tail]]
        /\ Advance(IF stage = "install" THEN "erase" ELSE "clear")
    BY <1>4 DEF InstallTrans, IInv, Headers
  <2>2. tail \in DOMAIN lh /\ lh[tail] \in Blocks
    BY <2>1, AtTail
  <2>3. \A b \in Blocks : b \notin ToSet(head) => home'[b] = home[b]
    <3> TAKE b \in Blocks
    <3> HAVE b \notin ToSet(head)
    <3>1. b # lh[tail]
      BY <2>1, <2>2, InToSet
    <3>2. QED
      BY <1>1, <2>1, <3>1
  <2>4. Recovered' = Recovered
    <3>1. Restored(head, slot, home') = Restored(head, slot, home)
      BY <1>1, <2>3, RestoredSame
    <3>2. QED
      BY <2>1, <3>1, RecoveredIs
  <2>5. CASE stage = "install"
    <3>1. slot[tail] = cache[lh[tail]]
      BY <2>2, <2>5 DEF IInv, Copies
    <3>2. cache' = cache
      BY <1>1, <2>1, <2>2, <3>1
    <3>3. stage' \in {"install", "erase"}
      BY <2>1, <2>5 DEF Advance
    <3>4. QED
      BY <2>4, <2>5, <3>2, <3>3 DEF Up
  <2>6. CASE stage = "replay"
    <3>1. stage' \in {"replay", "clear"}
      BY <2>1, <2>6 DEF Advance
    <3>2. QED
      BY <2>4, <2>6, <3>1 DEF Up
  <2>7. QED
    BY <2>1, <2>5, <2>6
<1>5. CASE EraseHead
  <2>1. /\ stage \in {"erase", "clear"} /\ head' = <<>> /\ head = lh
        /\ stage' = IF stage = "erase" THEN "done" ELSE "idle"
        /\ UNCHANGED <<home, slot, cache>> /\ home = cache
        /\ \A k \in DOMAIN lh : home[lh[k]] = slot[k]
    BY <1>5 DEF EraseHead, IInv, Headers, Copies, Recovering
  <2>2. Recovered = home
    BY <1>1, <2>1, RestoredEqual, RecoveredIs
  <2>3. Recovered' = home
    BY <1>1, <2>1, EmptyList, RestoredEqual, RecoveredIs
  <2>4. QED
    BY <2>1, <2>2, <2>3 DEF Up
<1>6. CASE ReadHead
  <2>1. stage = "recover" /\ stage' \in {"clear", "replay"} /\ UNCHANGED <<home, slot, head>>
    BY <1>6 DEF ReadHead, disk
  <2>2. QED
    BY <2>1 DEF Up, Recovered
<1>7. QED
  BY <1>3, <1>4, <1>5, <1>6

\* The write of the header commits.
LEMMA AtomicCommit == ASSUME IInv, WriteHead PROVE Atomic!Commit
<1>1. /\ stage = "head" /\ stage' = "install" /\ head' = lh
      /\ UNCHANGED <<home, slot, cache, pc>>
  BY DEF WriteHead
<1>2. /\ lh \in Seq(Blocks) /\ NoDouble(lh) /\ cache \in [Blocks -> Value]
      /\ \A b \in Blocks : b \notin ToSet(lh) => home[b] = cache[b]
      /\ \A k \in DOMAIN lh : slot[k] = cache[lh[k]]
  BY <1>1 DEF IInv, TypeOK, Headers, Copies, Recovering
<1>3. Recovered' = cache
  BY <1>1, <1>2, RestoredEqual, RecoveredIs
<1>4. {p \in Procs : pc[p] = "op"} = {}
  BY <1>1 DEF IInv, Phases
<1>5. Up /\ Up'
  BY <1>1 DEF Up
<1>6. QED
  BY <1>1, <1>3, <1>4, <1>5 DEF Atomic!Commit

LEMMA AtomicCrash == Crash => Atomic!Crash
<1> SUFFICES ASSUME Crash PROVE Atomic!Crash
  OBVIOUS
<1>1. /\ UNCHANGED <<home, slot, head>> /\ stage' = "recover"
      /\ pc' = [p \in Procs |-> "idle"]
  BY DEF Crash, disk
<1>2. Recovered' = Recovered /\ ~Up' /\ {p \in Procs : pc'[p] = "op"} = {}
  BY <1>1 DEF Recovered, Up
<1>3. QED
  BY <1>2 DEF Atomic!Crash

LEMMA AtomicNext == IInv /\ [Next]_vars => [Atomic!Next]_(Atomic!vars)
<1> SUFFICES ASSUME IInv, [Next]_vars PROVE Atomic!Next \/ UNCHANGED Atomic!vars
  OBVIOUS
<1>1. CASE Commit
  BY <1>1, AtomicStutter, AtomicCommit DEF Commit, Atomic!Next
<1>2. CASE UNCHANGED vars
  BY <1>2 DEF vars, disk, Recovered, Up, Atomic!vars
<1>3. QED
  BY <1>1, <1>2, AtomicOps, AtomicStutter, AtomicCrash DEF Next, Atomic!Next

\* Operations reach the disk all or not at all: what a restart finds changes only when no
\* operation is in progress, to all that was written, wherever the machine stops, as often
\* as it stops, in the middle of a recovery too.
THEOREM JournalImplementsAtomicDisk == Spec => ImplementsAtomicDisk
<1>1. Init => Atomic!Init
  BY AtomicInit
<1>2. IInv /\ [Next]_vars => [Atomic!Next]_(Atomic!vars)
  BY AtomicNext
<1> HIDE DEF IInv, Init, Next, vars, Atomic!Init, Atomic!Next, Atomic!vars
<1>3. QED
  BY <1>1, <1>2, JournalInvariant, PTL DEF Spec, ImplementsAtomicDisk, Atomic!Spec

-----------------------------------------------------------------------------
(* The buffer cache: the inductive invariant *)

\* Who has the sleep-lock of a buffer.
Holding == {"iderw", "disk", "use", "release"}

\* Who is not idle has a buffer, and the buffer a block.
Located == \A p \in Threads :
  /\ buf[p] = None <=> bpc[p] = "idle"
  /\ bpc[p] # "idle" => buf[p] \in Bufs /\ blockno[buf[p]] \in DiskBlocks

Locks ==
  /\ \A p \in Threads : bpc[p] \in Holding => locked[buf[p]] = p
  /\ \A b \in Bufs : locked[b] # None => bpc[locked[b]] \in Holding /\ buf[locked[b]] = b

\* The buffers in the queue are those somebody sleeps on, each once.
Queued ==
  /\ \A m, n \in DOMAIN idequeue : idequeue[m] = idequeue[n] => m = n
  /\ \A b \in Bufs :
       b \in ToSet(idequeue) <=> \E p \in Threads : bpc[p] = "disk" /\ buf[p] = b

\* What has not been changed is as it is on disk; what has been changed is not read again.
Contents ==
  /\ \A b \in Bufs :
       /\ valid[b] => blockno[b] \in DiskBlocks
       /\ dirty[b] => valid[b]
       /\ valid[b] /\ ~dirty[b] => data[b] = medium[blockno[b]]
  /\ \A p \in Threads : bpc[p] \in {"use", "release"} => valid[buf[p]]

\* Changed buffers that nobody is about to write to disk.
Settled == {b \in Bufs : dirty[b] /\ \A p \in Threads : buf[p] = b => bpc[p] \notin {"iderw", "disk"}}

FewSettled == Cardinality(Settled) <= MaxPinned

CacheIInv == CacheInv /\ Located /\ Locks /\ Queued /\ Contents /\ FewSettled

-----------------------------------------------------------------------------
(* Lemmas about the list and the counts *)

LEMMA CacheFacts ==
  /\ NBUF \in Nat \ {0} /\ MaxPinned \in Nat
  /\ IsFiniteSet(Threads) /\ Cardinality(Threads) \in Nat
  /\ IsFiniteSet(Bufs) /\ Cardinality(Bufs) = NBUF
  /\ None \notin DiskBlocks /\ None \notin Threads /\ None \notin Bufs
  /\ DiskBlocks # {} /\ DiskBlocks \subseteq BlockValue /\ Changed \subseteq BlockValue
<1> USE BufferCacheAssumption
<1>1. IsFiniteSet(Threads) /\ Cardinality(Threads) \in Nat
  BY FS_CardinalityType
<1>2. NBUF \in Nat \ {0}
  OBVIOUS
<1>3. IsFiniteSet(1 .. NBUF) /\ Cardinality(1 .. NBUF) = NBUF
  BY <1>2, FS_Interval
<1>. QED
  BY <1>1, <1>3 DEF Bufs, BlockValue

\* A set of numbers has a least one.
LEMMA LeastNumber ==
  ASSUME NEW T \in SUBSET Nat, T # {}
  PROVE  \E x \in T : \A y \in T : x <= y
<1>1. PICK x \in T : \A y \in T : ~(<<y, x>> \in OpToRel(<, Nat))
  BY NatLessThanWellFounded, WFMin, ZenonT(60)
<1>2. \A y \in T : ~(y < x)
  BY <1>1 DEF OpToRel
<1>. QED
  BY <1>2

\* A set of buffers, looked for in the list, is met at a last place.
LEMMA LastPlace ==
  ASSUME NEW S, S \subseteq Bufs, S # {}, lru \in Seq(Bufs), ToSet(lru) = Bufs
  PROVE  \E n \in DOMAIN lru : lru[n] \in S /\ \A m \in DOMAIN lru : lru[m] \in S => m <= n
<1> DEFINE D == {k \in Nat : k <= Len(lru) /\ Len(lru) - k \in DOMAIN lru /\ lru[Len(lru) - k] \in S}
<1>1. DOMAIN lru = 1 .. Len(lru) /\ Len(lru) \in Nat
  BY LenProperties
<1>2. PICK n \in DOMAIN lru : lru[n] \in S
  BY DEF ToSet
<1>3. Len(lru) - n \in D
  BY <1>1, <1>2
<1>4. PICK k \in D : \A j \in D : k <= j
  <2>1. D \in SUBSET Nat /\ D # {}
    BY <1>3
  <2>. HIDE DEF D
  <2>. QED
    BY <2>1, LeastNumber, Zenon
<1>5. ASSUME NEW m \in DOMAIN lru, lru[m] \in S PROVE m <= Len(lru) - k
  <2>1. Len(lru) - m \in D
    BY <1>1, <1>5
  <2>2. k <= Len(lru) - m /\ k \in Nat
    BY <1>4, <2>1
  <2>. QED
    BY <1>1, <2>2
<1>. QED
  BY <1>4, <1>5

\* What is recycled is not in use and has nothing to write.
LEMMA VictimIsFree ==
  ASSUME lru \in Seq(Bufs), ToSet(lru) = Bufs, Recyclable # {}
  PROVE  Victim \in Recyclable /\ Victim \in Bufs
<1>1. Recyclable \subseteq Bufs
  BY DEF Recyclable
<1>2. \E n \in DOMAIN lru : lru[n] \in Recyclable
         /\ \A m \in DOMAIN lru : lru[m] \in Recyclable => m <= n
  BY <1>1, LastPlace
<1>. QED
  BY <1>1, <1>2 DEF Victim

\* Moving a buffer to the front keeps the list whole.
LEMMA MovedKeepsList ==
  ASSUME lru \in Seq(Bufs), ToSet(lru) = Bufs, NEW b \in Bufs
  PROVE  /\ MovedToFront(b) \in Seq(Bufs)
         /\ Len(MovedToFront(b)) = Len(lru) /\ ToSet(MovedToFront(b)) = Bufs
<1> DEFINE n == CHOOSE n \in DOMAIN lru : lru[n] = b
           left == SubSeq(lru, 1, n - 1)
           right == SubSeq(lru, n + 1, Len(lru))
           rest == left \o right
           all == <<b>> \o rest
<1>1. DOMAIN lru = 1 .. Len(lru) /\ Len(lru) \in Nat /\ \A m \in 1 .. Len(lru) : lru[m] \in Bufs
  BY LenProperties, ElementOfSeq
<1>2. n \in 1 .. Len(lru) /\ lru[n] = b
  <2>1. \E m \in DOMAIN lru : lru[m] = b
    BY DEF ToSet
  <2>. QED
    BY <1>1, <2>1
<1>3. /\ left \in Seq(Bufs) /\ Len(left) = n - 1
      /\ \A m \in 1 .. n - 1 : left[m] = lru[m]
  <2>. HIDE DEF n
  <2>1. \A i \in 1 .. n - 1 : lru[i] \in Bufs
    BY <1>1, <1>2
  <2>2. /\ SubSeq(lru, 1, n - 1) \in Seq(Bufs)
        /\ Len(SubSeq(lru, 1, n - 1)) = IF 1 <= n - 1 THEN n - 1 - 1 + 1 ELSE 0
        /\ \A i \in 1 .. n - 1 - 1 + 1 : SubSeq(lru, 1, n - 1)[i] = lru[1 + i - 1]
    BY <1>2, <2>1, SubSeqProperties
  <2>3. Len(SubSeq(lru, 1, n - 1)) = n - 1
    BY <1>1, <1>2, <2>2
  <2>4. \A m \in 1 .. n - 1 : SubSeq(lru, 1, n - 1)[m] = lru[m]
    <3> TAKE m \in 1 .. n - 1
    <3>1. m \in 1 .. n - 1 - 1 + 1 /\ 1 + m - 1 = m
      BY <1>1, <1>2
    <3>. QED
      BY <2>2, <3>1
  <2>. QED
    BY <2>2, <2>3, <2>4
<1>4. /\ right \in Seq(Bufs) /\ Len(right) = Len(lru) - n
      /\ \A m \in 1 .. Len(lru) - n : right[m] = lru[n + m]
  <2>. HIDE DEF n
  <2>1. \A i \in n + 1 .. Len(lru) : lru[i] \in Bufs
    BY <1>1, <1>2
  <2>2. /\ SubSeq(lru, n + 1, Len(lru)) \in Seq(Bufs)
        /\ Len(SubSeq(lru, n + 1, Len(lru))) =
             IF n + 1 <= Len(lru) THEN Len(lru) - (n + 1) + 1 ELSE 0
        /\ \A i \in 1 .. Len(lru) - (n + 1) + 1 :
             SubSeq(lru, n + 1, Len(lru))[i] = lru[n + 1 + i - 1]
    BY <1>1, <1>2, <2>1, SubSeqProperties
  <2>3. Len(SubSeq(lru, n + 1, Len(lru))) = Len(lru) - n
    <3>0. n \in Int /\ n <= Len(lru) /\ Len(lru) \in Int
      BY <1>1, <1>2
    <3>1. n + 1 <= Len(lru) => Len(lru) - (n + 1) + 1 = Len(lru) - n
      BY <3>0
    <3>2. ~(n + 1 <= Len(lru)) => Len(lru) - n = 0
      BY <3>0
    <3>. QED
      BY <2>2, <3>1, <3>2
  <2>4. \A m \in 1 .. Len(lru) - n : SubSeq(lru, n + 1, Len(lru))[m] = lru[n + m]
    <3> TAKE m \in 1 .. Len(lru) - n
    <3>1. m \in 1 .. Len(lru) - (n + 1) + 1 /\ n + 1 + m - 1 = n + m
      BY <1>1, <1>2
    <3>. QED
      BY <2>2, <3>1
  <2>. QED
    BY <2>2, <2>3, <2>4
<1>5. /\ rest \in Seq(Bufs) /\ Len(rest) = Len(lru) - 1
      /\ \A i \in 1 .. Len(lru) - 1 : rest[i] = IF i <= n - 1 THEN left[i] ELSE right[i - (n - 1)]
  <2>. HIDE DEF left, right, n
  <2>1. Len(left) + Len(right) = Len(lru) - 1
    BY <1>1, <1>2, <1>3, <1>4
  <2>2. /\ left \o right \in Seq(Bufs) /\ Len(left \o right) = Len(left) + Len(right)
        /\ \A i \in 1 .. Len(left) + Len(right) :
             (left \o right)[i] = IF i <= Len(left) THEN left[i] ELSE right[i - Len(left)]
    BY <1>3, <1>4, ConcatProperties
  <2>. QED
    BY <1>3, <2>1, <2>2
<1>6. /\ all \in Seq(Bufs) /\ Len(all) = Len(lru)
      /\ \A i \in 1 .. Len(lru) : all[i] = IF i <= 1 THEN b ELSE rest[i - 1]
  <2>. HIDE DEF rest
  <2>1. <<b>> \in Seq(Bufs) /\ Len(<<b>>) = 1 /\ <<b>>[1] = b
    OBVIOUS
  <2>2. /\ <<b>> \o rest \in Seq(Bufs)
        /\ Len(<<b>> \o rest) = Len(<<b>>) + Len(rest)
        /\ \A i \in 1 .. Len(<<b>>) + Len(rest) :
             (<<b>> \o rest)[i] = IF i <= Len(<<b>>) THEN <<b>>[i] ELSE rest[i - Len(<<b>>)]
    BY <1>5, <2>1, ConcatProperties
  <2>3. Len(<<b>>) + Len(rest) = Len(lru)
    BY <1>1, <1>2, <1>5, <2>1
  <2>4. ASSUME NEW i \in 1 .. Len(lru)
        PROVE  (<<b>> \o rest)[i] = IF i <= 1 THEN b ELSE rest[i - 1]
    <3>1. i <= 1 => i = 1
      BY <1>1
    <3>. QED
      BY <2>1, <2>2, <2>3, <3>1
  <2>. QED
    BY <2>2, <2>3, <2>4
<1>7. MovedToFront(b) = all
  BY DEF MovedToFront, RemoveAt
<1>8. ASSUME NEW c \in Bufs PROVE \E i \in 1 .. Len(lru) : all[i] = c
  <2>1. PICK m \in 1 .. Len(lru) : lru[m] = c
    BY <1>1 DEF ToSet
  <2>. HIDE DEF n, left, right, rest, all
  <2>2. CASE m = n
    BY <1>1, <1>2, <1>6, <2>1, <2>2
  <2>3. CASE m < n
    <3>1. m + 1 \in 1 .. Len(lru) /\ m \in 1 .. n - 1 /\ m \in 1 .. Len(lru) - 1
      BY <1>1, <1>2, <2>1, <2>3
    <3>2. all[m + 1] = rest[m] /\ rest[m] = left[m] /\ left[m] = c
      BY <1>3, <1>5, <1>6, <2>1, <3>1
    <3>. QED
      BY <3>1, <3>2
  <2>4. CASE m > n
    <3>1. m - 1 \in 1 .. Len(lru) - 1 /\ ~(m - 1 <= n - 1) /\ m - n \in 1 .. Len(lru) - n /\ m > 1
      BY <1>1, <1>2, <2>1, <2>4
    <3>2. all[m] = rest[m - 1] /\ rest[m - 1] = right[m - 1 - (n - 1)]
      BY <1>5, <1>6, <2>1, <3>1
    <3>3. right[m - n] = lru[n + (m - n)] /\ m - 1 - (n - 1) = m - n /\ n + (m - n) = m
      BY <1>1, <1>2, <1>4, <2>1, <3>1
    <3>. QED
      BY <2>1, <3>2, <3>3
  <2>. QED
    BY <1>1, <1>2, <2>1, <2>2, <2>3, <2>4
<1>9. ToSet(all) = Bufs
  <2>. HIDE DEF all
  <2>1. DOMAIN all = 1 .. Len(lru) /\ \A i \in 1 .. Len(lru) : all[i] \in Bufs
    BY <1>6, LenProperties, ElementOfSeq
  <2>. QED
    BY <1>8, <2>1 DEF ToSet
<1>. QED
  BY <1>6, <1>7, <1>9

Using(b) == {p \in Threads : buf[p] = b}

LEMMA UsingFinite == ASSUME NEW b PROVE IsFiniteSet(Using(b)) /\ Cardinality(Using(b)) \in Nat
BY CacheFacts, FS_Subset, FS_CardinalityType DEF Using

\* A buffer that is not counted is used by nobody.
LEMMA NobodyUses ==
  ASSUME CacheInv, NEW b \in Bufs, refcnt[b] = 0
  PROVE  \A p \in Threads : buf[p] # b
<1>1. Cardinality(Using(b)) = 0 /\ IsFiniteSet(Using(b))
  BY UsingFinite DEF CacheInv, Using
<1>2. Using(b) = {}
  BY <1>1, FS_EmptySet
<1>. QED
  BY <1>2 DEF Using

\* A process takes a buffer, or gives its buffer back, and the counts go with it.
LEMMA UserJoins ==
  ASSUME CacheInv, NEW p \in Threads, NEW b \in Bufs, buf[p] = None,
         buf' = [buf EXCEPT ![p] = b], refcnt' = [refcnt EXCEPT ![b] = @ + 1]
  PROVE  \A c \in Bufs : refcnt'[c] = Cardinality({q \in Threads : buf'[q] = c})
<1>1. /\ buf \in [Threads -> Bufs \cup {None}] /\ refcnt \in [Bufs -> Nat]
      /\ \A c \in Bufs : refcnt[c] = Cardinality(Using(c))
  BY DEF CacheInv, CacheTypeOK, Using
<1> TAKE c \in Bufs
<1>2. CASE c = b
  <2>1. {q \in Threads : buf'[q] = c} = Using(b) \cup {p}
    BY <1>1, <1>2 DEF Using
  <2>2. p \notin Using(b)
    BY CacheFacts DEF Using
  <2>3. Cardinality(Using(b) \cup {p}) = Cardinality(Using(b)) + 1
    BY <2>2, UsingFinite, FS_AddElement
  <2>. QED
    BY <1>1, <1>2, <2>1, <2>3
<1>3. CASE c # b
  <2>1. {q \in Threads : buf'[q] = c} = Using(c)
    BY <1>1, <1>3, CacheFacts DEF Using
  <2>. QED
    BY <1>1, <1>3, <2>1
<1>. QED
  BY <1>2, <1>3

LEMMA UserLeaves ==
  ASSUME CacheInv, NEW p \in Threads, NEW b \in Bufs, buf[p] = b,
         buf' = [buf EXCEPT ![p] = None], refcnt' = [refcnt EXCEPT ![b] = @ - 1]
  PROVE  /\ \A c \in Bufs : refcnt'[c] = Cardinality({q \in Threads : buf'[q] = c})
         /\ refcnt' \in [Bufs -> Nat]
<1>1. /\ buf \in [Threads -> Bufs \cup {None}] /\ refcnt \in [Bufs -> Nat]
      /\ \A c \in Bufs : refcnt[c] = Cardinality(Using(c))
  BY DEF CacheInv, CacheTypeOK, Using
<1>2. ASSUME NEW c \in Bufs PROVE refcnt'[c] = Cardinality({q \in Threads : buf'[q] = c})
  <2>1. CASE c = b
    <3>1. {q \in Threads : buf'[q] = c} = Using(b) \ {p}
      BY <1>1, <2>1, CacheFacts DEF Using
    <3>2. p \in Using(b)
      BY DEF Using
    <3>3. Cardinality(Using(b) \ {p}) = Cardinality(Using(b)) - 1
      BY <3>2, UsingFinite, FS_RemoveElement
    <3>. QED
      BY <1>1, <2>1, <3>1, <3>3
  <2>2. CASE c # b
    <3>1. {q \in Threads : buf'[q] = c} = Using(c)
      BY <1>1, <2>2, CacheFacts DEF Using
    <3>. QED
      BY <1>1, <2>2, <3>1
  <2>. QED
    BY <2>1, <2>2
<1>3. ASSUME NEW c \in Bufs PROVE refcnt'[c] \in Nat
  <2>1. IsFiniteSet({q \in Threads : buf'[q] = c})
    BY CacheFacts, FS_Subset
  <2>. QED
    BY <1>2, <2>1, FS_CardinalityType
<1>4. refcnt' = [c \in Bufs |-> refcnt'[c]]
  BY <1>1
<1>. QED
  BY <1>2, <1>3, <1>4

LEMMA CacheInvInit == CacheInit => CacheIInv
<1> SUFFICES ASSUME CacheInit PROVE CacheIInv
  OBVIOUS
<1> USE CacheFacts DEF CacheInit
<1>1. CacheTypeOK
  <2>1. lru \in Seq(Bufs)
    <3>1. \A n \in 1 .. NBUF : NBUF + 1 - n \in 1 .. NBUF
      OBVIOUS
    <3>. QED
      BY <3>1, IsASeq DEF Bufs
  <2>2. (CHOOSE v \in BlockValue : TRUE) \in BlockValue
    OBVIOUS
  <2>. QED
    BY <2>1, <2>2 DEF CacheTypeOK
<1>2. ToSet(lru) = Bufs /\ Len(lru) = NBUF
  <2>1. Len(lru) = NBUF /\ DOMAIN lru = 1 .. NBUF
    BY DEF Bufs
  <2>2. \A b \in Bufs : NBUF + 1 - b \in 1 .. NBUF /\ lru[NBUF + 1 - b] = b
    BY DEF Bufs
  <2>3. \A n \in 1 .. NBUF : lru[n] \in Bufs
    BY DEF Bufs
  <2>. QED
    <3>1. \A b \in Bufs : \E n \in DOMAIN lru : lru[n] = b
      BY <2>1, <2>2
    <3>2. \A n \in DOMAIN lru : lru[n] \in Bufs
      BY <2>1, <2>3
    <3> HIDE DEF CacheInit
    <3>. QED
      BY <2>1, <3>1, <3>2 DEF ToSet
<1>3. ASSUME NEW b \in Bufs PROVE refcnt[b] = Cardinality({p \in Threads : buf[p] = b})
  <2>1. {p \in Threads : buf[p] = b} = {}
    OBVIOUS
  <2>. QED
    BY <2>1, FS_EmptySet
<1>4. CacheInv
  BY <1>1, <1>2, <1>3 DEF CacheInv
<1>5. Located /\ Locks /\ Contents
  BY DEF Located, Locks, Contents, Holding
<1>6. Queued
  BY DEF Queued, ToSet
<1>7. FewSettled
  <2>1. Settled = {}
    BY DEF Settled
  <2>. QED
    BY <2>1, FS_EmptySet DEF FewSettled
<1>. QED
  BY <1>4, <1>5, <1>6, <1>7 DEF CacheIInv

-----------------------------------------------------------------------------
(* bget() *)

LEMMA BgetCachedKeeps ==
  ASSUME CacheIInv, NEW p \in Threads, NEW k \in DiskBlocks, BgetCached(p, k)
  PROVE  CacheIInv'
<1> USE CacheFacts
<1>1. PICK b \in Bufs :
        /\ blockno[b] = k /\ bpc[p] = "idle"
        /\ refcnt' = [refcnt EXCEPT ![b] = @ + 1] /\ buf' = [buf EXCEPT ![p] = b]
        /\ bpc' = [bpc EXCEPT ![p] = "lock"]
        /\ UNCHANGED <<blockno, valid, dirty, data, locked, lru, idequeue, medium>>
  BY DEF BgetCached, Cached, BufGoto
<1>2. CacheTypeOK /\ buf[p] = None
  BY <1>1 DEF CacheIInv, CacheInv, Located
<1>3. /\ \A q \in Threads : q # p => bpc'[q] = bpc[q] /\ buf'[q] = buf[q]
      /\ bpc'[p] = "lock" /\ buf'[p] = b
  BY <1>1, <1>2 DEF CacheTypeOK
<1>4. CacheInv'
  <2>1. CacheTypeOK'
    BY <1>1, <1>2 DEF CacheTypeOK
  <2>2. \A c \in Bufs : refcnt'[c] = Cardinality({q \in Threads : buf'[q] = c})
    BY <1>1, <1>2, UserJoins DEF CacheIInv
  <2>. QED
    BY <1>1, <1>3, <2>1, <2>2 DEF CacheIInv, CacheInv
<1>5. Located'
  BY <1>1, <1>3 DEF CacheIInv, Located
<1>6. Locks'
  BY <1>1, <1>2, <1>3 DEF CacheIInv, CacheTypeOK, Locks, Holding
<1>7. Queued'
  BY <1>1, <1>3 DEF CacheIInv, Queued
<1>8. Contents'
  BY <1>1, <1>3 DEF CacheIInv, Contents
<1>9. Settled' = Settled
  BY <1>1, <1>2, <1>3 DEF Settled
<1>. QED
  BY <1>4, <1>5, <1>6, <1>7, <1>8, <1>9 DEF CacheIInv, FewSettled

LEMMA BgetRecycleKeeps ==
  ASSUME CacheIInv, NEW p \in Threads, NEW k \in DiskBlocks, BgetRecycle(p, k)
  PROVE  CacheIInv'
<1> USE CacheFacts
<1> DEFINE b == Victim
<1>1. /\ blockno' = [blockno EXCEPT ![b] = k] /\ valid' = [valid EXCEPT ![b] = FALSE]
      /\ refcnt' = [refcnt EXCEPT ![b] = 1] /\ buf' = [buf EXCEPT ![p] = b]
      /\ bpc[p] = "idle" /\ bpc' = [bpc EXCEPT ![p] = "lock"]
      /\ UNCHANGED <<dirty, data, locked, lru, idequeue, medium>>
      /\ \A c \in Bufs : blockno[c] # k
  BY DEF BgetRecycle, Cached, BufGoto
<1>2. CacheTypeOK /\ CacheInv /\ buf[p] = None
  BY <1>1 DEF CacheIInv, CacheInv, Located
<1>3. b \in Bufs /\ refcnt[b] = 0 /\ ~dirty[b]
  <2>1. Victim \in Recyclable /\ Victim \in Bufs
    BY <1>2, VictimIsFree DEF BgetRecycle, CacheInv, CacheTypeOK
  <2>. QED
    BY <2>1 DEF Recyclable
<1> HIDE DEF b
<1>4. \A q \in Threads : buf[q] # b
  BY <1>2, <1>3, NobodyUses
<1>5. /\ \A q \in Threads : q # p => bpc'[q] = bpc[q] /\ buf'[q] = buf[q] /\ buf'[q] # b
      /\ bpc'[p] = "lock" /\ buf'[p] = b
      /\ \A c \in Bufs : c # b => blockno'[c] = blockno[c] /\ valid'[c] = valid[c]
      /\ blockno'[b] = k /\ ~valid'[b]
  BY <1>1, <1>2, <1>3, <1>4 DEF CacheTypeOK
<1>6. CacheInv'
  <2>1. CacheTypeOK'
    BY <1>1, <1>2, <1>3 DEF CacheTypeOK
  <2>2. refcnt' = [refcnt EXCEPT ![b] = @ + 1]
    BY <1>1, <1>2, <1>3 DEF CacheTypeOK
  <2>3. \A c \in Bufs : refcnt'[c] = Cardinality({q \in Threads : buf'[q] = c})
    BY <1>1, <1>2, <1>3, <2>2, UserJoins
  <2>4. \A c, d \in Bufs : blockno'[c] # None /\ blockno'[c] = blockno'[d] => c = d
    BY <1>1, <1>2, <1>5 DEF CacheInv
  <2>5. \A q \in Threads : bpc'[q] = "asleep" => locked'[buf'[q]] # None
    BY <1>1, <1>2, <1>5 DEF CacheInv
  <2>6. ToSet(lru') = Bufs /\ Len(lru') = NBUF
    BY <1>1, <1>2 DEF CacheInv
  <2>. QED
    BY <2>1, <2>3, <2>4, <2>5, <2>6 DEF CacheInv
<1>7. Located'
  BY <1>1, <1>3, <1>5 DEF CacheIInv, Located
<1>8. Locks'
  BY <1>1, <1>2, <1>5 DEF CacheIInv, CacheTypeOK, Locks, Holding
<1>9. Queued'
  BY <1>1, <1>5 DEF CacheIInv, Queued
<1>10. Contents'
  BY <1>1, <1>2, <1>3, <1>5 DEF CacheIInv, Contents, CacheTypeOK
<1>11. Settled' = Settled
  BY <1>1, <1>3, <1>5 DEF Settled
<1>. QED
  BY <1>6, <1>7, <1>8, <1>9, <1>10, <1>11 DEF CacheIInv, FewSettled

LEMMA AcquireSleepKeeps ==
  ASSUME CacheIInv, NEW p \in Threads, AcquireSleep(p)
  PROVE  CacheIInv'
<1> USE CacheFacts
<1> DEFINE b == buf[p]
<1>1. /\ bpc[p] = "lock"
      /\ UNCHANGED <<blockno, refcnt, valid, dirty, data, lru, idequeue, medium, buf>>
  BY DEF AcquireSleep, bufs
<1>2. CacheTypeOK /\ CacheInv /\ b \in Bufs
  BY <1>1 DEF CacheIInv, CacheInv, Located
<1>3. CASE locked[b] # None
  <2>1. bpc' = [bpc EXCEPT ![p] = "asleep"] /\ locked' = locked
    BY <1>3 DEF AcquireSleep, BufGoto
  <2>2. bpc'[p] = "asleep" /\ \A q \in Threads : q # p => bpc'[q] = bpc[q]
    BY <1>2, <2>1 DEF CacheTypeOK
  <2>3. CacheTypeOK'
    BY <1>1, <1>2, <2>1 DEF CacheTypeOK
  <2>4. CacheInv'
    BY <1>1, <1>2, <1>3, <2>1, <2>2, <2>3 DEF CacheInv
  <2>5. Located' /\ Contents'
    BY <1>1, <2>2 DEF CacheIInv, Located, Contents
  <2>6. Locks'
    BY <1>1, <1>2, <2>1, <2>2 DEF CacheIInv, CacheTypeOK, Locks, Holding
  <2>7. Queued'
    BY <1>1, <2>2 DEF CacheIInv, Queued
  <2>8. Settled' = Settled
    BY <1>1, <2>2 DEF Settled
  <2>. QED
    BY <2>4, <2>5, <2>6, <2>7, <2>8 DEF CacheIInv, FewSettled
<1>4. CASE locked[b] = None
  <2>1. /\ bpc' = [bpc EXCEPT ![p] = IF valid[b] THEN "use" ELSE "iderw"]
        /\ locked' = [locked EXCEPT ![b] = p]
    BY <1>4 DEF AcquireSleep, BufGoto
  <2>2. /\ bpc'[p] = (IF valid[b] THEN "use" ELSE "iderw")
        /\ \A q \in Threads : q # p => bpc'[q] = bpc[q]
        /\ locked'[b] = p /\ \A c \in Bufs : c # b => locked'[c] = locked[c]
    BY <1>2, <2>1 DEF CacheTypeOK
  <2>3. CacheTypeOK'
    BY <1>1, <1>2, <2>1 DEF CacheTypeOK
  <2>4. \A q \in Threads : bpc[q] \in Holding => buf[q] # b
    BY <1>4, <1>2 DEF CacheIInv, Locks
  <2>5. CacheInv'
    <3>1. ASSUME NEW q \in Threads, bpc'[q] = "asleep" PROVE locked'[buf'[q]] # None
      <4>1. q # p /\ bpc[q] = "asleep" /\ buf[q] \in Bufs /\ locked[buf[q]] # None
        BY <1>2, <2>2, <3>1 DEF CacheIInv, CacheInv, Located
      <4>. QED
        BY <1>1, <2>2, <4>1
    <3>. QED
      BY <1>1, <1>2, <2>3, <3>1 DEF CacheInv
  <2>6. Located'
    BY <1>1, <2>2 DEF CacheIInv, Located
  <2>7. Locks'
    <3>1. ASSUME NEW q \in Threads, bpc'[q] \in Holding PROVE locked'[buf'[q]] = q
      <4>1. CASE q = p
        BY <1>1, <2>2, <4>1
      <4>2. CASE q # p
        <5>1. bpc[q] \in Holding /\ buf[q] \in Bufs /\ buf[q] # b
          BY <2>2, <2>4, <3>1, <4>2 DEF CacheIInv, Located, Holding
        <5>. QED
          BY <1>1, <2>2, <5>1 DEF CacheIInv, Locks
      <4>. QED
        BY <4>1, <4>2
    <3>2. ASSUME NEW c \in Bufs, locked'[c] # None
          PROVE  bpc'[locked'[c]] \in Holding /\ buf'[locked'[c]] = c
      <4>1. CASE c = b
        BY <1>1, <2>2, <4>1 DEF Holding
      <4>2. CASE c # b
        <5>1. locked'[c] = locked[c] /\ locked[c] \in Threads
          BY <1>2, <2>2, <3>2, <4>2 DEF CacheTypeOK
        <5>2. bpc[locked[c]] \in Holding /\ buf[locked[c]] = c
          BY <3>2, <5>1 DEF CacheIInv, Locks
        <5>3. locked[c] # p
          BY <4>2, <5>2
        <5>. QED
          BY <1>1, <2>2, <5>1, <5>2, <5>3
      <4>. QED
        BY <4>1, <4>2
    <3>. QED
      BY <3>1, <3>2 DEF Locks
  <2>8. Queued'
    BY <1>1, <2>2 DEF CacheIInv, Queued
  <2>9. Contents'
    BY <1>1, <2>2 DEF CacheIInv, Contents
  <2>10. Settled' = Settled
    <3>1. ~valid[b] => ~dirty[b]
      BY <1>2 DEF CacheIInv, Contents
    <3>. QED
      BY <1>1, <2>2, <3>1 DEF Settled
  <2>. QED
    BY <2>5, <2>6, <2>7, <2>8, <2>9, <2>10 DEF CacheIInv, FewSettled
<1>. QED
  BY <1>3, <1>4

-----------------------------------------------------------------------------
(* The disk *)

LEMMA IderwKeeps ==
  ASSUME CacheIInv, NEW p \in Threads, Iderw(p)
  PROVE  CacheIInv'
<1> USE CacheFacts
<1> DEFINE b == buf[p]
<1>1. /\ bpc[p] = "iderw" /\ bpc' = [bpc EXCEPT ![p] = "disk"]
      /\ idequeue' = Append(idequeue, b)
      /\ UNCHANGED <<blockno, refcnt, valid, dirty, data, locked, lru, medium, buf>>
  BY DEF Iderw, BufGoto, bufs
<1>2. CacheTypeOK /\ CacheInv /\ b \in Bufs
  BY <1>1 DEF CacheIInv, CacheInv, Located
<1>3. bpc'[p] = "disk" /\ \A q \in Threads : q # p => bpc'[q] = bpc[q]
  BY <1>1, <1>2 DEF CacheTypeOK
<1>4. /\ idequeue' \in Seq(Bufs) /\ Len(idequeue') = Len(idequeue) + 1
      /\ \A n \in 1 .. Len(idequeue) : idequeue'[n] = idequeue[n]
      /\ idequeue'[Len(idequeue) + 1] = b
  BY <1>1, <1>2, AppendProperties DEF CacheTypeOK
<1>5. /\ DOMAIN idequeue = 1 .. Len(idequeue) /\ Len(idequeue) \in Nat
      /\ DOMAIN idequeue' = 1 .. Len(idequeue) + 1
  BY <1>2, <1>4, LenProperties DEF CacheTypeOK
<1>6. CacheInv'
  <2>1. CacheTypeOK'
    BY <1>1, <1>2, <1>4 DEF CacheTypeOK
  <2>. QED
    BY <1>1, <1>2, <1>3, <2>1 DEF CacheInv
<1>7. Located' /\ Locks'
  BY <1>1, <1>2, <1>3 DEF CacheIInv, Located, Locks, Holding, CacheTypeOK
<1>8. \A q \in Threads : bpc[q] = "disk" => buf[q] # b
  BY <1>1, <1>2 DEF CacheIInv, Locks, Holding
<1>9. b \notin ToSet(idequeue)
  BY <1>2, <1>8 DEF CacheIInv, Queued
<1>10. ToSet(idequeue') = ToSet(idequeue) \cup {b}
  BY <1>4, <1>5 DEF ToSet
<1>11. Queued'
  <2>1. \A m, n \in DOMAIN idequeue' : idequeue'[m] = idequeue'[n] => m = n
    <3>1. \A m \in 1 .. Len(idequeue) : idequeue[m] # b
      BY <1>5, <1>9 DEF ToSet
    <3>2. \A m, n \in 1 .. Len(idequeue) : idequeue[m] = idequeue[n] => m = n
      BY <1>5 DEF CacheIInv, Queued
    <3>3. \A m \in 1 .. Len(idequeue) + 1 : m \in 1 .. Len(idequeue) \/ m = Len(idequeue) + 1
      BY <1>5
    <3>. QED
      BY <1>4, <1>5, <3>1, <3>2, <3>3
  <2>2. ASSUME NEW c \in Bufs
        PROVE  c \in ToSet(idequeue') <=> \E q \in Threads : bpc'[q] = "disk" /\ buf'[q] = c
    BY <1>1, <1>3, <1>10 DEF CacheIInv, Queued
  <2>. QED
    BY <2>1, <2>2 DEF Queued
<1>12. Contents'
  BY <1>1, <1>3 DEF CacheIInv, Contents
<1>13. Settled' = Settled
  BY <1>1, <1>3 DEF Settled
<1>. QED
  BY <1>6, <1>7, <1>11, <1>12, <1>13 DEF CacheIInv, FewSettled

\* The buffer at the head of the queue is in use and has a block.
LEMMA RequestIsUsed ==
  ASSUME CacheIInv, idequeue # <<>>
  PROVE  /\ ActiveRequest \in Bufs /\ blockno[ActiveRequest] \in DiskBlocks
         /\ \E p \in Threads : bpc[p] = "disk" /\ buf[p] = ActiveRequest
<1>1. idequeue \in Seq(Bufs)
  BY DEF CacheIInv, CacheInv, CacheTypeOK
<1>2. ActiveRequest = idequeue[1] /\ 1 \in DOMAIN idequeue /\ idequeue[1] \in Bufs
  BY <1>1 DEF ActiveRequest
<1>3. \E p \in Threads : bpc[p] = "disk" /\ buf[p] = ActiveRequest
  BY <1>2 DEF CacheIInv, Queued, ToSet
<1>. QED
  BY <1>2, <1>3 DEF CacheIInv, Located

LEMMA IdeIntrKeeps == ASSUME CacheIInv, IdeIntr PROVE CacheIInv'
<1> USE CacheFacts
<1> DEFINE b == ActiveRequest
<1>1. /\ IF dirty[b]
         THEN medium' = [medium EXCEPT ![blockno[b]] = data[b]] /\ UNCHANGED data
         ELSE data' = [data EXCEPT ![b] = medium[blockno[b]]] /\ UNCHANGED medium
      /\ valid' = [valid EXCEPT ![b] = TRUE] /\ dirty' = [dirty EXCEPT ![b] = FALSE]
      /\ bpc' = [p \in Threads |-> IF bpc[p] = "disk" /\ buf[p] = b THEN "use" ELSE bpc[p]]
      /\ idequeue # <<>> /\ idequeue' = Tail(idequeue)
      /\ UNCHANGED <<blockno, refcnt, locked, lru, buf>>
  BY DEF IdeIntr
<1>2. CacheTypeOK /\ CacheInv
  BY DEF CacheIInv, CacheInv
<1>3. b \in Bufs /\ blockno[b] \in DiskBlocks
  BY <1>1, RequestIsUsed
<1>4. PICK p \in Threads : bpc[p] = "disk" /\ buf[p] = b
  BY <1>1, RequestIsUsed
<1>5. b = idequeue[1]
  BY <1>1, <1>2 DEF ActiveRequest, CacheTypeOK
<1> HIDE DEF b
<1>6. locked[b] = p
  BY <1>4 DEF CacheIInv, Locks, Holding
<1>7. \A q \in Threads : bpc'[q] = IF q = p THEN "use" ELSE bpc[q]
  BY <1>1, <1>4, <1>6 DEF CacheIInv, Locks, Holding
<1>8. /\ valid'[b] /\ ~dirty'[b]
      /\ \A c \in Bufs : c # b => valid'[c] = valid[c] /\ dirty'[c] = dirty[c] /\ data'[c] = data[c]
      /\ \A k \in DiskBlocks : k # blockno[b] => medium'[k] = medium[k]
      /\ data'[b] = medium'[blockno[b]]
  BY <1>1, <1>2, <1>3 DEF CacheTypeOK
<1>9. /\ idequeue' \in Seq(Bufs) /\ Len(idequeue') = Len(idequeue) - 1
      /\ \A n \in 1 .. Len(idequeue) - 1 : idequeue'[n] = idequeue[n + 1]
  BY <1>1, <1>2, HeadTailProperties DEF CacheTypeOK
<1>10. /\ DOMAIN idequeue = 1 .. Len(idequeue) /\ Len(idequeue) \in Nat \ {0}
       /\ DOMAIN idequeue' = 1 .. Len(idequeue) - 1
  BY <1>1, <1>2, <1>9, LenProperties DEF CacheTypeOK
<1>11. CacheInv'
  <2>1. CacheTypeOK'
    <3>1. data' \in [Bufs -> BlockValue] /\ medium' \in [DiskBlocks -> BlockValue]
      <4>1. /\ data \in [Bufs -> BlockValue] /\ medium \in [DiskBlocks -> BlockValue]
            /\ data[b] \in BlockValue /\ medium[blockno[b]] \in BlockValue
        BY <1>2, <1>3 DEF CacheTypeOK
      <4>2. CASE dirty[b]
        BY <1>1, <4>1, <4>2
      <4>3. CASE ~dirty[b]
        BY <1>1, <4>1, <4>3
      <4>. QED
        BY <4>2, <4>3
    <3>2. bpc' \in [Threads -> {"idle", "lock", "asleep", "iderw", "disk", "use", "release", "brelse"}]
      BY <1>1, <1>2 DEF CacheTypeOK
    <3>. QED
      BY <1>1, <1>2, <1>9, <3>1, <3>2 DEF CacheTypeOK
  <2>. QED
    BY <1>1, <1>2, <1>7, <2>1 DEF CacheInv
<1>12. Located'
  BY <1>1, <1>4, <1>7 DEF CacheIInv, Located
<1>13. Locks'
  BY <1>1, <1>2, <1>4, <1>6, <1>7 DEF CacheIInv, Locks, Holding, CacheTypeOK
<1>14. Queued'
  <2>1. \A m, n \in 1 .. Len(idequeue) : idequeue[m] = idequeue[n] => m = n
    BY <1>10 DEF CacheIInv, Queued
  <2>2. \A m, n \in DOMAIN idequeue' : idequeue'[m] = idequeue'[n] => m = n
    <3> TAKE m, n \in DOMAIN idequeue'
    <3> HAVE idequeue'[m] = idequeue'[n]
    <3>1. m + 1 \in 1 .. Len(idequeue) /\ n + 1 \in 1 .. Len(idequeue)
      BY <1>10
    <3>2. idequeue[m + 1] = idequeue[n + 1]
      BY <1>9, <1>10
    <3>. QED
      BY <1>10, <2>1, <3>1, <3>2
  <2>3. ToSet(idequeue') = ToSet(idequeue) \ {b}
    <3>1. ASSUME NEW n \in DOMAIN idequeue'
          PROVE  idequeue'[n] \in ToSet(idequeue) /\ idequeue'[n] # b
      <4>1. n + 1 \in 1 .. Len(idequeue) /\ n + 1 # 1 /\ 1 \in 1 .. Len(idequeue)
        BY <1>10
      <4>. QED
        BY <1>5, <1>9, <1>10, <2>1, <4>1 DEF ToSet
    <3>2. ASSUME NEW n \in DOMAIN idequeue, idequeue[n] # b
          PROVE  idequeue[n] \in ToSet(idequeue')
      <4>1. n # 1
        BY <1>5, <3>2
      <4>2. n - 1 \in 1 .. Len(idequeue) - 1 /\ n - 1 + 1 = n
        BY <1>10, <4>1
      <4>3. idequeue'[n - 1] = idequeue[n]
        BY <1>9, <4>2
      <4>. QED
        BY <1>10, <4>2, <4>3 DEF ToSet
    <3>. QED
      BY <3>1, <3>2 DEF ToSet
  <2>4. ASSUME NEW c \in Bufs
        PROVE  c \in ToSet(idequeue') <=> \E q \in Threads : bpc'[q] = "disk" /\ buf'[q] = c
    <3>1. c # b => (\E q \in Threads : bpc'[q] = "disk" /\ buf'[q] = c) <=>
                   (\E q \in Threads : bpc[q] = "disk" /\ buf[q] = c)
      BY <1>1, <1>4, <1>7
    <3>2. \A q \in Threads : bpc'[q] = "disk" => buf'[q] # b
      BY <1>1
    <3>. QED
      BY <2>3, <3>1, <3>2 DEF CacheIInv, Queued
  <2>. QED
    BY <2>2, <2>4 DEF Queued
<1>15. Contents'
  <2>1. ASSUME NEW c \in Bufs
        PROVE  /\ valid'[c] => blockno'[c] \in DiskBlocks
               /\ dirty'[c] => valid'[c]
               /\ valid'[c] /\ ~dirty'[c] => data'[c] = medium'[blockno'[c]]
    <3>1. CASE c = b
      BY <1>1, <1>3, <1>8, <3>1
    <3>2. CASE c # b
      <4>1. valid[c] => blockno[c] \in DiskBlocks /\ blockno[c] # blockno[b]
        BY <1>2, <1>3, <3>2 DEF CacheIInv, Contents, CacheInv
      <4>. QED
        BY <1>1, <1>8, <3>2, <4>1 DEF CacheIInv, Contents
    <3>. QED
      BY <3>1, <3>2
  <2>2. ASSUME NEW q \in Threads, bpc'[q] \in {"use", "release"} PROVE valid'[buf'[q]]
    <3>1. CASE q = p
      BY <1>1, <1>4, <1>8, <3>1
    <3>2. CASE q # p
      <4>1. bpc[q] \in {"use", "release"} /\ buf[q] \in Bufs /\ valid[buf[q]]
        BY <1>7, <2>2, <3>2 DEF CacheIInv, Contents, Located
      <4>. QED
        BY <1>1, <1>8, <4>1
    <3>. QED
      BY <3>1, <3>2
  <2>. QED
    BY <2>1, <2>2 DEF Contents
<1>16. Settled' = Settled
  BY <1>1, <1>4, <1>7, <1>8 DEF Settled
<1>. QED
  BY <1>11, <1>12, <1>13, <1>14, <1>15, <1>16 DEF CacheIInv, FewSettled

-----------------------------------------------------------------------------
(* Writing to a buffer and giving it back *)

\* A buffer that is settled is not queued.
LEMMA SettledArePinned ==
  ASSUME CacheIInv
  PROVE  /\ Settled \subseteq Pinned /\ IsFiniteSet(Pinned) /\ IsFiniteSet(Settled)
         /\ Cardinality(Pinned) \in Nat /\ Cardinality(Settled) \in Nat
         /\ Cardinality(Settled) <= Cardinality(Pinned)
<1>1. Settled \subseteq Pinned
  BY DEF CacheIInv, Queued, Settled, Pinned
<1>2. IsFiniteSet(Pinned)
  BY CacheFacts, FS_Subset DEF Pinned
<1>. QED
  BY <1>1, <1>2, FS_Subset, FS_CardinalityType

\* Who writes to the buffer it has locked: data and dirty bit are changed, and it goes on.
LEMMA WriteKeeps ==
  ASSUME CacheIInv, NEW p \in Threads, NEW v \in BlockValue, NEW l \in {"release", "iderw"},
         bpc[p] = "use", bpc' = [bpc EXCEPT ![p] = l],
         data' = [data EXCEPT ![buf[p]] = v], dirty' = [dirty EXCEPT ![buf[p]] = TRUE],
         UNCHANGED <<blockno, refcnt, valid, locked, lru, idequeue, medium, buf>>
  PROVE  /\ CacheInv' /\ Located' /\ Locks' /\ Queued' /\ Contents'
         /\ Settled' = IF l = "release" THEN Settled \cup {buf[p]} ELSE Settled \ {buf[p]}
<1> USE CacheFacts
<1> DEFINE b == buf[p]
<1>1. CacheTypeOK /\ CacheInv /\ b \in Bufs /\ locked[b] = p /\ valid[b]
  BY DEF CacheIInv, CacheInv, Located, Locks, Holding, Contents
<1>2. bpc'[p] = l /\ \A q \in Threads : q # p => bpc'[q] = bpc[q]
  BY <1>1 DEF CacheTypeOK
<1>3. dirty'[b] /\ \A c \in Bufs : c # b => data'[c] = data[c] /\ dirty'[c] = dirty[c]
  BY <1>1 DEF CacheTypeOK
<1>4. CacheInv'
  <2>1. CacheTypeOK'
    BY <1>1 DEF CacheTypeOK
  <2>. QED
    BY <1>1, <1>2, <2>1 DEF CacheInv
<1>5. Located' /\ Queued'
  BY <1>2 DEF CacheIInv, Located, Queued
<1>6. Locks'
  BY <1>1, <1>2 DEF CacheIInv, Locks, Holding, CacheTypeOK
<1>7. Contents'
  BY <1>1, <1>2, <1>3 DEF CacheIInv, Contents
<1>8. \A q \in Threads : buf[q] = b => q = p \/ bpc[q] \notin {"iderw", "disk"}
  BY <1>1 DEF CacheIInv, Locks, Holding
<1>9. ASSUME NEW c \in Bufs
      PROVE  c \in Settled' <=> IF c = b THEN l = "release" ELSE c \in Settled
  <2>1. CASE c = b
    BY <1>2, <1>3, <1>8, <2>1 DEF Settled
  <2>2. CASE c # b
    BY <1>2, <1>3, <2>2 DEF Settled
  <2>. QED
    BY <2>1, <2>2
<1>10. Settled' \subseteq Bufs /\ Settled \subseteq Bufs
  BY DEF Settled
<1>11. Settled' = IF l = "release" THEN Settled \cup {b} ELSE Settled \ {b}
  BY <1>1, <1>9, <1>10
<1>. QED
  BY <1>4, <1>5, <1>6, <1>7, <1>11

LEMMA WriteLoggedKeeps ==
  ASSUME CacheIInv, NEW p \in Threads, NEW v \in Changed, WriteLogged(p, v)
  PROVE  CacheIInv'
<1>1. /\ bpc[p] = "use" /\ bpc' = [bpc EXCEPT ![p] = "release"]
      /\ data' = [data EXCEPT ![buf[p]] = v] /\ dirty' = [dirty EXCEPT ![buf[p]] = TRUE]
      /\ UNCHANGED <<blockno, refcnt, valid, locked, lru, idequeue, medium, buf>>
      /\ dirty[buf[p]] \/ Cardinality(Pinned) < MaxPinned
  BY DEF WriteLogged, BufGoto
<1>2. v \in BlockValue
  BY CacheFacts
<1>3. /\ CacheInv' /\ Located' /\ Locks' /\ Queued' /\ Contents'
      /\ Settled' = Settled \cup {buf[p]}
  BY <1>1, <1>2, WriteKeeps
<1>4. FewSettled'
  <2>1. CASE dirty[buf[p]]
    <3>1. buf[p] \in Bufs /\ locked[buf[p]] = p
      BY <1>1 DEF CacheIInv, Located, Locks, Holding
    <3>2. buf[p] \in Settled
      BY <1>1, <2>1, <3>1 DEF CacheIInv, Locks, Holding, Settled
    <3>3. Settled' = Settled
      BY <1>3, <3>2
    <3>. QED
      BY <3>3, CacheFacts DEF CacheIInv, FewSettled
  <2>2. CASE Cardinality(Pinned) < MaxPinned
    <3>1. Cardinality(Settled \cup {buf[p]}) <= Cardinality(Settled) + 1
      <4>1. Cardinality(Settled \cup {buf[p]}) =
              IF buf[p] \in Settled THEN Cardinality(Settled) ELSE Cardinality(Settled) + 1
        BY SettledArePinned, FS_AddElement
      <4>. QED
        BY <4>1, SettledArePinned
    <3>2. Cardinality(Settled \cup {buf[p]}) \in Nat
      BY SettledArePinned, FS_AddElement, FS_CardinalityType
    <3>. QED
      BY <1>3, <2>2, <3>1, <3>2, SettledArePinned, CacheFacts DEF FewSettled
  <2>. QED
    BY <1>1, <2>1, <2>2
<1>. QED
  BY <1>3, <1>4 DEF CacheIInv

LEMMA BwriteKeeps ==
  ASSUME CacheIInv, NEW p \in Threads, NEW v \in Changed, Bwrite(p, v)
  PROVE  CacheIInv'
<1>1. /\ bpc[p] = "use" /\ bpc' = [bpc EXCEPT ![p] = "iderw"]
      /\ data' = [data EXCEPT ![buf[p]] = v] /\ dirty' = [dirty EXCEPT ![buf[p]] = TRUE]
      /\ UNCHANGED <<blockno, refcnt, valid, locked, lru, idequeue, medium, buf>>
  BY DEF Bwrite, BufGoto
<1>2. v \in BlockValue
  BY CacheFacts
<1>3. /\ CacheInv' /\ Located' /\ Locks' /\ Queued' /\ Contents'
      /\ Settled' = Settled \ {buf[p]}
  BY <1>1, <1>2, WriteKeeps
<1>4. /\ Cardinality(Settled \ {buf[p]}) <= Cardinality(Settled)
      /\ Cardinality(Settled \ {buf[p]}) \in Nat
  BY SettledArePinned, FS_Subset, FS_CardinalityType
<1>5. FewSettled'
  BY <1>3, <1>4, SettledArePinned, CacheFacts DEF CacheIInv, FewSettled
<1>. QED
  BY <1>3, <1>5 DEF CacheIInv

LEMMA ReleaseSleepKeeps ==
  ASSUME CacheIInv, NEW p \in Threads, ReleaseSleep(p)
  PROVE  CacheIInv'
<1> USE CacheFacts
<1> DEFINE b == buf[p]
<1>1. /\ bpc[p] \in {"use", "release"} /\ locked' = [locked EXCEPT ![b] = None]
      /\ bpc' = [q \in Threads |-> IF q = p THEN "brelse"
                                   ELSE IF bpc[q] = "asleep" /\ buf[q] = b THEN "lock" ELSE bpc[q]]
      /\ UNCHANGED <<blockno, refcnt, valid, dirty, data, lru, idequeue, medium, buf>>
  BY DEF ReleaseSleep, bufs
<1>2. CacheTypeOK /\ CacheInv /\ b \in Bufs /\ locked[b] = p
  BY <1>1 DEF CacheIInv, CacheInv, Located, Locks, Holding
<1>3. /\ bpc'[p] = "brelse"
      /\ \A q \in Threads : q # p => bpc'[q] = bpc[q] \/ (bpc[q] = "asleep" /\ bpc'[q] = "lock")
      /\ \A q \in Threads : bpc'[q] = "asleep" => bpc[q] = "asleep" /\ buf[q] # b
      /\ locked'[b] = None /\ \A c \in Bufs : c # b => locked'[c] = locked[c]
  BY <1>1, <1>2 DEF CacheTypeOK
<1>4. CacheInv'
  <2>1. CacheTypeOK'
    <3>1. bpc' \in [Threads -> {"idle", "lock", "asleep", "iderw", "disk", "use", "release", "brelse"}]
      BY <1>1, <1>2 DEF CacheTypeOK
    <3>. QED
      BY <1>1, <1>2, <3>1 DEF CacheTypeOK
  <2>2. ASSUME NEW q \in Threads, bpc'[q] = "asleep" PROVE locked'[buf'[q]] # None
    <3>1. bpc[q] = "asleep" /\ buf[q] # b /\ buf[q] \in Bufs /\ locked[buf[q]] # None
      BY <1>2, <1>3, <2>2 DEF CacheIInv, CacheInv, Located
    <3>. QED
      BY <1>1, <1>3, <3>1
  <2>. QED
    BY <1>1, <1>2, <2>1, <2>2 DEF CacheInv
<1>5. Located'
  BY <1>1, <1>3 DEF CacheIInv, Located
<1>6. \A q \in Threads : bpc'[q] \in Holding => q # p /\ bpc[q] = bpc'[q]
  BY <1>3 DEF Holding
<1>7. Locks'
  <2>1. ASSUME NEW q \in Threads, bpc'[q] \in Holding PROVE locked'[buf'[q]] = q
    <3>1. q # p /\ bpc[q] \in Holding /\ buf[q] \in Bufs /\ locked[buf[q]] = q
      BY <1>6, <2>1 DEF CacheIInv, Locks, Located, Holding
    <3>. QED
      BY <1>1, <1>2, <1>3, <3>1
  <2>2. ASSUME NEW c \in Bufs, locked'[c] # None
        PROVE  bpc'[locked'[c]] \in Holding /\ buf'[locked'[c]] = c
    <3>1. c # b /\ locked'[c] = locked[c] /\ locked[c] \in Threads
      BY <1>2, <1>3, <2>2 DEF CacheTypeOK
    <3>2. bpc[locked[c]] \in Holding /\ buf[locked[c]] = c
      BY <2>2, <3>1 DEF CacheIInv, Locks
    <3>3. locked[c] # p
      BY <3>1, <3>2
    <3>. QED
      BY <1>1, <1>3, <3>1, <3>2, <3>3 DEF Holding
  <2>. QED
    BY <2>1, <2>2 DEF Locks
<1>8. Queued'
  BY <1>1, <1>3 DEF CacheIInv, Queued
<1>9. Contents'
  BY <1>1, <1>3 DEF CacheIInv, Contents
<1>10. Settled' = Settled
  BY <1>1, <1>3 DEF Settled
<1>. QED
  BY <1>4, <1>5, <1>7, <1>8, <1>9, <1>10 DEF CacheIInv, FewSettled

LEMMA BrelseKeeps ==
  ASSUME CacheIInv, NEW p \in Threads, Brelse(p)
  PROVE  CacheIInv'
<1> USE CacheFacts
<1> DEFINE b == buf[p]
<1>1. /\ bpc[p] = "brelse" /\ refcnt' = [refcnt EXCEPT ![b] = @ - 1]
      /\ lru' = lru \/ lru' = MovedToFront(b)
      /\ buf' = [buf EXCEPT ![p] = None] /\ bpc' = [bpc EXCEPT ![p] = "idle"]
      /\ UNCHANGED <<blockno, valid, dirty, data, locked, idequeue, medium>>
  BY DEF Brelse, BufGoto
<1>2. CacheTypeOK /\ CacheInv /\ b \in Bufs
  BY <1>1 DEF CacheIInv, CacheInv, Located
<1>3. /\ \A q \in Threads : q # p => bpc'[q] = bpc[q] /\ buf'[q] = buf[q]
      /\ bpc'[p] = "idle" /\ buf'[p] = None
  BY <1>1, <1>2 DEF CacheTypeOK
<1>4. CacheInv'
  <2>1. /\ \A c \in Bufs : refcnt'[c] = Cardinality({q \in Threads : buf'[q] = c})
        /\ refcnt' \in [Bufs -> Nat]
    BY <1>1, <1>2, UserLeaves
  <2>2. lru' \in Seq(Bufs) /\ ToSet(lru') = Bufs /\ Len(lru') = NBUF
    <3>1. lru \in Seq(Bufs) /\ ToSet(lru) = Bufs /\ Len(lru) = NBUF
      BY <1>2 DEF CacheInv, CacheTypeOK
    <3>2. /\ MovedToFront(b) \in Seq(Bufs) /\ ToSet(MovedToFront(b)) = Bufs
          /\ Len(MovedToFront(b)) = NBUF
      BY <1>2, <3>1, MovedKeepsList
    <3>3. CASE lru' = lru
      BY <3>1, <3>3
    <3>4. CASE lru' = MovedToFront(b)
      BY <3>2, <3>4
    <3>. QED
      BY <1>1, <3>3, <3>4
  <2>3. CacheTypeOK'
    BY <1>1, <1>2, <2>1, <2>2 DEF CacheTypeOK
  <2>. QED
    BY <1>1, <1>2, <1>3, <2>1, <2>2, <2>3 DEF CacheInv
<1>5. Located'
  BY <1>1, <1>3 DEF CacheIInv, Located
<1>6. Locks'
  BY <1>1, <1>2, <1>3 DEF CacheIInv, Locks, Holding, CacheTypeOK
<1>7. Queued'
  BY <1>1, <1>3 DEF CacheIInv, Queued
<1>8. Contents'
  BY <1>1, <1>3 DEF CacheIInv, Contents
<1>9. Settled' = Settled
  BY <1>1, <1>3 DEF Settled
<1>. QED
  BY <1>4, <1>5, <1>6, <1>7, <1>8, <1>9 DEF CacheIInv, FewSettled

-----------------------------------------------------------------------------
LEMMA CacheInvNext == CacheIInv /\ [CacheNext]_cacheVars => CacheIInv'
<1> SUFFICES ASSUME CacheIInv, [CacheNext]_cacheVars PROVE CacheIInv'
  OBVIOUS
<1>1. ASSUME NEW p \in Threads, NEW k \in Asked[p] PROVE k \in DiskBlocks
  BY BufferCacheAssumption
<1>2. CASE UNCHANGED cacheVars
  <2>1. CacheInv' /\ Located' /\ Locks'
    BY <1>2 DEF cacheVars, bufs, CacheIInv, CacheInv, CacheTypeOK, Located, Locks
  <2>2. Queued' /\ Contents' /\ Settled' = Settled
    BY <1>2 DEF cacheVars, bufs, CacheIInv, Queued, Contents, Settled
  <2>. QED
    BY <2>1, <2>2 DEF CacheIInv, FewSettled
<1>. QED
  BY <1>1, <1>2, BgetCachedKeeps, BgetRecycleKeeps, AcquireSleepKeeps, IderwKeeps, IdeIntrKeeps,
     WriteLoggedKeeps, BwriteKeeps, ReleaseSleepKeeps, BrelseKeeps DEF CacheNext, CacheStep

LEMMA CacheInvariant == CacheSpec => []CacheIInv
BY CacheInvInit, CacheInvNext, PTL DEF CacheSpec

\* Every process has at most one buffer, those that are settled are few: one is left.
LEMMA OneIsLeft == CacheIInv => BufferLeft
<1> SUFFICES ASSUME CacheIInv, EnoughBuffers, NEW p \in Threads, bpc[p] = "idle", Recyclable = {}
             PROVE  FALSE
  BY DEF BufferLeft
<1> USE CacheFacts DEF EnoughBuffers
<1> DEFINE Others == Threads \ {p}
           Held == {buf[q] : q \in Others}
<1>1. CacheInv /\ CacheTypeOK /\ buf[p] = None
  BY DEF CacheIInv, CacheInv, Located
<1>2. Bufs \subseteq Settled \cup Held
  <2> SUFFICES ASSUME NEW b \in Bufs, b \notin Settled PROVE b \in Held
    OBVIOUS
  <2>1. refcnt[b] # 0 \/ dirty[b]
    BY DEF Recyclable
  <2>2. \E q \in Threads : buf[q] = b
    <3>1. CASE refcnt[b] # 0
      <4>1. Cardinality(Using(b)) # 0
        BY <1>1, <3>1 DEF CacheInv, Using
      <4>2. Using(b) # {}
        BY <4>1, FS_EmptySet
      <4>. QED
        BY <4>2 DEF Using
    <3>2. CASE dirty[b]
      BY <3>2 DEF Settled
    <3>. QED
      BY <2>1, <3>1, <3>2
  <2>. QED
    BY <1>1, <2>2
<1>3. IsFiniteSet(Others) /\ Cardinality(Others) = Cardinality(Threads) - 1
  BY FS_RemoveElement
<1>4. IsFiniteSet(Held) /\ Cardinality(Held) <= Cardinality(Threads) - 1
  <2> DEFINE f == [q \in Others |-> buf[q]]
  <2>1. f \in Surjection(Others, Held)
    BY DEF Surjection
  <2> HIDE DEF f, Others, Held
  <2>. QED
    BY <1>3, <2>1, FS_Surjection
<1>5. IsFiniteSet(Settled) /\ Cardinality(Settled) <= MaxPinned
  BY SettledArePinned DEF CacheIInv, FewSettled
<1> HIDE DEF Held, Others
<1>6. /\ IsFiniteSet(Settled \cup Held)
      /\ Cardinality(Settled \cup Held) <= Cardinality(Settled) + Cardinality(Held)
  <2>1. IsFiniteSet(Settled \cap Held)
    BY <1>5, FS_Intersection
  <2>2. /\ Cardinality(Settled \cap Held) \in Nat /\ Cardinality(Settled) \in Nat
        /\ Cardinality(Held) \in Nat
    BY <1>4, <1>5, <2>1, FS_CardinalityType
  <2>3. /\ IsFiniteSet(Settled \cup Held)
        /\ Cardinality(Settled \cup Held) =
             Cardinality(Settled) + Cardinality(Held) - Cardinality(Settled \cap Held)
    BY <1>4, <1>5, FS_Union
  <2>. QED
    BY <2>2, <2>3
<1>7. Cardinality(Bufs) <= Cardinality(Settled \cup Held)
  BY <1>2, <1>6, FS_Subset
<1>8. /\ Cardinality(Settled \cup Held) \in Nat
      /\ Cardinality(Settled) \in Nat /\ Cardinality(Held) \in Nat
  BY <1>4, <1>5, <1>6, FS_CardinalityType
<1>. QED
  BY <1>4, <1>5, <1>6, <1>7, <1>8

-----------------------------------------------------------------------------
(* The cache implements a store of blocks *)

OneOf(users) == CHOOSE p \in users : TRUE

Owner(k) == IF Users(k) = {} THEN None ELSE OneOf(Users(k))

\* A block has one user at a time.
LEMMA OwnerIsUser ==
  ASSUME CacheIInv, NEW k \in DiskBlocks, NEW p \in Users(k)
  PROVE  Owner(k) = p /\ Users(k) = {p}
<1>1. ASSUME NEW q \in Users(k) PROVE q = p
  <2>1. /\ p \in Threads /\ q \in Threads /\ bpc[p] \in Holding /\ bpc[q] \in Holding
        /\ blockno[buf[p]] = k /\ blockno[buf[q]] = k
    BY <1>1 DEF Users, Holding
  <2>2. buf[p] \in Bufs /\ buf[q] \in Bufs
    BY <2>1 DEF CacheIInv, Located, Holding
  <2>3. buf[p] = buf[q]
    BY <2>1, <2>2, CacheFacts DEF CacheIInv, CacheInv
  <2>. QED
    BY <2>1, <2>3 DEF CacheIInv, Locks
<1>. QED
  <2>1. Users(k) = {p}
    BY <1>1
  <2>2. OneOf({p}) = p
    BY DEF OneOf
  <2>. QED
    BY <2>1, <2>2 DEF Owner

\* The content of a block is in its buffer when that is valid.
ContentKnown ==
  \A k \in DiskBlocks :
    /\ Content(k) \in BlockValue
    /\ \A b \in Bufs : blockno[b] = k => Content(k) = IF valid[b] THEN data[b] ELSE medium[k]
    /\ (\A b \in Bufs : blockno[b] # k) => Content(k) = medium[k]

LEMMA ContentIs == CacheIInv => ContentKnown
<1> SUFFICES ASSUME CacheIInv, NEW k \in DiskBlocks
             PROVE  /\ Content(k) \in BlockValue
                    /\ \A b \in Bufs : blockno[b] = k =>
                          Content(k) = IF valid[b] THEN data[b] ELSE medium[k]
                    /\ (\A b \in Bufs : blockno[b] # k) => Content(k) = medium[k]
  BY DEF ContentKnown
<1>1. /\ data \in [Bufs -> BlockValue] /\ medium \in [DiskBlocks -> BlockValue]
      /\ \A b, c \in Bufs : blockno[b] # None /\ blockno[b] = blockno[c] => b = c
  BY DEF CacheIInv, CacheInv, CacheTypeOK
<1>2. ASSUME NEW b \in Bufs, blockno[b] = k
      PROVE  Content(k) = IF valid[b] THEN data[b] ELSE medium[k]
  <2>1. Cached(k) = {b}
    BY <1>1, <1>2, CacheFacts DEF Cached
  <2>2. (CHOOSE c \in Cached(k) : TRUE) = b
    BY <2>1
  <2>. QED
    BY <2>1, <2>2 DEF Content
<1>3. ASSUME \A b \in Bufs : blockno[b] # k PROVE Content(k) = medium[k]
  BY <1>3 DEF Content, Cached
<1>. QED
  BY <1>1, <1>2, <1>3

LEMMA StoreInit == CacheInit => Store!Init
<1> SUFFICES ASSUME CacheInit PROVE Store!Init
  OBVIOUS
<1>1. CacheIInv
  BY CacheInvInit
<1>2. \A k \in DiskBlocks : Content(k) \in BlockValue
  BY <1>1, ContentIs DEF ContentKnown
<1>3. \A k \in DiskBlocks : Users(k) = {}
  BY DEF CacheInit, Users
<1>. QED
  BY <1>2, <1>3 DEF Store!Init

\* Nothing that the store knows of has changed.
LEMMA StoreStutters ==
  ASSUME \A k \in DiskBlocks : Content(k)' = Content(k),
         \A k \in DiskBlocks : Users(k)' = Users(k)
  PROVE  UNCHANGED Store!vars
<1>1. [k \in DiskBlocks |-> Content(k)'] = [k \in DiskBlocks |-> Content(k)]
  OBVIOUS
<1>2. \A k \in DiskBlocks : Owner(k)' = Owner(k)
  BY DEF Owner
<1>3. [k \in DiskBlocks |-> Owner(k)'] = [k \in DiskBlocks |-> Owner(k)]
  BY <1>2
<1>. QED
  BY <1>1, <1>3 DEF Store!vars, Owner, OneOf

\* The content of blocks that are neither read, nor written, nor moved in the cache.
LEMMA ContentStays ==
  ASSUME UNCHANGED <<blockno, valid, data, medium>>, NEW k \in DiskBlocks
  PROVE  Content(k)' = Content(k)
BY DEF Content, Cached

\* Somebody else moves in the cache, or does not yet have the lock, or has it no more.
LEMMA UsersStay ==
  ASSUME NEW k \in DiskBlocks,
         \A q \in Threads : bpc[q] \in Holding \/ bpc'[q] \in Holding =>
           /\ bpc[q] \in Holding /\ bpc'[q] \in Holding
           /\ blockno'[buf'[q]] = blockno[buf[q]]
  PROVE  Users(k)' = Users(k)
BY DEF Users, Holding

LEMMA StoreBgetCached ==
  ASSUME CacheIInv, NEW p \in Threads, NEW k \in DiskBlocks, BgetCached(p, k)
  PROVE  UNCHANGED Store!vars
<1>1. /\ bpc[p] = "idle" /\ bpc' = [bpc EXCEPT ![p] = "lock"]
      /\ \E b \in Bufs : buf' = [buf EXCEPT ![p] = b]
      /\ UNCHANGED <<blockno, valid, data, medium>>
  BY DEF BgetCached, Cached, BufGoto
<1>2. \A q \in Threads : q # p => bpc'[q] = bpc[q] /\ buf'[q] = buf[q]
  BY <1>1 DEF CacheIInv, CacheInv, CacheTypeOK
<1>3. bpc'[p] = "lock"
  BY <1>1 DEF CacheIInv, CacheInv, CacheTypeOK
<1>4. \A j \in DiskBlocks : Users(j)' = Users(j)
  BY <1>1, <1>2, <1>3, UsersStay DEF Holding
<1>. QED
  BY <1>1, <1>4, ContentStays, StoreStutters

\* What is recycled was as it is on disk, or not valid.
LEMMA StoreBgetRecycle ==
  ASSUME CacheIInv, CacheIInv', NEW p \in Threads, NEW k \in DiskBlocks, BgetRecycle(p, k)
  PROVE  UNCHANGED Store!vars
<1> DEFINE b == Victim
<1>1. /\ blockno' = [blockno EXCEPT ![b] = k] /\ valid' = [valid EXCEPT ![b] = FALSE]
      /\ buf' = [buf EXCEPT ![p] = b]
      /\ bpc[p] = "idle" /\ bpc' = [bpc EXCEPT ![p] = "lock"]
      /\ UNCHANGED <<dirty, data, locked, lru, idequeue, medium>>
      /\ \A c \in Bufs : blockno[c] # k
  BY DEF BgetRecycle, Cached, BufGoto
<1>2. CacheTypeOK /\ CacheInv
  BY DEF CacheIInv, CacheInv
<1>3. b \in Bufs /\ refcnt[b] = 0 /\ ~dirty[b]
  <2>1. Victim \in Recyclable /\ Victim \in Bufs
    BY <1>2, VictimIsFree DEF BgetRecycle, CacheInv, CacheTypeOK
  <2>. QED
    BY <2>1 DEF Recyclable
<1> HIDE DEF b
<1>4. \A q \in Threads : buf[q] # b
  BY <1>2, <1>3, NobodyUses
<1>5. /\ \A q \in Threads : q # p => bpc'[q] = bpc[q] /\ buf'[q] = buf[q]
      /\ bpc'[p] = "lock"
      /\ \A c \in Bufs : c # b => blockno'[c] = blockno[c] /\ valid'[c] = valid[c]
      /\ blockno'[b] = k /\ ~valid'[b]
  BY <1>1, <1>2, <1>3 DEF CacheTypeOK
<1>6. \A j \in DiskBlocks : Users(j)' = Users(j)
  <2>1. \A q \in Threads : bpc[q] \in Holding => buf[q] \in Bufs
    BY DEF CacheIInv, Located, Holding
  <2>2. \A q \in Threads : bpc[q] \in Holding \/ bpc'[q] \in Holding =>
           /\ bpc[q] \in Holding /\ bpc'[q] \in Holding
           /\ blockno'[buf'[q]] = blockno[buf[q]]
    BY <1>1, <1>4, <1>5, <2>1 DEF Holding
  <2>. QED
    BY <2>2, UsersStay
<1>7. ASSUME NEW j \in DiskBlocks PROVE Content(j)' = Content(j)
  <2>1. /\ \A c \in Bufs : blockno'[c] = j =>
             Content(j)' = IF valid'[c] THEN data'[c] ELSE medium'[j]
        /\ (\A c \in Bufs : blockno'[c] # j) => Content(j)' = medium'[j]
    <3>1. ContentKnown'
      BY ContentIs, PTL
    <3>. QED
      BY <3>1 DEF ContentKnown
  <2>2. /\ \A c \in Bufs : blockno[c] = j => Content(j) = IF valid[c] THEN data[c] ELSE medium[j]
        /\ (\A c \in Bufs : blockno[c] # j) => Content(j) = medium[j]
    BY ContentIs DEF ContentKnown
  <2>3. CASE j = k
    BY <1>1, <1>3, <1>5, <2>1, <2>2, <2>3
  <2>4. CASE j # k /\ blockno[b] = j
    <3>1. \A c \in Bufs : blockno'[c] # j
      BY <1>2, <1>3, <1>5, <2>4, CacheFacts DEF CacheInv
    <3>2. valid[b] => data[b] = medium[j]
      BY <1>3, <2>4 DEF CacheIInv, Contents
    <3>. QED
      BY <1>1, <1>3, <2>1, <2>2, <2>4, <3>1, <3>2
  <2>5. CASE j # k /\ blockno[b] # j
    <3>1. CASE \E c \in Bufs : blockno[c] = j
      <4>1. PICK c \in Bufs : blockno[c] = j
        BY <3>1
      <4>2. c # b
        BY <2>5, <4>1
      <4>. QED
        BY <1>1, <1>5, <2>1, <2>2, <4>1, <4>2
    <3>2. CASE \A c \in Bufs : blockno[c] # j
      <4>1. \A c \in Bufs : blockno'[c] # j
        BY <1>5, <2>5, <3>2
      <4>. QED
        BY <1>1, <2>1, <2>2, <3>2, <4>1
    <3>. QED
      BY <3>1, <3>2
  <2>. QED
    BY <2>3, <2>4, <2>5
<1>. QED
  BY <1>6, <1>7, StoreStutters

\* Users of j are the same, whoever else comes or goes.
LEMMA UsersSame ==
  ASSUME NEW j \in DiskBlocks,
         \A q \in Threads : bpc[q] \in Holding /\ blockno[buf[q]] = j
                        <=> bpc'[q] \in Holding /\ blockno'[buf'[q]] = j
  PROVE  Users(j)' = Users(j)
BY DEF Users, Holding

ContentMap == [k \in DiskBlocks |-> Content(k)]

OwnerMap == [k \in DiskBlocks |-> Owner(k)]

LEMMA ContentMapChanges ==
  ASSUME NEW k \in DiskBlocks, \A j \in DiskBlocks : j # k => Content(j)' = Content(j)
  PROVE  ContentMap' = [ContentMap EXCEPT ![k] = Content(k)']
<1>1. \A j \in DiskBlocks : Content(j)' = IF j = k THEN Content(k)' ELSE Content(j)
  OBVIOUS
<1>. QED
  BY <1>1 DEF ContentMap

LEMMA OwnerMapChanges ==
  ASSUME NEW k \in DiskBlocks, \A j \in DiskBlocks : j # k => Users(j)' = Users(j)
  PROVE  OwnerMap' = [OwnerMap EXCEPT ![k] = Owner(k)']
<1>1. \A j \in DiskBlocks : j # k => Owner(j)' = Owner(j)
  BY DEF Owner
<1>2. \A j \in DiskBlocks : Owner(j)' = IF j = k THEN Owner(k)' ELSE Owner(j)
  BY <1>1
<1>. QED
  BY <1>2 DEF OwnerMap

LEMMA ContentMapStays ==
  ASSUME \A k \in DiskBlocks : Content(k)' = Content(k)
  PROVE  ContentMap' = ContentMap
BY DEF ContentMap

LEMMA OwnerMapStays ==
  ASSUME \A k \in DiskBlocks : Users(k)' = Users(k)
  PROVE  OwnerMap' = OwnerMap
<1>1. \A k \in DiskBlocks : Owner(k)' = Owner(k)
  BY DEF Owner
<1>. QED
  BY <1>1 DEF OwnerMap

\* The actions of the store, on these two.
LEMMA StoreActions ==
  ASSUME NEW p \in Threads, NEW k \in DiskBlocks
  PROVE  /\ OwnerMap[k] = None /\ OwnerMap' = [OwnerMap EXCEPT ![k] = p]
              /\ ContentMap' = ContentMap => Store!Lock(p, k)
         /\ OwnerMap[k] = p /\ OwnerMap' = [OwnerMap EXCEPT ![k] = None]
              /\ ContentMap' = ContentMap => Store!Unlock(p, k)
         /\ OwnerMap[k] = p /\ OwnerMap' = OwnerMap
              /\ (\E v \in BlockValue : ContentMap' = [ContentMap EXCEPT ![k] = v])
              => Store!Write(p, k)
<1>1. /\ OwnerMap[k] = None /\ OwnerMap' = [OwnerMap EXCEPT ![k] = p]
         /\ ContentMap' = ContentMap => Store!Lock(p, k)
  BY Zenon DEF Store!Lock, OwnerMap, ContentMap, Owner, OneOf
<1>2. /\ OwnerMap[k] = p /\ OwnerMap' = [OwnerMap EXCEPT ![k] = None]
         /\ ContentMap' = ContentMap => Store!Unlock(p, k)
  BY Zenon DEF Store!Unlock, OwnerMap, ContentMap, Owner, OneOf
<1>3. /\ OwnerMap[k] = p /\ OwnerMap' = OwnerMap
         /\ (\E v \in BlockValue : ContentMap' = [ContentMap EXCEPT ![k] = v])
         => Store!Write(p, k)
  BY Zenon DEF Store!Write, OwnerMap, ContentMap, Owner, OneOf
<1>. QED
  BY <1>1, <1>2, <1>3

\* Getting the sleep-lock locks the block; going to sleep is not seen.
LEMMA StoreAcquireSleep ==
  ASSUME CacheIInv, CacheIInv', NEW p \in Threads, AcquireSleep(p)
  PROVE  (\E k \in DiskBlocks : Store!Lock(p, k)) \/ UNCHANGED Store!vars
<1>1. CacheTypeOK
  BY DEF CacheIInv, CacheInv
<1>2. UNCHANGED <<blockno, valid, data, medium, buf>> /\ bpc[p] = "lock"
  BY DEF AcquireSleep, bufs
<1>3. \A j \in DiskBlocks : Content(j)' = Content(j)
  BY <1>2, ContentStays
<1>4. CASE locked[buf[p]] # None
  <2>1. bpc' = [bpc EXCEPT ![p] = "asleep"]
    BY <1>4 DEF AcquireSleep, BufGoto
  <2>2. \A j \in DiskBlocks : Users(j)' = Users(j)
    BY <1>1, <1>2, <2>1, UsersSame DEF Holding, CacheTypeOK
  <2>. QED
    BY <1>3, <2>2, StoreStutters
<1>5. CASE locked[buf[p]] = None
  <2>1. bpc' = [bpc EXCEPT ![p] = IF valid[buf[p]] THEN "use" ELSE "iderw"]
    BY <1>5 DEF AcquireSleep, BufGoto
  <2>2. /\ \A q \in Threads : q # p => bpc'[q] = bpc[q]
        /\ bpc'[p] \in Holding
    BY <1>1, <2>1 DEF CacheTypeOK, Holding
  <2>3. buf[p] \in Bufs
    BY <1>2 DEF CacheIInv, Located
  <2>k. PICK k \in DiskBlocks : blockno[buf[p]] = k
    BY <1>2 DEF CacheIInv, Located
  <2>4. \A j \in DiskBlocks : j # k => Users(j)' = Users(j)
    <3> SUFFICES ASSUME NEW j \in DiskBlocks, j # k PROVE Users(j)' = Users(j)
      OBVIOUS
    <3>1. bpc[p] \notin Holding
      BY <1>2 DEF Holding
    <3>. QED
      BY <1>2, <2>2, <2>k, <3>1, UsersSame
  <2>5. Users(k) = {}
    <3> SUFFICES ASSUME NEW q \in Threads, bpc[q] \in Holding, blockno[buf[q]] = k PROVE FALSE
      BY DEF Users, Holding
    <3>1. buf[q] \in Bufs /\ locked[buf[q]] = q
      BY DEF CacheIInv, Located, Locks, Holding
    <3>2. buf[q] = buf[p]
      BY <2>3, <2>k, <3>1, CacheFacts DEF CacheIInv, CacheInv
    <3>. QED
      BY <1>5, <3>1, <3>2, CacheFacts
  <2>6. Users(k)' = {p}
    <3>1. p \in Users(k)'
      BY <1>2, <2>2, <2>k DEF Users, Holding
    <3>2. \A q \in Users(k)' : q \in Threads /\ (q # p => q \in Users(k))
      BY <1>2, <2>2 DEF Users, Holding
    <3>. QED
      BY <2>5, <3>1, <3>2
  <2>7. OwnerMap[k] = None /\ Owner(k)' = p
    BY <2>3, <2>5, <2>6 DEF OwnerMap, Owner, OneOf
  <2>. QED
    BY <1>3, <2>4, <2>7, OwnerMapChanges, ContentMapStays, StoreActions
<1>. QED
  BY <1>4, <1>5

\* A request is not seen.
LEMMA StoreIderw ==
  ASSUME CacheIInv, NEW p \in Threads, Iderw(p)
  PROVE  UNCHANGED Store!vars
<1>1. /\ UNCHANGED <<blockno, valid, data, medium, buf>>
      /\ bpc[p] = "iderw" /\ bpc' = [bpc EXCEPT ![p] = "disk"]
  BY DEF Iderw, bufs, BufGoto
<1>2. \A j \in DiskBlocks : Users(j)' = Users(j)
  BY <1>1, UsersSame DEF Holding, CacheIInv, CacheInv, CacheTypeOK
<1>. QED
  BY <1>1, <1>2, ContentStays, StoreStutters

LEMMA ContentKnownNext == ASSUME CacheIInv, CacheIInv' PROVE ContentKnown /\ ContentKnown'
BY ContentIs, PTL

\* A block keeps its content when another one's buffer is read or written.
LEMMA OtherContentStays ==
  ASSUME CacheIInv, CacheIInv', NEW b \in Bufs, NEW j \in DiskBlocks, blockno[b] # j,
         blockno' = blockno, medium'[j] = medium[j],
         \A c \in Bufs : c # b => valid'[c] = valid[c] /\ data'[c] = data[c]
  PROVE  Content(j)' = Content(j)
<1>1. /\ \A c \in Bufs : blockno[c] = j => Content(j) = IF valid[c] THEN data[c] ELSE medium[j]
      /\ (\A c \in Bufs : blockno[c] # j) => Content(j) = medium[j]
  BY ContentKnownNext DEF ContentKnown
<1>2. /\ \A c \in Bufs : blockno'[c] = j =>
           Content(j)' = IF valid'[c] THEN data'[c] ELSE medium'[j]
      /\ (\A c \in Bufs : blockno'[c] # j) => Content(j)' = medium'[j]
  BY ContentKnownNext DEF ContentKnown
<1>3. CASE \E c \in Bufs : blockno[c] = j
  <2>1. PICK c \in Bufs : blockno[c] = j
    BY <1>3
  <2>2. c # b
    BY <2>1
  <2>. QED
    BY <1>1, <1>2, <2>1, <2>2
<1>4. CASE \A c \in Bufs : blockno[c] # j
  BY <1>1, <1>2, <1>4
<1>. QED
  BY <1>3, <1>4

\* The disk moves the content between the buffer and itself.
LEMMA StoreIdeIntr ==
  ASSUME CacheIInv, CacheIInv', IdeIntr
  PROVE  UNCHANGED Store!vars
<1>1. PICK b : b = ActiveRequest
  OBVIOUS
<1>2. /\ idequeue # <<>>
      /\ IF dirty[b] THEN medium' = [medium EXCEPT ![blockno[b]] = data[b]] /\ data' = data
                     ELSE data' = [data EXCEPT ![b] = medium[blockno[b]]] /\ medium' = medium
      /\ valid' = [valid EXCEPT ![b] = TRUE]
      /\ bpc' = [p \in Threads |-> IF bpc[p] = "disk" /\ buf[p] = b THEN "use" ELSE bpc[p]]
      /\ blockno' = blockno /\ buf' = buf
  BY <1>1 DEF IdeIntr
<1>3. b \in Bufs /\ \E p \in Threads : bpc[p] = "disk" /\ buf[p] = b
  BY <1>1, <1>2, RequestIsUsed
<1>4. CacheTypeOK
  BY DEF CacheIInv, CacheInv
<1>5. PICK k \in DiskBlocks : blockno[b] = k
  BY <1>3 DEF CacheIInv, Located
<1>6. \A c \in Bufs : c # b => valid'[c] = valid[c] /\ data'[c] = data[c]
  BY <1>2, <1>3, <1>4 DEF CacheTypeOK
<1>7. \A j \in DiskBlocks : j # k => Content(j)' = Content(j)
  <2> SUFFICES ASSUME NEW j \in DiskBlocks, j # k PROVE Content(j)' = Content(j)
    OBVIOUS
  <2>1. medium'[j] = medium[j]
    BY <1>2, <1>4, <1>5 DEF CacheTypeOK
  <2>. QED
    BY <1>2, <1>3, <1>5, <1>6, <2>1, OtherContentStays
<1>8. Content(k)' = Content(k)
  <2>1. Content(k) = IF valid[b] THEN data[b] ELSE medium[k]
    BY <1>3, <1>5, ContentKnownNext DEF ContentKnown
  <2>2. Content(k)' = IF valid'[b] THEN data'[b] ELSE medium'[k]
    BY <1>2, <1>3, <1>5, ContentKnownNext DEF ContentKnown
  <2>3. /\ dirty[b] => valid[b]
        /\ valid[b] /\ ~dirty[b] => data[b] = medium[k]
    BY <1>3, <1>5 DEF CacheIInv, Contents
  <2>4. valid'[b] /\ data'[b] = IF dirty[b] THEN data[b] ELSE medium[k]
    BY <1>2, <1>3, <1>4, <1>5 DEF CacheTypeOK
  <2>. QED
    BY <2>1, <2>2, <2>3, <2>4
<1>9. \A j \in DiskBlocks : Users(j)' = Users(j)
  <2>1. \A q \in Threads : bpc[q] \in Holding <=> bpc'[q] \in Holding
    BY <1>2 DEF Holding
  <2>. QED
    BY <1>2, <2>1, UsersSame
<1>. QED
  BY <1>7, <1>8, <1>9, StoreStutters

\* A write of the buffer is a write of the block.
LEMMA StoreWrite ==
  ASSUME CacheIInv, CacheIInv', NEW p \in Threads, NEW v \in Changed, bpc[p] = "use",
         data' = [data EXCEPT ![buf[p]] = v],
         NEW l \in {"release", "iderw"}, bpc' = [bpc EXCEPT ![p] = l],
         UNCHANGED <<blockno, valid, medium, buf>>
  PROVE  \E k \in DiskBlocks : Store!Write(p, k)
<1>1. CacheTypeOK
  BY DEF CacheIInv, CacheInv
<1>2. buf[p] \in Bufs /\ valid[buf[p]]
  BY DEF CacheIInv, Located, Contents
<1>3. PICK b \in Bufs : b = buf[p]
  BY <1>2
<1>4. PICK k \in DiskBlocks : blockno[b] = k
  BY <1>3 DEF CacheIInv, Located
<1>5. \A c \in Bufs : c # b => valid'[c] = valid[c] /\ data'[c] = data[c]
  BY <1>1, <1>3 DEF CacheTypeOK
<1>6. \A j \in DiskBlocks : j # k => Content(j)' = Content(j)
  BY <1>4, <1>5, OtherContentStays
<1>7. Content(k)' = v /\ v \in BlockValue
  <2>1. Content(k)' = IF valid'[b] THEN data'[b] ELSE medium'[k]
    BY <1>4, ContentKnownNext DEF ContentKnown
  <2>2. valid'[b] /\ data'[b] = v
    BY <1>1, <1>2, <1>3 DEF CacheTypeOK
  <2>. QED
    BY <2>1, <2>2, CacheFacts
<1>8. \A j \in DiskBlocks : Users(j)' = Users(j)
  BY <1>1, UsersSame DEF Holding, CacheTypeOK
<1>9. p \in Users(k)
  BY <1>3, <1>4 DEF Users
<1>10. OwnerMap[k] = p
  BY <1>9, OwnerIsUser DEF OwnerMap
<1>11. ContentMap' = [ContentMap EXCEPT ![k] = v]
  BY <1>6, <1>7, ContentMapChanges
<1>. QED
  BY <1>7, <1>8, <1>10, <1>11, OwnerMapStays, StoreActions

\* Giving the sleep-lock back unlocks the block.
LEMMA StoreReleaseSleep ==
  ASSUME CacheIInv, CacheIInv', NEW p \in Threads, ReleaseSleep(p)
  PROVE  \E k \in DiskBlocks : Store!Unlock(p, k)
<1>1. CacheTypeOK
  BY DEF CacheIInv, CacheInv
<1>2. /\ bpc[p] \in {"use", "release"} /\ UNCHANGED <<blockno, valid, data, medium, buf>>
      /\ bpc' = [q \in Threads |-> IF q = p THEN "brelse"
                   ELSE IF bpc[q] = "asleep" /\ buf[q] = buf[p] THEN "lock" ELSE bpc[q]]
  BY DEF ReleaseSleep, bufs
<1>3. PICK k \in DiskBlocks : blockno[buf[p]] = k
  BY <1>2 DEF CacheIInv, Located
<1>4. p \in Users(k)
  BY <1>2, <1>3 DEF Users
<1>5. OwnerMap[k] = p /\ Users(k) = {p}
  BY <1>4, OwnerIsUser DEF OwnerMap
<1>6. \A q \in Threads : q # p => (bpc'[q] \in Holding <=> bpc[q] \in Holding)
  BY <1>2 DEF Holding
<1>7. bpc'[p] \notin Holding
  BY <1>2 DEF Holding
<1>8. Users(k)' = {}
  <2>1. \A q \in Users(k)' : q \in Threads /\ q # p /\ q \in Users(k)
    BY <1>2, <1>6, <1>7 DEF Users, Holding
  <2>. QED
    BY <1>5, <2>1
<1>9. \A j \in DiskBlocks : j # k => Users(j)' = Users(j)
  <2> SUFFICES ASSUME NEW j \in DiskBlocks, j # k PROVE Users(j)' = Users(j)
    OBVIOUS
  <2>. QED
    BY <1>2, <1>3, <1>6, <1>7, UsersSame
<1>10. Owner(k)' = None
  BY <1>8 DEF Owner
<1>11. \A j \in DiskBlocks : Content(j)' = Content(j)
  BY <1>2, ContentStays
<1>. QED
  BY <1>5, <1>9, <1>10, <1>11, OwnerMapChanges, ContentMapStays, StoreActions

\* Who leaves does not have the lock any more.
LEMMA StoreBrelse ==
  ASSUME CacheIInv, NEW p \in Threads, Brelse(p)
  PROVE  UNCHANGED Store!vars
<1>1. /\ bpc[p] = "brelse" /\ bpc' = [bpc EXCEPT ![p] = "idle"]
      /\ buf' = [buf EXCEPT ![p] = None]
      /\ UNCHANGED <<blockno, valid, data, medium>>
  BY DEF Brelse, BufGoto
<1>2. /\ \A q \in Threads : q # p => bpc'[q] = bpc[q] /\ buf'[q] = buf[q]
      /\ bpc'[p] = "idle"
  BY <1>1 DEF CacheIInv, CacheInv, CacheTypeOK
<1>3. \A j \in DiskBlocks : Users(j)' = Users(j)
  BY <1>1, <1>2, UsersStay DEF Holding
<1>. QED
  BY <1>1, <1>3, ContentStays, StoreStutters

LEMMA StoreNext == CacheIInv /\ CacheIInv' /\ [CacheNext]_cacheVars => [Store!Next]_(Store!vars)
<1> SUFFICES ASSUME CacheIInv, CacheIInv', [CacheNext]_cacheVars
             PROVE  Store!Next \/ UNCHANGED Store!vars
  OBVIOUS
<1>1. ASSUME NEW p \in Threads, NEW k \in Asked[p] PROVE k \in DiskBlocks
  BY BufferCacheAssumption
<1>2. CASE UNCHANGED cacheVars
  <2>1. UNCHANGED <<blockno, valid, data, medium, bpc, buf>>
    BY <1>2 DEF cacheVars, bufs
  <2>2. \A j \in DiskBlocks : Users(j)' = Users(j)
    BY <2>1 DEF Users
  <2>. QED
    BY <2>1, <2>2, ContentStays, StoreStutters
<1>3. ASSUME NEW p \in Threads, CacheStep(p) PROVE Store!Next \/ UNCHANGED Store!vars
  <2>1. CASE AcquireSleep(p)
    BY <2>1, StoreAcquireSleep DEF Store!Next
  <2>2. CASE Iderw(p)
    BY <2>2, StoreIderw
  <2>3. CASE ReleaseSleep(p)
    BY <2>3, StoreReleaseSleep DEF Store!Next
  <2>4. CASE Brelse(p)
    BY <2>4, StoreBrelse
  <2>. QED
    BY <1>3, <2>1, <2>2, <2>3, <2>4 DEF CacheStep
<1>4. ASSUME NEW p \in Threads, NEW k \in Asked[p], BgetCached(p, k) \/ BgetRecycle(p, k)
      PROVE  UNCHANGED Store!vars
  BY <1>1, <1>4, StoreBgetCached, StoreBgetRecycle
<1>5. ASSUME NEW p \in Threads, NEW v \in Changed, WriteLogged(p, v) \/ Bwrite(p, v)
      PROVE  Store!Next
  <2>1. bpc[p] = "use" /\ data' = [data EXCEPT ![buf[p]] = v]
        /\ UNCHANGED <<blockno, valid, medium, buf>>
        /\ \E l \in {"release", "iderw"} : bpc' = [bpc EXCEPT ![p] = l]
    BY <1>5 DEF WriteLogged, Bwrite, BufGoto
  <2>. QED
    BY <2>1, StoreWrite DEF Store!Next
<1>. QED
  BY <1>2, <1>3, <1>4, <1>5, StoreIdeIntr DEF CacheNext

-----------------------------------------------------------------------------
(* What the cache promises *)

\* A block is in one buffer only, every user of a buffer is counted, the list of buffers is
\* whole, nobody sleeps on a lock that is free, and whoever asks for a block finds a buffer
\* ("bget: no buffers" is not reached), if there is one for each process beside the pinned ones.
THEOREM CacheIsRight == CacheSpec => []CacheRight
<1>1. CacheIInv => CacheRight
  BY OneIsLeft DEF CacheIInv, CacheRight
<1>. QED
  BY <1>1, CacheInvariant, PTL

\* Whatever is recycled, queued, written back or pinned in between, a block keeps the
\* content its last user gave it, and has one user at a time.
THEOREM CacheImplementsBlockStore == CacheSpec => ImplementsBlockStore
<1>1. CacheInit => Store!Init
  BY StoreInit
<1>2. CacheIInv /\ CacheIInv' /\ [CacheNext]_cacheVars => [Store!Next]_(Store!vars)
  BY StoreNext
<1> HIDE DEF CacheIInv, CacheInit, CacheNext, cacheVars, Store!Init, Store!Next, Store!vars
<1>. QED
  BY <1>1, <1>2, CacheInvariant, PTL DEF CacheSpec, ImplementsBlockStore, Store!Spec

-----------------------------------------------------------------------------
(* The blocks of the files: the inductive invariant.  Variables have here  *)
(* the names that they have beside those of the log and the cache.           *)

CONSTANTS Writers, Inodes, NBLOCKS, BSIZE, NDIRECT, WrittenWords, CallSizes, MaxWrites
VARIABLES bitmap, words, addrs, size, flock, w, logged, stored, writes, panic

Data == INSTANCE Blocks WITH data <- words, lock <- flock, content <- stored,
  Values <- WrittenWords, Sizes <- CallSizes

IndirectPlace == Data!MAXFILE

\* The number in a place of a file; the last place is the one of the indirect block.
NumberAt(i, q) == IF q = IndirectPlace THEN Data!Indirect(i) ELSE Data!Mapped(i, q)

Word == WrittenWords \cup 0 .. NBLOCKS

BlockTypes ==
  /\ bitmap \subseteq Data!DataBlocks
  /\ addrs \in [Inodes -> [0 .. NDIRECT -> 0 .. NBLOCKS]]
  /\ words \in [Data!DataBlocks -> [0 .. BSIZE - 1 -> Word]]
  /\ size \in [Inodes -> Nat] /\ flock \in [Inodes -> Writers \cup {None}]
  /\ w \in [Writers -> [ino : Inodes \cup {None}, off : Nat, left : Nat, v : Word, n : Nat, tot : Nat]]
  /\ logged \in [Writers -> SUBSET (Data!DataBlocks \cup {0})]
  /\ stored \in [Inodes -> Seq(Word)]

\* A number is in one place, and the blocks in use are those whose number is somewhere.
OnePlace ==
  \A i, j \in Inodes : \A q, r \in 0 .. IndirectPlace :
    NumberAt(i, q) # 0 /\ NumberAt(i, q) = NumberAt(j, r) => i = j /\ q = r

NumbersInUse == \A i \in Inodes, q \in 0 .. IndirectPlace : NumberAt(i, q) \in bitmap \cup {0}

NothingLost == \A b \in bitmap : \E i \in Inodes, q \in 0 .. IndirectPlace : NumberAt(i, q) = b

\* A call that is in a chunk has the file's lock, and nobody else has one.
CallsRight ==
  /\ \A x \in Writers :
       /\ w[x].ino # None => w[x].left > 0
       /\ w[x].n > 0 =>
            /\ w[x].ino \in Inodes /\ flock[w[x].ino] = x
            /\ w[x].tot <= w[x].n /\ w[x].n <= w[x].left /\ w[x].n <= Data!Chunk
            /\ w[x].off <= size[w[x].ino] /\ w[x].off + w[x].n <= Data!MAXFILE * BSIZE
  /\ \A i \in Inodes : flock[i] # None => w[flock[i]].ino = i /\ w[flock[i]].n > 0

\* The words a file has by now, with those the chunk under way has brought.
InFile(i, k) ==
  k < size[i] \/ (flock[i] # None /\ k < w[flock[i]].off + w[flock[i]].tot)

Expected(i, k) ==
  IF flock[i] # None /\ w[flock[i]].off <= k /\ k < w[flock[i]].off + w[flock[i]].tot
  THEN w[flock[i]].v ELSE stored[i][k + 1]

FileRight(i) ==
  /\ Len(stored[i]) = size[i] /\ size[i] <= Data!MAXFILE * BSIZE
  /\ \A k \in Nat : InFile(i, k) =>
       /\ Data!Mapped(i, k \div BSIZE) # 0
       /\ words[Data!Mapped(i, k \div BSIZE)][k % BSIZE] = Expected(i, k)

WordsRight == \A i \in Inodes : FileRight(i)

\* What a chunk has logged: the bitmap, the indirect block, and the blocks of its words.
LoggedFor(i, from, to, b) ==
  \/ b = 0 \/ b = Data!Indirect(i)
  \/ \E k \in from .. to - 1 : b = Data!Mapped(i, k \div BSIZE)

LoggedRight ==
  \A x \in Writers :
    /\ w[x].n = 0 => logged[x] = {}
    /\ \A i \in Inodes, from, to \in Nat :
         w[x].n > 0 /\ i = w[x].ino /\ from = w[x].off /\ to = from + w[x].tot =>
           \A b \in logged[x] : LoggedFor(i, from, to, b)

BlocksInv ==
  /\ BlockTypes /\ OnePlace /\ NumbersInUse /\ NothingLost
  /\ CallsRight /\ WordsRight /\ LoggedRight

-----------------------------------------------------------------------------
(* Numbers *)

LEMMA DivisionType ==
  ASSUME NEW a \in Nat, NEW b \in Nat \ {0}
  PROVE  /\ a % b \in 0 .. b - 1 /\ a \div b \in Nat
         /\ a = b * (a \div b) + (a % b)
OBVIOUS

LEMMA Monotone ==
  ASSUME NEW b \in Nat, NEW x \in Int, NEW y \in Int, x <= y
  PROVE  b * x <= b * y /\ b * x \in Int
OBVIOUS

\* The quotient and the remainder are the only ones there are.
LEMMA DivisionUnique ==
  ASSUME NEW a \in Nat, NEW b \in Nat \ {0}, NEW q \in Nat, NEW r \in 0 .. b - 1, a = b * q + r
  PROVE  a \div b = q /\ a % b = r
<1>1. /\ a % b \in 0 .. b - 1 /\ a \div b \in Nat
      /\ a = b * (a \div b) + (a % b)
  BY DivisionType
<1>2. CASE a \div b < q
  <2>1. b * ((a \div b) + 1) <= b * q /\ b * ((a \div b) + 1) = b * (a \div b) + b
    BY <1>1, <1>2, Monotone
  <2>2. QED
    BY <1>1, <2>1
<1>3. CASE q < a \div b
  <2>1. b * (q + 1) <= b * (a \div b) /\ b * (q + 1) = b * q + b
    BY <1>1, <1>3, Monotone
  <2>2. QED
    BY <1>1, <2>1
<1>4. CASE q = a \div b
  BY <1>1, <1>4
<1>5. QED
  BY <1>1, <1>2, <1>3, <1>4

\* Less than q blocks of words are less than q blocks.
LEMMA DivisionBound ==
  ASSUME NEW a \in Nat, NEW b \in Nat \ {0}, NEW q \in Nat, a < q * b
  PROVE  a \div b < q
<1>1. /\ a % b \in 0 .. b - 1 /\ a \div b \in Nat
      /\ a = b * (a \div b) + (a % b)
  BY DivisionType
<1>2. SUFFICES ASSUME q <= a \div b PROVE FALSE
  BY <1>1
<1>3. b * q <= b * (a \div b) /\ b * q = q * b
  BY <1>1, <1>2, Monotone
<1>4. QED
  BY <1>1, <1>3

\* Where the words of a chunk are in a block that begins at p.
LEMMA OffsetInBlock ==
  ASSUME NEW p \in Nat, NEW a \in Nat, NEW m \in Nat, NEW b \in Nat, NEW k \in Nat, a + m <= b
  PROVE  /\ p + a <= k /\ k < (p + a) + m =>
              /\ a + (k - (p + a)) \in 0 .. b - 1 /\ a + (k - (p + a)) \in a .. a + m - 1
              /\ k = p + (a + (k - (p + a)))
         /\ \A r \in a .. a + m - 1 : k = p + r => p + a <= k /\ k < (p + a) + m
OBVIOUS

LEMMA LowestNumber ==
  ASSUME NEW T \in SUBSET Nat, T # {}
  PROVE  \E x \in T : \A y \in T : x <= y
<1>1. PICK x \in T : \A y \in T : ~(<<y, x>> \in OpToRel(<, Nat))
  BY NatLessThanWellFounded, WFMin, ZenonT(60)
<1>2. \A y \in T : ~(y < x)
  BY <1>1 DEF OpToRel
<1>. QED
  BY <1>2

LEMMA MinOfTwo ==
  ASSUME NEW a \in Nat, NEW b \in Nat
  PROVE  Data!Min({a, b}) = IF a <= b THEN a ELSE b
BY DEF Data!Min

LEMMA MaxOfTwo ==
  ASSUME NEW a \in Nat, NEW b \in Nat
  PROVE  Data!Max({a, b}) = IF a >= b THEN a ELSE b
BY DEF Data!Max

LEMMA CountsAgree == \A S : Data!Cardinality(S) = Cardinality(S)
BY Zenon DEF Cardinality, Data!Cardinality

\* balloc() finds a block that is not in use, and a second one that is another.
LEMMA BlocksFound ==
  ASSUME Data!BlocksAssumption, BlockTypes
  PROVE  LET free == Data!DataBlocks \ bitmap IN
         /\ Cardinality(free) \in Nat
         /\ Cardinality(free) >= 1 => Data!Free(1) \in free
         /\ Cardinality(free) >= 2 => Data!Free(2) \in free /\ Data!Free(1) # Data!Free(2)
<1> DEFINE free == Data!DataBlocks \ bitmap
           Upto(b) == {c \in free : c <= b}
<1>1. IsFiniteSet(free) /\ Cardinality(free) \in Nat /\ free \subseteq Nat
  <2>1. IsFiniteSet(1 .. NBLOCKS)
    BY FS_Interval DEF Data!BlocksAssumption
  <2>2. free \subseteq 1 .. NBLOCKS
    BY DEF Data!DataBlocks
  <2>3. IsFiniteSet(free)
    BY <2>1, <2>2, FS_Subset
  <2>4. QED
    BY <2>2, <2>3, FS_CardinalityType
<1>2. \A k : Data!Free(k) = CHOOSE b \in free : Cardinality(Upto(b)) = k
  BY CountsAgree DEF Data!Free
<1> HIDE DEF free
<1>3. ASSUME Cardinality(free) >= 1
      PROVE  \E a \in free : Upto(a) = {a} /\ \A b \in free : a <= b
  <2>1. free # {}
    BY <1>3, FS_EmptySet
  <2>2. PICK a \in free : \A b \in free : a <= b
    BY <1>1, <2>1, LowestNumber
  <2>3. Upto(a) = {a}
    <3>1. \A c \in free : c <= a => c = a
      BY <1>1, <2>2
    <3>2. a <= a
      BY <1>1
    <3>3. QED
      BY <3>1, <3>2
  <2>4. QED
    BY <2>2, <2>3
<1>4. ASSUME Cardinality(free) >= 2
      PROVE  \E a, b \in free : a # b /\ Upto(b) = {a, b}
  <2>1. PICK a \in free : \A b \in free : a <= b
    BY <1>1, <1>3, <1>4
  <2>2. free \ {a} # {}
    <3>1. SUFFICES ASSUME free = {a} PROVE FALSE
      BY <2>1
    <3>2. Cardinality({a}) = 1
      BY FS_Singleton
    <3>3. QED
      BY <1>4, <3>1, <3>2
  <2>3. free \ {a} \in SUBSET Nat
    BY <1>1
  <2>4. PICK b \in free \ {a} : \A c \in free \ {a} : b <= c
    BY <2>2, <2>3, LowestNumber
  <2>5. Upto(b) = {a, b}
    <3>1. \A c \in free : c <= b => c = a \/ c = b
      BY <1>1, <2>4
    <3>2. QED
      BY <1>1, <2>1, <2>4, <3>1
  <2>6. QED
    BY <2>4, <2>5
<1> HIDE DEF Upto
<1>5. \A a : Cardinality({a}) = 1
  BY FS_Singleton
<1>6. \A a, b : a # b => Cardinality({a, b}) = 2
  <2>1. TAKE a, b
  <2>2. HAVE a # b
  <2>3. IsFiniteSet({a}) /\ b \notin {a}
    BY <2>2, FS_Singleton
  <2>4. Cardinality({a} \cup {b}) = Cardinality({a}) + 1
    BY <2>3, FS_AddElement
  <2>5. {a} \cup {b} = {a, b}
    OBVIOUS
  <2>6. Cardinality({a}) + 1 = 2
    BY <1>5
  <2>7. QED
    BY <2>4, <2>5, <2>6, Zenon
<1>7. Cardinality(free) >= 1 => Data!Free(1) \in free /\ Cardinality(Upto(Data!Free(1))) = 1
  <2>1. HAVE Cardinality(free) >= 1
  <2>2. \E b \in free : Cardinality(Upto(b)) = 1
    BY <1>3, <1>5, <2>1
  <2>3. QED
    BY <1>2, <2>2
<1>8. Cardinality(free) >= 2 => Data!Free(2) \in free /\ Cardinality(Upto(Data!Free(2))) = 2
  <2>1. HAVE Cardinality(free) >= 2
  <2>2. \E b \in free : Cardinality(Upto(b)) = 2
    BY <1>4, <1>6, <2>1
  <2>3. QED
    BY <1>2, <2>2
<1>9. QED
  BY <1>1, <1>7, <1>8 DEF free

-----------------------------------------------------------------------------
(* Places *)

LEMMA BlockFacts ==
  ASSUME Data!BlocksAssumption
  PROVE  /\ NBLOCKS \in Nat /\ BSIZE \in Nat \ {0} /\ NDIRECT \in Nat
         /\ IndirectPlace = NDIRECT + BSIZE /\ IndirectPlace \in Nat /\ Data!DataBlocks = 1 .. NBLOCKS
         /\ 0 \notin Data!DataBlocks /\ None \notin Inodes /\ None \notin Writers
         /\ Data!Chunk \in Nat \ {0}
BY DEF Data!BlocksAssumption, IndirectPlace, Data!MAXFILE, Data!DataBlocks, Data!Chunk

LEMMA NumberTypes ==
  ASSUME Data!BlocksAssumption, BlockTypes, NumbersInUse
  PROVE  /\ \A i \in Inodes : Data!Indirect(i) \in bitmap \cup {0}
         /\ \A i \in Inodes, q \in 0 .. IndirectPlace - 1 :
              /\ NumberAt(i, q) = Data!Mapped(i, q) /\ Data!Mapped(i, q) \in bitmap \cup {0}
              /\ q >= NDIRECT /\ Data!Indirect(i) = 0 => Data!Mapped(i, q) = 0
         /\ \A i \in Inodes : NumberAt(i, IndirectPlace) = Data!Indirect(i)
<1> USE BlockFacts
<1>1. \A i \in Inodes : NumberAt(i, IndirectPlace) = Data!Indirect(i) /\ IndirectPlace \in 0 .. IndirectPlace
  BY DEF NumberAt
<1>2. \A i \in Inodes, q \in 0 .. IndirectPlace - 1 :
        NumberAt(i, q) = Data!Mapped(i, q) /\ q \in 0 .. IndirectPlace
  BY DEF NumberAt
<1>3. \A i \in Inodes, q \in 0 .. IndirectPlace - 1 :
        q >= NDIRECT /\ Data!Indirect(i) = 0 => Data!Mapped(i, q) = 0
  BY DEF Data!Mapped
<1>4. QED
  BY <1>1, <1>2, <1>3 DEF NumbersInUse

\* A file's numbers do not change as long as its own places and its indirect block do not.
LEMMA PlacesStay ==
  ASSUME Data!BlocksAssumption, NEW i \in Inodes,
         addrs'[i] = addrs[i],
         Data!Indirect(i) # 0 => words'[Data!Indirect(i)] = words[Data!Indirect(i)]
  PROVE  \A q \in 0 .. IndirectPlace : NumberAt(i, q)' = NumberAt(i, q)
BY DEF NumberAt, Data!Mapped, Data!Indirect, IndirectPlace, Data!MAXFILE

\* The block that gets the words and the indirect block on the way are the file's or new.
Taken(i, bn, new, ind) ==
  /\ new \in Data!DataBlocks
  /\ IF NumberAt(i, bn) = 0 THEN new \notin bitmap ELSE new = NumberAt(i, bn)
  /\ bn >= NDIRECT =>
       /\ ind \in Data!DataBlocks /\ ind # new
       /\ IF NumberAt(i, IndirectPlace) = 0 THEN ind \notin bitmap ELSE ind = NumberAt(i, IndirectPlace)

\* The step that gives them their numbers.
Numbered(i, bn, new, ind) ==
  /\ bitmap' = IF bn >= NDIRECT THEN bitmap \cup {ind, new} ELSE bitmap \cup {new}
  /\ \A j \in Inodes, q \in 0 .. IndirectPlace :
       NumberAt(j, q)' = IF j = i /\ q = bn THEN new
                         ELSE IF j = i /\ q = IndirectPlace /\ bn >= NDIRECT THEN ind ELSE NumberAt(j, q)

LEMMA PlacesKept ==
  ASSUME Data!BlocksAssumption, BlockTypes, OnePlace, NumbersInUse, NothingLost,
         NEW i \in Inodes, NEW bn \in 0 .. IndirectPlace - 1, NEW new, NEW ind,
         Taken(i, bn, new, ind), Numbered(i, bn, new, ind)
  PROVE  OnePlace' /\ NumbersInUse' /\ NothingLost'
<1> USE BlockFacts DEF Taken, Numbered
<1>0. new # 0 /\ (bn >= NDIRECT => ind # 0)
  OBVIOUS
<1>1. bn \in 0 .. IndirectPlace /\ bn # IndirectPlace /\ IndirectPlace \in 0 .. IndirectPlace
  OBVIOUS
<1>2. \A j \in Inodes, q \in 0 .. IndirectPlace :
        /\ NumberAt(j, q) = new => j = i /\ q = bn
        /\ bn >= NDIRECT /\ NumberAt(j, q) = ind => j = i /\ q = IndirectPlace
  BY <1>0, <1>1 DEF OnePlace, NumbersInUse
<1>3. OnePlace'
  <2>1. SUFFICES ASSUME NEW j \in Inodes, NEW k \in Inodes,
                        NEW q \in 0 .. IndirectPlace, NEW r \in 0 .. IndirectPlace,
                        NumberAt(j, q)' # 0, NumberAt(j, q)' = NumberAt(k, r)'
                 PROVE  j = k /\ q = r
    BY DEF OnePlace, IndirectPlace, Data!MAXFILE
  <2>2. CASE (j = i /\ q = bn) \/ (k = i /\ r = bn)
    BY <1>1, <1>2, <2>1, <2>2
  <2>3. CASE ~(j = i /\ q = bn) /\ ~(k = i /\ r = bn)
    BY <1>1, <1>2, <2>1, <2>3 DEF OnePlace
  <2>4. QED
    BY <2>2, <2>3
<1>4. NumbersInUse'
  <2>1. SUFFICES ASSUME NEW j \in Inodes, NEW q \in 0 .. IndirectPlace
                 PROVE  NumberAt(j, q)' \in bitmap' \cup {0}
    BY DEF NumbersInUse, IndirectPlace, Data!MAXFILE
  <2>2. QED
    BY DEF NumbersInUse
<1>5. NothingLost'
  <2>1. SUFFICES ASSUME NEW b \in bitmap'
                 PROVE  \E j \in Inodes, q \in 0 .. IndirectPlace : NumberAt(j, q)' = b
    BY DEF NothingLost, IndirectPlace, Data!MAXFILE
  <2>2. CASE b = new
    BY <1>1, <2>2
  <2>3. CASE bn >= NDIRECT /\ b = ind
    BY <1>1, <2>3
  <2>4. CASE b \in bitmap /\ b # new /\ (bn >= NDIRECT => b # ind)
    <3>1. PICK j \in Inodes, q \in 0 .. IndirectPlace : NumberAt(j, q) = b
      BY <2>4 DEF NothingLost
    <3>2. b # 0
      BY <2>4 DEF BlockTypes
    <3>3. NumberAt(j, q)' = b
      BY <1>1, <2>4, <3>1, <3>2
    <3>4. QED
      BY <3>3
  <2>5. QED
    BY <2>2, <2>3, <2>4
<1>6. QED
  BY <1>3, <1>4, <1>5

-----------------------------------------------------------------------------
(* writei() *)

\* Where the next words of a chunk go.
LEMMA NextWords ==
  ASSUME Data!BlocksAssumption, BlocksInv, NEW x \in Writers, w[x].tot < w[x].n
  PROVE  LET i == w[x].ino
             off == w[x].off + w[x].tot
             m == Data!Min({w[x].n - w[x].tot, BSIZE - (off % BSIZE)}) IN
         /\ i \in Inodes /\ flock[i] = x /\ w[x].n > 0
         /\ off \in Nat /\ off \div BSIZE \in 0 .. IndirectPlace - 1 /\ off % BSIZE \in 0 .. BSIZE - 1
         /\ off = BSIZE * (off \div BSIZE) + (off % BSIZE)
         /\ m \in Nat \ {0} /\ (off % BSIZE) + m <= BSIZE /\ w[x].tot + m <= w[x].n
<1> DEFINE off == w[x].off + w[x].tot
<1>1. /\ w[x].off \in Nat /\ w[x].tot \in Nat /\ w[x].n \in Nat /\ w[x].n > 0
      /\ w[x].ino \in Inodes /\ flock[w[x].ino] = x
      /\ w[x].off + w[x].n <= IndirectPlace * BSIZE
  BY DEF BlocksInv, BlockTypes, CallsRight, IndirectPlace
<1>2. BSIZE \in Nat \ {0} /\ IndirectPlace \in Nat
  BY BlockFacts
<1>3. off \in Nat /\ off < IndirectPlace * BSIZE
  <2>1. \A a, t, n, p \in Nat : a + n <= p /\ t < n => a + t \in Nat /\ a + t < p
    OBVIOUS
  <2>2. IndirectPlace * BSIZE \in Nat
    BY <1>2
  <2>3. QED
    BY <1>1, <2>1, <2>2
<1> HIDE DEF off
<1>4. /\ off % BSIZE \in 0 .. BSIZE - 1 /\ off \div BSIZE \in Nat
      /\ off = BSIZE * (off \div BSIZE) + (off % BSIZE)
  BY <1>2, <1>3, DivisionType
<1>5. off \div BSIZE < IndirectPlace
  BY <1>2, <1>3, DivisionBound
<1>6. off \div BSIZE \in 0 .. IndirectPlace - 1
  BY <1>2, <1>4, <1>5
<1>7. \A r \in 0 .. BSIZE - 1 : \A t, n \in Nat : t < n =>
        LET m == Data!Min({n - t, BSIZE - r}) IN m \in Nat \ {0} /\ r + m <= BSIZE /\ t + m <= n
  <2>1. TAKE r \in 0 .. BSIZE - 1
  <2>2. TAKE t, n \in Nat
  <2>3. HAVE t < n
  <2>4. n - t \in Nat \ {0} /\ BSIZE - r \in Nat \ {0}
    BY <1>2, <2>3
  <2>5. Data!Min({n - t, BSIZE - r}) = IF n - t <= BSIZE - r THEN n - t ELSE BSIZE - r
    BY <2>4, MinOfTwo
  <2>6. QED
    BY <1>2, <2>3, <2>4, <2>5
<1>8. LET m == Data!Min({w[x].n - w[x].tot, BSIZE - (off % BSIZE)}) IN
      m \in Nat \ {0} /\ (off % BSIZE) + m <= BSIZE /\ w[x].tot + m <= w[x].n
  BY <1>1, <1>4, <1>7
<1>9. QED
  BY <1>1, <1>3, <1>4, <1>6, <1>8 DEF off

\* balloc() as bmap() calls it.
LEMMA BlocksTaken ==
  ASSUME Data!BlocksAssumption, BlocksInv, NEW i \in Inodes, NEW bn \in 0 .. IndirectPlace - 1,
         ~(Cardinality(Data!DataBlocks \ bitmap) < Data!Missing(i, bn))
  PROVE  LET new == IF Data!Mapped(i, bn) = 0 THEN Data!Free(Data!Missing(i, bn))
                    ELSE Data!Mapped(i, bn)
             ind == IF Data!Indirect(i) = 0 THEN Data!Free(1) ELSE Data!Indirect(i) IN
         Taken(i, bn, new, ind)
<1> USE BlockFacts DEF BlocksInv, Taken
<1> DEFINE free == Data!DataBlocks \ bitmap
           new == IF Data!Mapped(i, bn) = 0 THEN Data!Free(Data!Missing(i, bn))
                  ELSE Data!Mapped(i, bn)
           ind == IF Data!Indirect(i) = 0 THEN Data!Free(1) ELSE Data!Indirect(i)
<1>1. /\ Cardinality(free) \in Nat
      /\ Cardinality(free) >= 1 => Data!Free(1) \in free
      /\ Cardinality(free) >= 2 => Data!Free(2) \in free /\ Data!Free(1) # Data!Free(2)
  BY BlocksFound
<1>2. /\ NumberAt(i, bn) = Data!Mapped(i, bn) /\ Data!Mapped(i, bn) \in bitmap \cup {0}
      /\ bn >= NDIRECT /\ Data!Indirect(i) = 0 => Data!Mapped(i, bn) = 0
      /\ NumberAt(i, IndirectPlace) = Data!Indirect(i) /\ Data!Indirect(i) \in bitmap \cup {0}
      /\ bitmap \subseteq Data!DataBlocks
  BY NumberTypes DEF BlockTypes
<1> HIDE DEF free
<1>3. CASE Data!Mapped(i, bn) # 0
  <2>1. new = Data!Mapped(i, bn) /\ new \in bitmap
    BY <1>2, <1>3
  <2>2. bn >= NDIRECT => ind = Data!Indirect(i) /\ ind # 0 /\ ind \in bitmap
    BY <1>2, <1>3
  <2>3. bn >= NDIRECT => ind # new
    <3>1. bn \in 0 .. IndirectPlace /\ IndirectPlace \in 0 .. IndirectPlace /\ bn # IndirectPlace
      OBVIOUS
    <3>2. QED
      BY <1>2, <2>1, <2>2, <3>1 DEF OnePlace
  <2>4. QED
    BY <1>2, <1>3, <2>1, <2>2, <2>3
<1>4. CASE Data!Mapped(i, bn) = 0 /\ bn >= NDIRECT /\ Data!Indirect(i) = 0
  <2>1. Data!Missing(i, bn) = 2
    BY <1>4 DEF Data!Missing
  <2>2. Cardinality(free) >= 2
    BY <1>1, <2>1 DEF free
  <2>3. new = Data!Free(2) /\ ind = Data!Free(1) /\ new \in free /\ ind \in free /\ new # ind
    BY <1>1, <1>4, <2>1, <2>2
  <2>4. QED
    BY <1>2, <1>4, <2>3 DEF free
<1>5. CASE Data!Mapped(i, bn) = 0 /\ ~(bn >= NDIRECT /\ Data!Indirect(i) = 0)
  <2>1. Data!Missing(i, bn) = 1
    BY <1>5 DEF Data!Missing
  <2>2. Cardinality(free) >= 1
    BY <1>1, <2>1 DEF free
  <2>3. new = Data!Free(1) /\ new \in free
    BY <1>1, <1>5, <2>1, <2>2
  <2>4. bn >= NDIRECT => ind = Data!Indirect(i) /\ ind # 0 /\ ind \in bitmap
    BY <1>2, <1>5
  <2>5. QED
    BY <1>2, <1>5, <2>3, <2>4 DEF free
<1>6. QED
  BY <1>3, <1>4, <1>5

\* The number of a direct block is written.
LEMMA DirectPlaced ==
  ASSUME Data!BlocksAssumption, BlockTypes, OnePlace, NumbersInUse,
         NEW i \in Inodes, NEW bn \in 0 .. IndirectPlace - 1, bn < NDIRECT,
         NEW new \in Data!DataBlocks,
         IF NumberAt(i, bn) = 0 THEN new \notin bitmap ELSE new = NumberAt(i, bn),
         addrs' = [addrs EXCEPT ![i][bn] = new],
         \A b \in bitmap \ {new} : words'[b] = words[b]
  PROVE  \A j \in Inodes, q \in 0 .. IndirectPlace :
           NumberAt(j, q)' = IF j = i /\ q = bn THEN new ELSE NumberAt(j, q)
<1> USE BlockFacts
<1>1. addrs \in [Inodes -> [0 .. NDIRECT -> 0 .. NBLOCKS]] /\ bn \in 0 .. NDIRECT /\ bn # NDIRECT
  BY DEF BlockTypes
<1>2. \A j \in Inodes : Data!Indirect(j)' = Data!Indirect(j)
  BY <1>1 DEF Data!Indirect
<1>3. ASSUME NEW j \in Inodes, Data!Indirect(j) # 0
      PROVE  words'[Data!Indirect(j)] = words[Data!Indirect(j)]
  <2>1. Data!Indirect(j) = NumberAt(j, IndirectPlace) /\ Data!Indirect(j) \in bitmap
        /\ bitmap \subseteq Data!DataBlocks
    BY <1>3, NumberTypes DEF BlockTypes
  <2>2. Data!Indirect(j) # new
    <3>1. bn \in 0 .. IndirectPlace /\ IndirectPlace \in 0 .. IndirectPlace /\ bn # IndirectPlace
      OBVIOUS
    <3>2. QED
      BY <1>3, <2>1, <3>1 DEF OnePlace
  <2>3. QED
    BY <2>1, <2>2
<1>4. ASSUME NEW j \in Inodes, NEW q \in 0 .. IndirectPlace
      PROVE  NumberAt(j, q)' = IF j = i /\ q = bn THEN new ELSE NumberAt(j, q)
  <2>1. IndirectPlace' = IndirectPlace
    BY DEF IndirectPlace, Data!MAXFILE
  <2>2. CASE q = IndirectPlace
    BY <1>2, <2>1, <2>2 DEF NumberAt
  <2>3. CASE q # IndirectPlace /\ q >= NDIRECT
    <3>1. Data!Mapped(j, q)' = Data!Mapped(j, q)
      <4>1. CASE Data!Indirect(j) = 0
        BY <1>2, <2>3, <4>1 DEF Data!Mapped
      <4>2. CASE Data!Indirect(j) # 0
        <5>1. Data!Mapped(j, q)' = words'[Data!Indirect(j)'][q - NDIRECT]
              /\ Data!Mapped(j, q) = words[Data!Indirect(j)][q - NDIRECT]
          BY <1>2, <2>3, <4>2 DEF Data!Mapped
        <5>2. QED
          BY <1>2, <1>3, <4>2, <5>1
      <4>3. QED
        BY <4>1, <4>2
    <3>2. QED
      BY <2>1, <2>3, <3>1 DEF NumberAt
  <2>4. CASE q # IndirectPlace /\ q < NDIRECT
    <3>1. Data!Mapped(j, q)' = addrs'[j][q] /\ Data!Mapped(j, q) = addrs[j][q]
      BY <2>4 DEF Data!Mapped
    <3>2. addrs'[j][q] = IF j = i /\ q = bn THEN new ELSE addrs[j][q]
      BY <1>1, <2>4
    <3>3. QED
      BY <2>1, <2>4, <3>1, <3>2 DEF NumberAt
  <2>5. QED
    BY <2>2, <2>3, <2>4
<1>5. QED
  BY <1>4

\* A number is written into the indirect block, which is a new one or was one already.
NumberWritten(i, bn, new, ind) ==
  /\ addrs' = [addrs EXCEPT ![i][NDIRECT] = ind]
  /\ \A k \in 0 .. BSIZE - 1 :
       words'[ind][k] = IF k = bn - NDIRECT THEN new ELSE IF ind \in bitmap THEN words[ind][k] ELSE 0
  /\ \A b \in bitmap \ {ind, new} : words'[b] = words[b]

LEMMA IndirectPlaced ==
  ASSUME Data!BlocksAssumption, BlockTypes, OnePlace, NumbersInUse,
         NEW i \in Inodes, NEW bn \in 0 .. IndirectPlace - 1, bn >= NDIRECT,
         NEW new \in Data!DataBlocks, NEW ind \in Data!DataBlocks, ind # new,
         IF NumberAt(i, bn) = 0 THEN new \notin bitmap ELSE new = NumberAt(i, bn),
         IF NumberAt(i, IndirectPlace) = 0 THEN ind \notin bitmap ELSE ind = NumberAt(i, IndirectPlace),
         NumberWritten(i, bn, new, ind)
  PROVE  \A j \in Inodes, q \in 0 .. IndirectPlace :
           NumberAt(j, q)' = IF j = i /\ q = bn THEN new
                             ELSE IF j = i /\ q = IndirectPlace THEN ind ELSE NumberAt(j, q)
<1> USE BlockFacts DEF NumberWritten
<1>1. /\ addrs \in [Inodes -> [0 .. NDIRECT -> 0 .. NBLOCKS]] /\ NDIRECT \in 0 .. NDIRECT
      /\ words \in [Data!DataBlocks -> [0 .. BSIZE - 1 -> Word]]
      /\ bitmap \subseteq Data!DataBlocks
  BY DEF BlockTypes
<1>2. \A j \in Inodes : Data!Indirect(j)' = IF j = i THEN ind ELSE Data!Indirect(j)
  BY <1>1 DEF Data!Indirect
<1>3. ASSUME NEW j \in Inodes \ {i}, Data!Indirect(j) # 0
      PROVE  words'[Data!Indirect(j)] = words[Data!Indirect(j)]
  <2>1. Data!Indirect(j) = NumberAt(j, IndirectPlace) /\ Data!Indirect(j) \in bitmap
    BY <1>3, NumberTypes
  <2>2. Data!Indirect(j) # new /\ Data!Indirect(j) # ind
    <3>1. bn \in 0 .. IndirectPlace /\ IndirectPlace \in 0 .. IndirectPlace /\ bn # IndirectPlace
      OBVIOUS
    <3>2. QED
      BY <1>3, <2>1, <3>1 DEF OnePlace
  <2>3. QED
    BY <2>1, <2>2
<1>5. IndirectPlace' = IndirectPlace
  BY DEF IndirectPlace, Data!MAXFILE
<1>6. ASSUME NEW q \in 0 .. IndirectPlace
      PROVE  NumberAt(i, q)' = IF q = bn THEN new ELSE IF q = IndirectPlace THEN ind ELSE NumberAt(i, q)
  <2>1. CASE q = IndirectPlace
    BY <1>2, <1>5, <2>1 DEF NumberAt
  <2>2. CASE q # IndirectPlace /\ q >= NDIRECT
    <3>1. ind # 0 /\ q - NDIRECT \in 0 .. BSIZE - 1
      BY <2>2
    <3>2. Data!Mapped(i, q)' = words'[Data!Indirect(i)'][q - NDIRECT]
      BY <1>2, <2>2, <3>1 DEF Data!Mapped
    <3>3. Data!Mapped(i, q)' = words'[ind][q - NDIRECT]
      BY <1>2, <3>2
    <3>4. q # bn => words'[ind][q - NDIRECT] = Data!Mapped(i, q)
      <4>1. /\ NumberAt(i, IndirectPlace) = Data!Indirect(i) /\ Data!Indirect(i) \in bitmap \cup {0}
            /\ 0 \notin bitmap
        BY <1>1, NumberTypes
      <4>2. Data!Mapped(i, q) = IF Data!Indirect(i) = 0 THEN 0 ELSE words[Data!Indirect(i)][q - NDIRECT]
        BY <2>2 DEF Data!Mapped
      <4>3. q # bn => q - NDIRECT # bn - NDIRECT
        OBVIOUS
      <4>4. QED
        BY <3>1, <4>1, <4>2, <4>3
    <3>5. q = bn => words'[ind][q - NDIRECT] = new
      BY <3>1
    <3>6. NumberAt(i, q)' = Data!Mapped(i, q)' /\ NumberAt(i, q) = Data!Mapped(i, q)
      BY <1>5, <2>2 DEF NumberAt
    <3>7. QED
      BY <2>2, <3>3, <3>4, <3>5, <3>6
  <2>3. CASE q # IndirectPlace /\ q < NDIRECT
    <3>1. Data!Mapped(i, q)' = addrs'[i][q] /\ Data!Mapped(i, q) = addrs[i][q]
      BY <2>3 DEF Data!Mapped
    <3>2. addrs'[i][q] = addrs[i][q]
      BY <1>1, <2>3
    <3>3. QED
      BY <1>5, <2>3, <3>1, <3>2 DEF NumberAt
  <2>4. QED
    BY <2>1, <2>2, <2>3
<1>7. ASSUME NEW j \in Inodes \ {i} PROVE \A q \in 0 .. IndirectPlace : NumberAt(j, q)' = NumberAt(j, q)
  <2>1. addrs'[j] = addrs[j]
    BY <1>1
  <2>2. QED
    BY <1>3, <2>1, PlacesStay
<1>8. QED
  BY <1>6, <1>7

\* A round writes m words from v into block new, and numbers it.
RoundWrites(i, bn, at, m, v, new, ind) ==
  /\ i \in Inodes /\ bn \in 0 .. IndirectPlace - 1 /\ Taken(i, bn, new, ind)
  /\ Numbered(i, bn, new, ind)
  /\ addrs' \in [Inodes -> [0 .. NDIRECT -> 0 .. NBLOCKS]]
  /\ words' \in [Data!DataBlocks -> [0 .. BSIZE - 1 -> Word]]
  /\ \A k \in 0 .. BSIZE - 1 :
       IF k \in at .. at + m - 1 THEN words'[new][k] = v
       ELSE new \in bitmap => words'[new][k] = words[new][k]
  /\ \A b \in bitmap : b # new /\ (bn >= NDIRECT => b # ind) => words'[b] = words[b]

\* What a round writes, block by block.
RoundStores(i, bn, at, m, v, new, ind) ==
  \E got, gotInd, put :
    /\ got = (IF new \in bitmap THEN words[new] ELSE Data!Zeros)
    /\ gotInd = (IF ind \in bitmap THEN words[ind] ELSE Data!Zeros)
    /\ put = [k \in 0 .. BSIZE - 1 |-> IF k \in at .. at + m - 1 THEN v ELSE got[k]]
    /\ IF bn < NDIRECT
       THEN /\ bitmap' = bitmap \cup {new}
            /\ addrs' = [addrs EXCEPT ![i][bn] = new]
            /\ words' = [words EXCEPT ![new] = put]
       ELSE /\ bitmap' = bitmap \cup {ind, new}
            /\ addrs' = [addrs EXCEPT ![i][NDIRECT] = ind]
            /\ words' = [words EXCEPT ![ind] = [gotInd EXCEPT ![bn - NDIRECT] = new],
                                      ![new] = put]

LEMMA RoundDone ==
  ASSUME Data!BlocksAssumption, BlocksInv, NEW i \in Inodes, NEW bn \in 0 .. IndirectPlace - 1,
         NEW at \in 0 .. BSIZE - 1, NEW m \in Nat \ {0}, NEW v \in Word, NEW new, NEW ind,
         Taken(i, bn, new, ind), RoundStores(i, bn, at, m, v, new, ind)
  PROVE  RoundWrites(i, bn, at, m, v, new, ind)
<1>a. PICK got, gotInd, put :
        /\ got = (IF new \in bitmap THEN words[new] ELSE Data!Zeros)
        /\ gotInd = (IF ind \in bitmap THEN words[ind] ELSE Data!Zeros)
        /\ put = [k \in 0 .. BSIZE - 1 |-> IF k \in at .. at + m - 1 THEN v ELSE got[k]]
        /\ IF bn < NDIRECT
           THEN /\ bitmap' = bitmap \cup {new}
                /\ addrs' = [addrs EXCEPT ![i][bn] = new]
                /\ words' = [words EXCEPT ![new] = put]
           ELSE /\ bitmap' = bitmap \cup {ind, new}
                /\ addrs' = [addrs EXCEPT ![i][NDIRECT] = ind]
                /\ words' = [words EXCEPT ![ind] = [gotInd EXCEPT ![bn - NDIRECT] = new],
                                          ![new] = put]
  BY DEF RoundStores
<1>b. /\ new \in Data!DataBlocks
      /\ IF NumberAt(i, bn) = 0 THEN new \notin bitmap ELSE new = NumberAt(i, bn)
      /\ bn >= NDIRECT =>
           /\ ind \in Data!DataBlocks /\ ind # new
           /\ IF NumberAt(i, IndirectPlace) = 0 THEN ind \notin bitmap ELSE ind = NumberAt(i, IndirectPlace)
  BY DEF Taken
<1>c. new \in Data!DataBlocks /\ (bn >= NDIRECT => ind \in Data!DataBlocks /\ ind # new)
  BY <1>b
<1>0. BlockTypes /\ OnePlace /\ NumbersInUse
  BY DEF BlocksInv
<1>1. /\ bn \in 0 .. NDIRECT + BSIZE - 1 /\ NDIRECT \in Nat /\ BSIZE \in Nat \ {0}
      /\ bn < NDIRECT <=> ~(bn >= NDIRECT)
  BY BlockFacts
<1>2. /\ addrs \in [Inodes -> [0 .. NDIRECT -> 0 .. NBLOCKS]]
      /\ words \in [Data!DataBlocks -> [0 .. BSIZE - 1 -> Word]] /\ bitmap \subseteq Data!DataBlocks
  BY <1>0 DEF BlockTypes
<1>3. /\ got \in [0 .. BSIZE - 1 -> Word]
      /\ bn >= NDIRECT => gotInd \in [0 .. BSIZE - 1 -> Word]
      /\ \A b \in Data!DataBlocks : b \in Word /\ b \in 0 .. NBLOCKS
  <2>1. Data!Zeros \in [0 .. BSIZE - 1 -> Word]
    BY BlockFacts DEF Data!Zeros, Word
  <2>2. \A b \in bitmap : words[b] \in [0 .. BSIZE - 1 -> Word]
    BY <1>2
  <2>3. /\ got = (IF new \in bitmap THEN words[new] ELSE Data!Zeros)
        /\ gotInd = (IF ind \in bitmap THEN words[ind] ELSE Data!Zeros)
    BY <1>a
  <2>4. got \in [0 .. BSIZE - 1 -> Word] /\ gotInd \in [0 .. BSIZE - 1 -> Word]
    BY <2>1, <2>2, <2>3, Zenon
  <2>5. \A b \in Data!DataBlocks : b \in Word /\ b \in 0 .. NBLOCKS
    BY BlockFacts DEF Word
  <2>6. QED
    BY <2>4, <2>5
<1>4. put \in [0 .. BSIZE - 1 -> Word]
  <2>1. \A k \in 0 .. BSIZE - 1 : got[k] \in Word
    BY <1>3
  <2>2. put = [k \in 0 .. BSIZE - 1 |-> IF k \in at .. at + m - 1 THEN v ELSE got[k]]
    BY <1>a
  <2>3. QED
    BY <2>1, <2>2
<1>5. \A k \in 0 .. BSIZE - 1 :
        IF k \in at .. at + m - 1 THEN put[k] = v ELSE new \in bitmap => put[k] = words[new][k]
  BY <1>a
<1>6. CASE bn < NDIRECT
  <2>0. /\ bitmap' = bitmap \cup {new} /\ addrs' = [addrs EXCEPT ![i][bn] = new]
        /\ words' = [words EXCEPT ![new] = put]
    BY <1>a, <1>6
  <2>1. \A j \in Inodes, q \in 0 .. IndirectPlace :
          NumberAt(j, q)' = IF j = i /\ q = bn THEN new ELSE NumberAt(j, q)
    <3>1. \A b \in bitmap \ {new} : words'[b] = words[b]
      BY <1>c, <1>2, <2>0
    <3>2. QED
      BY <1>b, <1>0, <1>6, <2>0, <3>1, DirectPlaced
  <2>2. /\ addrs' \in [Inodes -> [0 .. NDIRECT -> 0 .. NBLOCKS]]
        /\ words' \in [Data!DataBlocks -> [0 .. BSIZE - 1 -> Word]]
        /\ words'[new] = put /\ \A b \in bitmap \ {new} : words'[b] = words[b]
    <3>1. bn \in 0 .. NDIRECT
      BY <1>6, BlockFacts
    <3>2. addrs' \in [Inodes -> [0 .. NDIRECT -> 0 .. NBLOCKS]]
      BY <1>c, <1>2, <1>3, <2>0, <3>1
    <3>3. words' \in [Data!DataBlocks -> [0 .. BSIZE - 1 -> Word]] /\ words'[new] = put
      BY <1>c, <1>2, <1>4, <2>0
    <3>4. \A b \in bitmap \ {new} : words'[b] = words[b]
      BY <1>c, <1>2, <2>0
    <3>5. QED
      BY <3>2, <3>3, <3>4
  <2>3. ~(bn >= NDIRECT)
    BY <1>6, BlockFacts
  <2>4. QED
    BY <1>5, <2>0, <2>1, <2>2, <2>3 DEF RoundWrites, Numbered
<1>7. CASE bn >= NDIRECT
  <2> DEFINE numbers == [gotInd EXCEPT ![bn - NDIRECT] = new]
  <2>1. numbers \in [0 .. BSIZE - 1 -> Word] /\ bn - NDIRECT \in 0 .. BSIZE - 1
    <3>1. bn - NDIRECT \in 0 .. BSIZE - 1
      BY <1>7, <1>1
    <3>2. QED
      BY <1>c, <1>3, <1>7, <3>1
  <2>2. \A k \in 0 .. BSIZE - 1 :
          numbers[k] = IF k = bn - NDIRECT THEN new ELSE IF ind \in bitmap THEN words[ind][k] ELSE 0
    <3>1. \A k \in 0 .. BSIZE - 1 : gotInd[k] = IF ind \in bitmap THEN words[ind][k] ELSE 0
      BY <1>a DEF Data!Zeros
    <3>2. gotInd \in [0 .. BSIZE - 1 -> Word]
      BY <1>3, <1>7
    <3>3. QED
      BY <2>1, <3>1, <3>2
  <2> HIDE DEF numbers
  <2>3. /\ addrs' = [addrs EXCEPT ![i][NDIRECT] = ind]
        /\ words' = [words EXCEPT ![ind] = numbers, ![new] = put]
        /\ bitmap' = bitmap \cup {ind, new}
    BY <1>a, <1>7, <1>1 DEF numbers
  <2>4. words'[ind] = numbers /\ words'[new] = put /\ \A b \in bitmap \ {ind, new} : words'[b] = words[b]
    <3>1. ind \in Data!DataBlocks /\ ind # new
      BY <1>c, <1>7
    <3>2. QED
      BY <1>c, <1>2, <2>3, <3>1
  <2>5. \A j \in Inodes, q \in 0 .. IndirectPlace :
          NumberAt(j, q)' = IF j = i /\ q = bn THEN new
                            ELSE IF j = i /\ q = IndirectPlace THEN ind ELSE NumberAt(j, q)
    <3>1. ind \in Data!DataBlocks /\ ind # new
          /\ IF NumberAt(i, IndirectPlace) = 0 THEN ind \notin bitmap ELSE ind = NumberAt(i, IndirectPlace)
      BY <1>b, <1>7
    <3>2. NumberWritten(i, bn, new, ind)
      BY <2>2, <2>3, <2>4 DEF NumberWritten
    <3>3. QED
      BY <1>b, <1>0, <1>7, <3>1, <3>2, IndirectPlaced
  <2>6. /\ addrs' \in [Inodes -> [0 .. NDIRECT -> 0 .. NBLOCKS]]
        /\ words' \in [Data!DataBlocks -> [0 .. BSIZE - 1 -> Word]]
        /\ words'[new] = put
    <3>1. ind \in Data!DataBlocks /\ NDIRECT \in 0 .. NDIRECT
      BY <1>c, <1>7, BlockFacts
    <3>2. addrs' \in [Inodes -> [0 .. NDIRECT -> 0 .. NBLOCKS]]
      BY <1>2, <1>3, <2>3, <3>1
    <3>3. words' \in [Data!DataBlocks -> [0 .. BSIZE - 1 -> Word]]
      BY <1>c, <1>2, <1>4, <2>1, <2>3
    <3>4. QED
      BY <2>4, <3>2, <3>3
  <2>7. QED
    BY <1>5, <1>7, <2>3, <2>4, <2>5, <2>6 DEF RoundWrites, Numbered
<1>8. QED
  BY <1>6, <1>7, <1>1

\* A round of writei() by x: m words from off on, which are in block bn of file i.
Round(x, i, off, bn, at, m, new, ind) ==
  /\ i = w[x].ino /\ flock[i] = x /\ w[x].n > 0 /\ off = w[x].off + w[x].tot
  /\ off \in Nat /\ bn = off \div BSIZE /\ off = BSIZE * bn + at /\ at \in 0 .. BSIZE - 1
  /\ m \in Nat \ {0} /\ at + m <= BSIZE /\ w[x].tot + m <= w[x].n
  /\ RoundWrites(i, bn, at, m, w[x].v, new, ind)
  /\ w' = [w EXCEPT ![x].tot = @ + m]
  /\ logged'[x] \subseteq logged[x] \cup {0, new} \cup (IF bn >= NDIRECT THEN {ind} ELSE {})
  /\ logged' \in [Writers -> SUBSET (Data!DataBlocks \cup {0})]
  /\ \A y \in Writers \ {x} : logged'[y] = logged[y]
  /\ UNCHANGED <<size, flock, stored>>

LEMMA WriteBlockIsRound ==
  ASSUME Data!BlocksAssumption, BlocksInv, NEW x \in Writers, Data!WriteBlock(x)
  PROVE  \/ UNCHANGED <<bitmap, words, addrs, size, flock, w, logged, stored>>
         \/ \E i, off, bn, at, m, new, ind : Round(x, i, off, bn, at, m, new, ind)
<1> DEFINE i == w[x].ino
           off == w[x].off + w[x].tot
           bn == off \div BSIZE
           at == off % BSIZE
           m == Data!Min({w[x].n - w[x].tot, BSIZE - at})
           new == IF Data!Mapped(i, bn) = 0 THEN Data!Free(Data!Missing(i, bn))
                  ELSE Data!Mapped(i, bn)
           ind == IF Data!Indirect(i) = 0 THEN Data!Free(1) ELSE Data!Indirect(i)
           got(b) == IF b \in bitmap THEN words[b] ELSE Data!Fresh(b)
           put(old) == [k \in 0 .. BSIZE - 1 |-> IF k \in at .. at + m - 1 THEN w[x].v ELSE old[k]]
           more == {new} \cup (IF bn >= NDIRECT /\ Data!Mapped(i, bn) = 0 THEN {ind} ELSE {})
                   \cup (IF Data!Missing(i, bn) > 0 THEN {0} ELSE {})
           full == Data!Cardinality(Data!DataBlocks \ bitmap) < Data!Missing(i, bn)
<1>1. /\ w[x].tot < w[x].n
      /\ IF full
         THEN panic' = TRUE /\ UNCHANGED <<<<bitmap, words, addrs, size>>, w, logged>>
         ELSE /\ IF bn < NDIRECT
                 THEN /\ bitmap' = bitmap \cup {new}
                      /\ addrs' = [addrs EXCEPT ![i][bn] = new]
                      /\ words' = [words EXCEPT ![new] = put(got(new))]
                 ELSE /\ bitmap' = bitmap \cup {ind, new}
                      /\ addrs' = [addrs EXCEPT ![i][NDIRECT] = ind]
                      /\ words' = [words EXCEPT ![ind] = [got(ind) EXCEPT ![bn - NDIRECT] = new],
                                                ![new] = put(got(new))]
              /\ logged' = [logged EXCEPT ![x] = @ \cup {new}
                   \cup (IF bn >= NDIRECT /\ Data!Mapped(i, bn) = 0 THEN {ind} ELSE {})
                   \cup (IF Data!Missing(i, bn) > 0 THEN {0} ELSE {})]
              /\ w' = [w EXCEPT ![x].tot = @ + m]
              /\ UNCHANGED <<size, panic>>
      /\ UNCHANGED <<flock, stored, writes>>
  BY DEF Data!WriteBlock, Data!disk
<1>2. CASE full
  BY <1>1, <1>2
<1>3. CASE ~full
  <2>1. /\ i \in Inodes /\ flock[i] = x /\ w[x].n > 0
        /\ off \in Nat /\ bn \in 0 .. IndirectPlace - 1 /\ at \in 0 .. BSIZE - 1
        /\ off = BSIZE * bn + at
        /\ m \in Nat \ {0} /\ at + m <= BSIZE /\ w[x].tot + m <= w[x].n
    BY <1>1, NextWords
  <2> HIDE DEF m
  <2>2. ~(Cardinality(Data!DataBlocks \ bitmap) < Data!Missing(i, bn))
    BY <1>3, CountsAgree
  <2>3. Taken(i, bn, new, ind)
    BY <2>1, <2>2, BlocksTaken
  <2>4. w[x].v \in Word /\ logged \in [Writers -> SUBSET (Data!DataBlocks \cup {0})]
        /\ w \in [Writers -> [ino : Inodes \cup {None}, off : Nat, left : Nat, v : Word, n : Nat, tot : Nat]]
    BY DEF BlocksInv, BlockTypes
  <2>5. /\ IF bn < NDIRECT
           THEN /\ bitmap' = bitmap \cup {new}
                /\ addrs' = [addrs EXCEPT ![i][bn] = new]
                /\ words' = [words EXCEPT ![new] = put(got(new))]
           ELSE /\ bitmap' = bitmap \cup {ind, new}
                /\ addrs' = [addrs EXCEPT ![i][NDIRECT] = ind]
                /\ words' = [words EXCEPT ![ind] = [got(ind) EXCEPT ![bn - NDIRECT] = new],
                                          ![new] = put(got(new))]
        /\ logged' = [logged EXCEPT ![x] = @ \cup {new}
             \cup (IF bn >= NDIRECT /\ Data!Mapped(i, bn) = 0 THEN {ind} ELSE {})
             \cup (IF Data!Missing(i, bn) > 0 THEN {0} ELSE {})]
        /\ w' = [w EXCEPT ![x].tot = @ + m]
        /\ UNCHANGED <<size, flock, stored>>
    BY <1>1, <1>3
  <2> HIDE DEF full
  <2>6. /\ got(new) = (IF new \in bitmap THEN words[new] ELSE Data!Zeros)
        /\ got(ind) = (IF ind \in bitmap THEN words[ind] ELSE Data!Zeros)
    BY DEF Data!Fresh
  <2> HIDE DEF new, ind, bn, at, off, got
  <2>7. RoundStores(i, bn, at, m, w[x].v, new, ind)
    <3> DEFINE gotNew == got(new)
               gotInd == got(ind)
               filled == put(gotNew)
    <3>1. /\ gotNew = (IF new \in bitmap THEN words[new] ELSE Data!Zeros)
          /\ gotInd = (IF ind \in bitmap THEN words[ind] ELSE Data!Zeros)
          /\ filled = [k \in 0 .. BSIZE - 1 |-> IF k \in at .. at + m - 1 THEN w[x].v ELSE gotNew[k]]
      BY <2>6
    <3>2. IF bn < NDIRECT
          THEN /\ bitmap' = bitmap \cup {new}
               /\ addrs' = [addrs EXCEPT ![i][bn] = new]
               /\ words' = [words EXCEPT ![new] = filled]
          ELSE /\ bitmap' = bitmap \cup {ind, new}
               /\ addrs' = [addrs EXCEPT ![i][NDIRECT] = ind]
               /\ words' = [words EXCEPT ![ind] = [gotInd EXCEPT ![bn - NDIRECT] = new],
                                         ![new] = filled]
      BY <2>5
    <3> HIDE DEF gotNew, gotInd, filled
    <3>3. QED
      BY <3>1, <3>2 DEF RoundStores
  <2> HIDE DEF i
  <2>8. RoundWrites(i, bn, at, m, w[x].v, new, ind)
    BY <2>1, <2>3, <2>4, <2>7, RoundDone
  <2>9. /\ logged'[x] \subseteq logged[x] \cup {0, new} \cup (IF bn >= NDIRECT THEN {ind} ELSE {})
        /\ logged' \in [Writers -> SUBSET (Data!DataBlocks \cup {0})]
        /\ \A y \in Writers \ {x} : logged'[y] = logged[y]
    BY <2>3, <2>4, <2>5 DEF Taken
  <2>10. Round(x, i, off, bn, at, m, new, ind)
    BY <2>1, <2>5, <2>8, <2>9 DEF Round, i, off, bn
  <2>11. QED
    BY <2>10
<1>4. QED
  BY <1>2, <1>3

\* The numbers of blocks before and after a step.
LEMMA MappedAt ==
  ASSUME Data!BlocksAssumption
  PROVE  \A i \in Inodes :
           /\ NumberAt(i, IndirectPlace) = Data!Indirect(i) /\ NumberAt(i, IndirectPlace)' = Data!Indirect(i)'
           /\ \A q \in 0 .. IndirectPlace - 1 :
                NumberAt(i, q) = Data!Mapped(i, q) /\ NumberAt(i, q)' = Data!Mapped(i, q)'
<1>1. IndirectPlace \in Nat /\ IndirectPlace' = IndirectPlace
  BY BlockFacts DEF IndirectPlace, Data!MAXFILE
<1>2. QED
  BY <1>1 DEF NumberAt

\* What a round does to the numbers of a file.
LEMMA RoundPlaces ==
  ASSUME Data!BlocksAssumption, BlocksInv, NEW x \in Writers,
         NEW i, NEW off, NEW bn, NEW at, NEW m, NEW new, NEW ind, Round(x, i, off, bn, at, m, new, ind)
  PROVE  /\ i \in Inodes /\ bn \in 0 .. IndirectPlace - 1 /\ new \in Data!DataBlocks
         /\ bn >= NDIRECT => ind \in Data!DataBlocks /\ Data!Indirect(i)' = ind
         /\ Data!Mapped(i, bn)' = new
         /\ Data!Mapped(i, bn) # 0 => new = Data!Mapped(i, bn) /\ new \in bitmap
         /\ \A j \in Inodes, q \in 0 .. IndirectPlace - 1 : j # i \/ q # bn =>
              /\ Data!Mapped(j, q)' = Data!Mapped(j, q)
              /\ Data!Mapped(j, q) # 0 => words'[Data!Mapped(j, q)] = words[Data!Mapped(j, q)]
         /\ \A j \in Inodes : Data!Indirect(j) # 0 => Data!Indirect(j)' = Data!Indirect(j)
         /\ OnePlace' /\ NumbersInUse' /\ NothingLost'
<1>1. /\ i \in Inodes /\ bn \in 0 .. IndirectPlace - 1 /\ new \in Data!DataBlocks
      /\ IF NumberAt(i, bn) = 0 THEN new \notin bitmap ELSE new = NumberAt(i, bn)
      /\ bn >= NDIRECT =>
           /\ ind \in Data!DataBlocks /\ ind # new
           /\ IF NumberAt(i, IndirectPlace) = 0 THEN ind \notin bitmap ELSE ind = NumberAt(i, IndirectPlace)
      /\ bitmap' = IF bn >= NDIRECT THEN bitmap \cup {ind, new} ELSE bitmap \cup {new}
      /\ \A j \in Inodes, q \in 0 .. IndirectPlace :
           NumberAt(j, q)' = IF j = i /\ q = bn THEN new
                             ELSE IF j = i /\ q = IndirectPlace /\ bn >= NDIRECT THEN ind
                             ELSE NumberAt(j, q)
      /\ \A b \in bitmap : b # new /\ (bn >= NDIRECT => b # ind) => words'[b] = words[b]
  BY DEF Round, RoundWrites, Taken, Numbered
<1>2. /\ BlockTypes /\ OnePlace /\ NumbersInUse /\ NothingLost
      /\ 0 \notin Data!DataBlocks /\ bitmap \subseteq Data!DataBlocks /\ IndirectPlace \in Nat
      /\ \A q \in 0 .. IndirectPlace - 1 : q \in 0 .. IndirectPlace /\ q # IndirectPlace
      /\ IndirectPlace \in 0 .. IndirectPlace
  <2>1. IndirectPlace \in Nat /\ 0 \notin Data!DataBlocks
    BY BlockFacts
  <2>2. BlockTypes /\ bitmap \subseteq Data!DataBlocks
    BY DEF BlocksInv, BlockTypes
  <2>3. QED
    BY <2>1, <2>2 DEF BlocksInv
<1>3. \A j \in Inodes, q \in 0 .. IndirectPlace :
        /\ NumberAt(j, q) \in bitmap \cup {0}
        /\ NumberAt(j, q) = new => j = i /\ q = bn
        /\ bn >= NDIRECT /\ NumberAt(j, q) = ind => j = i /\ q = IndirectPlace
  BY <1>1, <1>2 DEF OnePlace, NumbersInUse
<1>4. OnePlace' /\ NumbersInUse' /\ NothingLost'
  <2>1. Taken(i, bn, new, ind) /\ Numbered(i, bn, new, ind)
    BY DEF Round, RoundWrites
  <2>2. QED
    BY <1>1, <1>2, <2>1, PlacesKept
<1>5. \A j \in Inodes, q \in 0 .. IndirectPlace - 1 : j # i \/ q # bn =>
        /\ Data!Mapped(j, q)' = Data!Mapped(j, q)
        /\ Data!Mapped(j, q) # 0 => words'[Data!Mapped(j, q)] = words[Data!Mapped(j, q)]
  <2>1. TAKE j \in Inodes, q \in 0 .. IndirectPlace - 1
  <2>2. HAVE j # i \/ q # bn
  <2>3. NumberAt(j, q) = Data!Mapped(j, q) /\ NumberAt(j, q)' = Data!Mapped(j, q)'
    BY MappedAt
  <2>4. QED
    BY <1>1, <1>2, <1>3, <2>2, <2>3
<1>6. \A j \in Inodes : Data!Indirect(j) # 0 => Data!Indirect(j)' = Data!Indirect(j)
  <2>1. TAKE j \in Inodes
  <2>2. NumberAt(j, IndirectPlace) = Data!Indirect(j) /\ NumberAt(j, IndirectPlace)' = Data!Indirect(j)'
    BY MappedAt
  <2>3. QED
    BY <1>1, <1>2, <2>2
<1>7. /\ Data!Mapped(i, bn)' = new /\ (bn >= NDIRECT => Data!Indirect(i)' = ind)
      /\ Data!Mapped(i, bn) # 0 => new = Data!Mapped(i, bn) /\ new \in bitmap
  <2>1. /\ NumberAt(i, bn) = Data!Mapped(i, bn) /\ NumberAt(i, bn)' = Data!Mapped(i, bn)'
        /\ NumberAt(i, IndirectPlace)' = Data!Indirect(i)'
    BY <1>1, MappedAt
  <2>2. QED
    BY <1>1, <1>2, <1>3, <2>1
<1>8. QED
  BY <1>1, <1>4, <1>5, <1>6, <1>7

\* Word k of a file is in block k \div BSIZE.
LEMMA WordPlace ==
  ASSUME Data!BlocksAssumption, BlocksInv, NEW i \in Inodes, NEW k \in Nat, InFile(i, k)
  PROVE  /\ k \div BSIZE \in 0 .. IndirectPlace - 1 /\ k % BSIZE \in 0 .. BSIZE - 1
         /\ k = BSIZE * (k \div BSIZE) + (k % BSIZE)
<1>1. BSIZE \in Nat \ {0} /\ IndirectPlace \in Nat
  BY BlockFacts
<1>2. k < IndirectPlace * BSIZE
  <2>1. size[i] \in Nat /\ size[i] <= IndirectPlace * BSIZE /\ IndirectPlace * BSIZE \in Nat
    BY <1>1 DEF BlocksInv, BlockTypes, WordsRight, FileRight, IndirectPlace
  <2>2. flock[i] # None =>
          /\ flock[i] \in Writers /\ w[flock[i]].off \in Nat
          /\ w[flock[i]].tot \in Nat /\ w[flock[i]].n \in Nat
          /\ w[flock[i]].tot <= w[flock[i]].n /\ w[flock[i]].off + w[flock[i]].n <= IndirectPlace * BSIZE
    <3>1. flock[i] # None => flock[i] \in Writers /\ w[flock[i]].n > 0
      BY DEF BlocksInv, BlockTypes, CallsRight
    <3>2. QED
      BY <3>1 DEF BlocksInv, BlockTypes, CallsRight, IndirectPlace
  <2>3. CASE k < size[i]
    BY <2>1, <2>3
  <2>4. CASE flock[i] # None /\ k < w[flock[i]].off + w[flock[i]].tot
    <3>1. \A o, t, n, p \in Nat : k < o + t /\ t <= n /\ o + n <= p => k < p
      OBVIOUS
    <3>2. QED
      BY <2>1, <2>2, <2>4, <3>1
  <2>5. QED
    BY <2>3, <2>4 DEF InFile
<1>3. k \div BSIZE < IndirectPlace
  BY <1>1, <1>2, DivisionBound
<1>4. /\ k % BSIZE \in 0 .. BSIZE - 1 /\ k \div BSIZE \in Nat
      /\ k = BSIZE * (k \div BSIZE) + (k % BSIZE)
  BY <1>1, DivisionType
<1>5. QED
  BY <1>1, <1>3, <1>4

\* Whoever holds a file's lock is in a chunk of that file.
LEMMA LockHolder ==
  ASSUME Data!BlocksAssumption, BlocksInv, NEW j \in Inodes, flock[j] # None
  PROVE  flock[j] \in Writers /\ w[flock[j]].ino = j /\ w[flock[j]].n > 0
BY DEF BlocksInv, BlockTypes, CallsRight

LEMMA RoundKeepsWords ==
  ASSUME Data!BlocksAssumption, BlocksInv, NEW x \in Writers,
         NEW i, NEW off, NEW bn, NEW at, NEW m, NEW new, NEW ind, Round(x, i, off, bn, at, m, new, ind)
  PROVE  WordsRight'
<1>1. /\ i \in Inodes /\ bn \in 0 .. IndirectPlace - 1 /\ new \in Data!DataBlocks
      /\ Data!Mapped(i, bn)' = new /\ (Data!Mapped(i, bn) # 0 => new = Data!Mapped(i, bn) /\ new \in bitmap)
      /\ \A j \in Inodes, q \in 0 .. IndirectPlace - 1 : j # i \/ q # bn =>
           /\ Data!Mapped(j, q)' = Data!Mapped(j, q)
           /\ Data!Mapped(j, q) # 0 => words'[Data!Mapped(j, q)] = words[Data!Mapped(j, q)]
  BY RoundPlaces
<1>2. /\ i = w[x].ino /\ flock[i] = x /\ off = w[x].off + w[x].tot
      /\ off \in Nat /\ off = BSIZE * bn + at /\ at \in 0 .. BSIZE - 1
      /\ m \in Nat \ {0} /\ at + m <= BSIZE
      /\ w' = [w EXCEPT ![x].tot = @ + m]
      /\ size' = size /\ flock' = flock /\ stored' = stored
  BY DEF Round
<1>3. \A k \in 0 .. BSIZE - 1 :
        IF k \in at .. at + m - 1 THEN words'[new][k] = w[x].v
        ELSE new \in bitmap => words'[new][k] = words[new][k]
  BY DEF Round, RoundWrites
<1>4. /\ w \in [Writers -> [ino : Inodes \cup {None}, off : Nat, left : Nat, v : Word, n : Nat, tot : Nat]]
      /\ flock \in [Inodes -> Writers \cup {None}] /\ size \in [Inodes -> Nat]
      /\ BSIZE \in Nat \ {0} /\ IndirectPlace \in Nat /\ None \notin Writers
      /\ 0 \notin Data!DataBlocks
  BY BlockFacts DEF BlocksInv, BlockTypes
<1>5. /\ w[x].off \in Nat /\ w[x].tot \in Nat
      /\ w'[x].off = w[x].off /\ w'[x].tot = w[x].tot + m /\ w'[x].v = w[x].v
      /\ \A y \in Writers \ {x} : w'[y] = w[y]
  BY <1>2, <1>4
<1>6. \A j \in Inodes, k \in Nat : InFile(j, k) =>
        /\ Data!Mapped(j, k \div BSIZE) # 0
        /\ words[Data!Mapped(j, k \div BSIZE)][k % BSIZE] = Expected(j, k)
  BY DEF BlocksInv, WordsRight, FileRight
<1>7. \A j \in Inodes : j # i /\ flock[j] # None => w'[flock[j]] = w[flock[j]]
  BY <1>2, <1>5, LockHolder
<1>8. SUFFICES ASSUME NEW j \in Inodes, NEW k \in Nat, InFile(j, k)'
               PROVE  /\ Data!Mapped(j, k \div BSIZE)' # 0
                      /\ words'[Data!Mapped(j, k \div BSIZE)'][k % BSIZE] = Expected(j, k)'
  <2>1. \A j \in Inodes : Len(stored'[j]) = size'[j] /\ size'[j] <= Data!MAXFILE * BSIZE
    BY <1>2 DEF BlocksInv, WordsRight, FileRight
  <2>2. QED
    BY <1>8, <2>1 DEF WordsRight, FileRight, Data!MAXFILE
<1>8a. BSIZE * bn \in Nat /\ at \in Nat /\ m \in Nat /\ BSIZE \in Nat
  BY <1>1, <1>2, <1>4
<1>9. k \div BSIZE \in 0 .. IndirectPlace - 1 /\ k % BSIZE \in 0 .. BSIZE - 1
      /\ k = BSIZE * (k \div BSIZE) + (k % BSIZE)
  <2>1. CASE InFile(j, k)
    BY <2>1, WordPlace
  <2>2. CASE ~InFile(j, k)
    <3>1. j = i /\ off <= k /\ k < off + m
      BY <1>2, <1>4, <1>5, <1>7, <1>8, <2>2 DEF InFile
    <3>2. at + (k - off) \in 0 .. BSIZE - 1 /\ k = BSIZE * bn + (at + (k - off))
      BY <1>2, <1>8a, <3>1, OffsetInBlock
    <3>3. k \div BSIZE = bn /\ k % BSIZE = at + (k - off)
      BY <1>1, <1>4, <3>2, DivisionUnique
    <3>4. QED
      BY <1>1, <3>2, <3>3
  <2>3. QED
    BY <2>1, <2>2
<1>10. CASE j = i /\ off <= k /\ k < off + m
  <2>1. at + (k - off) \in 0 .. BSIZE - 1 /\ at + (k - off) \in at .. at + m - 1
        /\ k = BSIZE * bn + (at + (k - off))
    BY <1>2, <1>8a, <1>10, OffsetInBlock
  <2>2. k \div BSIZE = bn /\ k % BSIZE = at + (k - off)
    BY <1>1, <1>4, <2>1, DivisionUnique
  <2>3. Expected(j, k)' = w[x].v
    BY <1>2, <1>4, <1>5, <1>10 DEF Expected
  <2>4. QED
    BY <1>1, <1>3, <1>4, <1>10, <2>1, <2>2, <2>3
<1>11. CASE ~(j = i /\ off <= k /\ k < off + m)
  <2>1. InFile(j, k) /\ Expected(j, k)' = Expected(j, k)
    <3>1. CASE j = i
      <4>1. k < off \/ off + m <= k
        BY <1>2, <1>11, <3>1
      <4>2. QED
        BY <1>2, <1>4, <1>5, <1>8, <3>1, <4>1 DEF InFile, Expected
    <3>2. CASE j # i
      <4>1. CASE flock[j] = None
        BY <1>2, <1>8, <4>1 DEF InFile, Expected
      <4>2. CASE flock[j] # None
        <5>1. w'[flock[j]] = w[flock[j]]
          BY <1>7, <3>2, <4>2
        <5>2. InFile(j, k)' <=> InFile(j, k)
          BY <1>2, <4>2, <5>1 DEF InFile
        <5>3. Expected(j, k)' = Expected(j, k)
          <6>1. Expected(j, k)' =
                  IF flock[j] # None /\ w'[flock[j]].off <= k /\ k < w'[flock[j]].off + w'[flock[j]].tot
                  THEN w'[flock[j]].v ELSE stored[j][k + 1]
            BY <1>2 DEF Expected
          <6>2. QED
            BY <5>1, <6>1, Zenon DEF Expected
        <5>4. QED
          BY <1>8, <5>2, <5>3
      <4>3. QED
        BY <4>1, <4>2
    <3>3. QED
      BY <3>1, <3>2
  <2>2. /\ Data!Mapped(j, k \div BSIZE) # 0
        /\ words[Data!Mapped(j, k \div BSIZE)][k % BSIZE] = Expected(j, k)
    BY <1>6, <2>1
  <2>3. CASE j # i \/ k \div BSIZE # bn
    BY <1>1, <1>9, <2>1, <2>2, <2>3
  <2>4. CASE j = i /\ k \div BSIZE = bn
    <3>1. k % BSIZE \notin at .. at + m - 1
      <4>1. k = BSIZE * bn + (k % BSIZE)
        BY <1>9, <2>4
      <4>2. \A q \in at .. at + m - 1 : k = BSIZE * bn + q => off <= k /\ k < off + m
        BY <1>2, <1>8a, OffsetInBlock
      <4>3. QED
        BY <1>11, <2>4, <4>1, <4>2
    <3>2. words'[new][k % BSIZE] = words[new][k % BSIZE]
      BY <1>1, <1>3, <1>9, <2>2, <2>4, <3>1
    <3>3. QED
      BY <1>1, <1>4, <2>1, <2>2, <2>4, <3>2
  <2>5. QED
    BY <2>3, <2>4
<1>12. QED
  BY <1>10, <1>11

LEMMA RoundKeepsLogged ==
  ASSUME Data!BlocksAssumption, BlocksInv, NEW x \in Writers,
         NEW i, NEW off, NEW bn, NEW at, NEW m, NEW new, NEW ind, Round(x, i, off, bn, at, m, new, ind)
  PROVE  LoggedRight'
<1>1. /\ i \in Inodes /\ bn \in 0 .. IndirectPlace - 1
      /\ bn >= NDIRECT => Data!Indirect(i)' = ind
      /\ Data!Mapped(i, bn)' = new /\ (Data!Mapped(i, bn) # 0 => new = Data!Mapped(i, bn))
      /\ \A j \in Inodes, q \in 0 .. IndirectPlace - 1 : j # i \/ q # bn =>
           Data!Mapped(j, q)' = Data!Mapped(j, q)
      /\ \A j \in Inodes : Data!Indirect(j) # 0 => Data!Indirect(j)' = Data!Indirect(j)
  BY RoundPlaces
<1>2. /\ i = w[x].ino /\ flock[i] = x /\ off = w[x].off + w[x].tot /\ w[x].n > 0
      /\ off \in Nat /\ bn = off \div BSIZE /\ m \in Nat \ {0}
      /\ w' = [w EXCEPT ![x].tot = @ + m]
      /\ logged'[x] \subseteq logged[x] \cup {0, new} \cup (IF bn >= NDIRECT THEN {ind} ELSE {})
      /\ \A y \in Writers \ {x} : logged'[y] = logged[y]
  BY DEF Round
<1>3. w \in [Writers -> [ino : Inodes \cup {None}, off : Nat, left : Nat, v : Word, n : Nat, tot : Nat]]
  BY DEF BlocksInv, BlockTypes
<1>4. /\ w'[x].off = w[x].off /\ w'[x].tot = w[x].tot + m /\ w'[x].n = w[x].n /\ w'[x].ino = i
      /\ \A y \in Writers \ {x} : w'[y] = w[y]
  BY <1>2, <1>3
\* A block of a file keeps its number.
<1>5. ASSUME NEW y \in Writers, w[y].n > 0, NEW b \in logged[y],
             NEW j \in Inodes, j = w[y].ino, NEW from \in Nat, from = w[y].off,
             NEW to \in Nat, from + w[y].tot <= to
      PROVE  LoggedFor(j, from, to, b)'
  <2>1. flock[j] = y /\ flock[j] # None /\ w[y].tot \in Nat
    BY <1>3, <1>5, BlockFacts DEF BlocksInv, CallsRight
  <2>2. CASE b = 0
    BY <2>2 DEF LoggedFor
  <2>3. CASE b # 0 /\ b = Data!Indirect(j)
    BY <1>1, <2>1, <2>3 DEF LoggedFor
  <2>4. ASSUME b # 0, NEW k \in from .. (from + w[y].tot) - 1, b = Data!Mapped(j, k \div BSIZE)
        PROVE  k \in from .. to - 1 /\ b = Data!Mapped(j, k \div BSIZE)'
    <3>1. k \in Nat /\ k < w[y].off + w[y].tot /\ k \in from .. to - 1
      BY <1>5, <2>1
    <3>2. k \div BSIZE \in 0 .. IndirectPlace - 1
      BY <1>5, <2>1, <3>1, WordPlace DEF InFile
    <3>3. QED
      BY <1>1, <1>2, <1>5, <2>1, <2>4, <3>1, <3>2
  <2>5. LoggedFor(j, from, from + w[y].tot, b)
    BY <1>5, <2>1 DEF BlocksInv, LoggedRight
  <2>6. QED
    BY <2>2, <2>3, <2>4, <2>5 DEF LoggedFor
<1>6. ASSUME NEW y \in Writers, NEW j \in Inodes, NEW from \in Nat, NEW to \in Nat,
             w'[y].n > 0, j = w'[y].ino, from = w'[y].off, to = from + w'[y].tot, NEW b \in logged'[y]
      PROVE  LoggedFor(j, from, to, b)'
  <2>1. CASE y # x
    BY <1>2, <1>3, <1>4, <1>5, <1>6, <2>1
  <2>2. CASE y = x
    <3>1. w[x].off \in Nat /\ w[x].tot \in Nat /\ j = i /\ from = w[x].off /\ to = w[x].off + (w[x].tot + m)
      BY <1>3, <1>4, <1>6, <2>2
    <3>2. CASE b \in logged[x]
      <4>1. from + w[x].tot <= to
        BY <1>2, <3>1
      <4>2. QED
        BY <1>2, <1>5, <3>1, <3>2, <4>1
    <3>3. CASE b = new
      <4>1. off \in from .. to - 1
        BY <1>2, <3>1
      <4>2. b = Data!Mapped(j, off \div BSIZE)'
        BY <1>1, <1>2, <3>1, <3>3
      <4>3. QED
        BY <4>1, <4>2 DEF LoggedFor
    <3>4. CASE bn >= NDIRECT /\ b = ind
      BY <1>1, <3>1, <3>4 DEF LoggedFor
    <3>5. CASE b = 0
      BY <3>5 DEF LoggedFor
    <3>6. QED
      BY <1>2, <1>6, <2>2, <3>2, <3>3, <3>4, <3>5
  <2>3. QED
    BY <2>1, <2>2
<1>7. \A y \in Writers : w'[y].n = 0 => logged'[y] = {}
  <2>1. w'[x].n # 0
    BY <1>2, <1>3, <1>4
  <2>2. QED
    BY <1>2, <1>4, <2>1 DEF BlocksInv, LoggedRight
<1>8. QED
  BY <1>6, <1>7 DEF LoggedRight

LEMMA RoundKeeps ==
  ASSUME Data!BlocksAssumption, BlocksInv, NEW x \in Writers,
         NEW i, NEW off, NEW bn, NEW at, NEW m, NEW new, NEW ind, Round(x, i, off, bn, at, m, new, ind)
  PROVE  BlocksInv'
<1>1. OnePlace' /\ NumbersInUse' /\ NothingLost' /\ i \in Inodes /\ new \in Data!DataBlocks
      /\ (bn >= NDIRECT => ind \in Data!DataBlocks)
  BY RoundPlaces
<1>2. w' = [w EXCEPT ![x].tot = @ + m] /\ UNCHANGED <<size, flock, stored>>
      /\ m \in Nat \ {0} /\ w[x].tot + m <= w[x].n
      /\ logged' \in [Writers -> SUBSET (Data!DataBlocks \cup {0})]
      /\ addrs' \in [Inodes -> [0 .. NDIRECT -> 0 .. NBLOCKS]]
      /\ words' \in [Data!DataBlocks -> [0 .. BSIZE - 1 -> Word]]
      /\ bitmap' = IF bn >= NDIRECT THEN bitmap \cup {ind, new} ELSE bitmap \cup {new}
  BY DEF Round, RoundWrites, Numbered
<1>3. BlockTypes'
  <2>1. bitmap' \subseteq Data!DataBlocks
    BY <1>1, <1>2 DEF BlocksInv, BlockTypes
  <2>2. w' \in [Writers -> [ino : Inodes \cup {None}, off : Nat, left : Nat, v : Word, n : Nat, tot : Nat]]
    <3>1. w \in [Writers -> [ino : Inodes \cup {None}, off : Nat, left : Nat, v : Word, n : Nat, tot : Nat]]
      BY DEF BlocksInv, BlockTypes
    <3>2. w[x].tot + m \in Nat
      BY <1>2, <3>1
    <3>3. QED
      BY <1>2, <3>1, <3>2
  <2>3. QED
    BY <1>2, <2>1, <2>2 DEF BlocksInv, BlockTypes, Word, Data!DataBlocks
<1>4. CallsRight'
  <2>1. /\ w'[x].tot = w[x].tot + m /\ w'[x].ino = w[x].ino /\ w'[x].n = w[x].n
        /\ w'[x].off = w[x].off /\ w'[x].left = w[x].left
        /\ \A y \in Writers \ {x} : w'[y] = w[y]
    BY <1>2 DEF BlocksInv, BlockTypes
  <2>2. \A y \in Writers :
          /\ w'[y].ino # None => w'[y].left > 0
          /\ w'[y].n > 0 =>
               /\ w'[y].ino \in Inodes /\ flock'[w'[y].ino] = y
               /\ w'[y].tot <= w'[y].n /\ w'[y].n <= w'[y].left /\ w'[y].n <= Data!Chunk
               /\ w'[y].off <= size'[w'[y].ino] /\ w'[y].off + w'[y].n <= Data!MAXFILE * BSIZE
    BY <1>2, <2>1 DEF BlocksInv, CallsRight
  <2>3. \A j \in Inodes : flock'[j] # None => w'[flock'[j]].ino = j /\ w'[flock'[j]].n > 0
    BY <1>2, <2>1 DEF BlocksInv, BlockTypes, CallsRight
  <2>4. QED
    BY <2>2, <2>3 DEF CallsRight, Data!Chunk, Data!MAXFILE
<1>5. QED
  BY <1>1, <1>3, <1>4, RoundKeepsWords, RoundKeepsLogged DEF BlocksInv

-----------------------------------------------------------------------------
(* The other steps *)

\* A file that a step leaves alone.
LEMMA FileStays ==
  ASSUME Data!BlocksAssumption, BlocksInv, NEW j \in Inodes,
         size'[j] = size[j], stored'[j] = stored[j], flock'[j] = flock[j],
         flock[j] # None => w'[flock[j]] = w[flock[j]],
         \A q \in 0 .. IndirectPlace - 1 :
           /\ Data!Mapped(j, q)' = Data!Mapped(j, q)
           /\ Data!Mapped(j, q) # 0 => words'[Data!Mapped(j, q)] = words[Data!Mapped(j, q)]
  PROVE  FileRight(j)'
<1>1. Len(stored'[j]) = size'[j] /\ size'[j] <= Data!MAXFILE * BSIZE
  BY DEF BlocksInv, WordsRight, FileRight
<1>2. ASSUME NEW k \in Nat, InFile(j, k)'
      PROVE  /\ Data!Mapped(j, k \div BSIZE)' # 0
             /\ words'[Data!Mapped(j, k \div BSIZE)'][k % BSIZE] = Expected(j, k)'
  <2>1. InFile(j, k) /\ Expected(j, k)' = Expected(j, k)
    <3>1. CASE flock[j] = None
      BY <1>2, <3>1 DEF InFile, Expected
    <3>2. CASE flock[j] # None
      <4>1. InFile(j, k)' <=> InFile(j, k)
        BY <3>2 DEF InFile
      <4>2. Expected(j, k)' =
              IF flock[j] # None /\ w'[flock[j]].off <= k /\ k < w'[flock[j]].off + w'[flock[j]].tot
              THEN w'[flock[j]].v ELSE stored[j][k + 1]
        BY DEF Expected
      <4>3. Expected(j, k)' = Expected(j, k)
        BY <3>2, <4>2, Zenon DEF Expected
      <4>4. QED
        BY <1>2, <4>1, <4>3
    <3>3. QED
      BY <3>1, <3>2
  <2>2. k \div BSIZE \in 0 .. IndirectPlace - 1
    BY <2>1, WordPlace
  <2>3. /\ Data!Mapped(j, k \div BSIZE) # 0
        /\ words[Data!Mapped(j, k \div BSIZE)][k % BSIZE] = Expected(j, k)
    BY <2>1 DEF BlocksInv, WordsRight, FileRight
  <2>4. QED
    BY <2>1, <2>2, <2>3
<1>3. QED
  BY <1>1, <1>2 DEF FileRight, Data!MAXFILE

\* What a step leaves alone that changes no number and no word.
LEMMA NumbersStay ==
  ASSUME Data!BlocksAssumption, BlocksInv, UNCHANGED <<bitmap, words, addrs>>
  PROVE  /\ OnePlace' /\ NumbersInUse' /\ NothingLost'
         /\ \A i \in Inodes, q \in 0 .. IndirectPlace - 1 :
              /\ Data!Mapped(i, q)' = Data!Mapped(i, q)
              /\ Data!Mapped(i, q) # 0 => words'[Data!Mapped(i, q)] = words[Data!Mapped(i, q)]
         /\ \A i, from, to, b : LoggedFor(i, from, to, b)' <=> LoggedFor(i, from, to, b)
<1>1. \A i, q : Data!Mapped(i, q)' = Data!Mapped(i, q) /\ Data!Indirect(i)' = Data!Indirect(i)
  BY DEF Data!Mapped, Data!Indirect
<1>2. \A i, q : NumberAt(i, q)' = NumberAt(i, q)
  BY <1>1 DEF NumberAt, IndirectPlace, Data!MAXFILE
<1>3. OnePlace' /\ NumbersInUse' /\ NothingLost'
  BY <1>2 DEF BlocksInv, OnePlace, NumbersInUse, NothingLost, IndirectPlace, Data!MAXFILE
<1>4. \A i, from, to, b : LoggedFor(i, from, to, b)' <=> LoggedFor(i, from, to, b)
  BY <1>1 DEF LoggedFor
<1>5. QED
  BY <1>1, <1>3, <1>4

\* A step of a writer that is in no chunk, neither before nor after.
LEMMA BetweenChunks ==
  ASSUME Data!BlocksAssumption, BlocksInv, NEW x \in Writers, NEW call,
         w[x].n = 0, call.n = 0, call.ino # None => call.left > 0,
         call \in [ino : Inodes \cup {None}, off : Nat, left : Nat, v : Word, n : Nat, tot : Nat],
         w' = [w EXCEPT ![x] = call],
         UNCHANGED <<bitmap, words, addrs, size, flock, logged, stored>>
  PROVE  BlocksInv'
<1>1. /\ w \in [Writers -> [ino : Inodes \cup {None}, off : Nat, left : Nat, v : Word, n : Nat, tot : Nat]]
      /\ flock \in [Inodes -> Writers \cup {None}] /\ None \notin Writers
  BY BlockFacts DEF BlocksInv, BlockTypes
<1>2. w'[x] = call /\ \A y \in Writers \ {x} : w'[y] = w[y]
  BY <1>1
<1>3. \A j \in Inodes : flock[j] # None => flock[j] # x /\ flock[j] \in Writers /\ w'[flock[j]] = w[flock[j]]
  BY <1>2, LockHolder
<1>4. BlockTypes'
  BY <1>1 DEF BlocksInv, BlockTypes, Word, Data!DataBlocks
<1>5. CallsRight'
  <2>1. \A y \in Writers :
          /\ w'[y].ino # None => w'[y].left > 0
          /\ w'[y].n > 0 =>
               /\ w'[y].ino \in Inodes /\ flock'[w'[y].ino] = y
               /\ w'[y].tot <= w'[y].n /\ w'[y].n <= w'[y].left /\ w'[y].n <= Data!Chunk
               /\ w'[y].off <= size'[w'[y].ino] /\ w'[y].off + w'[y].n <= Data!MAXFILE * BSIZE
    BY <1>2 DEF BlocksInv, CallsRight
  <2>2. \A j \in Inodes : flock'[j] # None => w'[flock'[j]].ino = j /\ w'[flock'[j]].n > 0
    BY <1>3 DEF BlocksInv, CallsRight
  <2>3. QED
    BY <2>1, <2>2 DEF CallsRight, Data!Chunk, Data!MAXFILE
<1>6. WordsRight'
  <2>1. \A j \in Inodes : FileRight(j)'
    BY <1>3, NumbersStay, FileStays
  <2>2. QED
    BY <2>1 DEF WordsRight
<1>7. LoggedRight'
  <2>1. \A y \in Writers : w'[y].n = 0 => logged'[y] = {}
    BY <1>2 DEF BlocksInv, LoggedRight
  <2>2. ASSUME NEW y \in Writers, NEW i \in Inodes, NEW from \in Nat, NEW to \in Nat,
               w'[y].n > 0, i = w'[y].ino, from = w'[y].off, to = from + w'[y].tot,
               NEW b \in logged'[y]
        PROVE  LoggedFor(i, from, to, b)'
    <3>1. y # x /\ w'[y] = w[y]
      BY <1>2, <2>2
    <3>2. LoggedFor(i, from, to, b)
      BY <2>2, <3>1 DEF BlocksInv, LoggedRight
    <3>3. QED
      BY <3>2, NumbersStay
  <2>3. QED
    BY <2>1, <2>2 DEF LoggedRight
<1>8. QED
  BY <1>4, <1>5, <1>6, <1>7, NumbersStay DEF BlocksInv

\* The idle call is a call.
LEMMA IdleCall ==
  ASSUME Data!BlocksAssumption
  PROVE  /\ Data!Idle \in [ino : Inodes \cup {None}, off : Nat, left : Nat, v : Word, n : Nat, tot : Nat]
         /\ Data!Idle.n = 0 /\ Data!Idle.ino = None
BY BlockFacts DEF Data!Idle, Word

LEMMA CallKeeps ==
  ASSUME Data!BlocksAssumption, BlocksInv, NEW x \in Writers, Data!Write(x)
  PROVE  BlocksInv'
<1>0. PICK i \in Inodes, v \in WrittenWords, n \in CallSizes : \E off \in 0 .. size[i] :
        w' = [w EXCEPT ![x] = [Data!Idle EXCEPT !.ino = i, !.off = off, !.left = n, !.v = v]]
  BY DEF Data!Write
<1>1. PICK off \in 0 .. size[i] :
        w' = [w EXCEPT ![x] = [Data!Idle EXCEPT !.ino = i, !.off = off, !.left = n, !.v = v]]
  BY <1>0
<1>2. w[x].n = 0 /\ UNCHANGED <<bitmap, words, addrs, size, flock, logged, stored>>
  BY DEF Data!Write, Data!disk, Data!Idle
<1> DEFINE call == [Data!Idle EXCEPT !.ino = i, !.off = off, !.left = n, !.v = v]
<1>3. w' = [w EXCEPT ![x] = call]
  BY <1>1, Zenon
<1>4. /\ call \in [ino : Inodes \cup {None}, off : Nat, left : Nat, v : Word, n : Nat, tot : Nat]
      /\ call.n = 0 /\ call.left > 0
  <2>1. v \in Word /\ n \in Nat /\ n > 0 /\ off \in Nat
    BY DEF Data!BlocksAssumption, BlocksInv, BlockTypes, Word
  <2>2. QED
    BY <2>1, IdleCall
<1> HIDE DEF call
<1>5. QED
  BY <1>2, <1>3, <1>4, BetweenChunks

LEMMA BeginChunkKeeps ==
  ASSUME Data!BlocksAssumption, BlocksInv, NEW x \in Writers, Data!BeginChunk(x)
  PROVE  BlocksInv'
<1> DEFINE i == w[x].ino
           n == Data!NextChunk(x)
<1>1. /\ w \in [Writers -> [ino : Inodes \cup {None}, off : Nat, left : Nat, v : Word, n : Nat, tot : Nat]]
      /\ flock \in [Inodes -> Writers \cup {None}] /\ None \notin Writers
      /\ size \in [Inodes -> Nat] /\ BSIZE \in Nat \ {0} /\ IndirectPlace \in Nat
  BY BlockFacts DEF BlocksInv, BlockTypes
<1>2. /\ i # None /\ w[x].n = 0 /\ flock[i] = None
      /\ UNCHANGED <<bitmap, words, addrs, size, logged, stored>>
  BY DEF Data!BeginChunk, Data!disk
<1>3. i \in Inodes /\ w[x].left \in Nat /\ w[x].left > 0
  BY <1>1, <1>2 DEF BlocksInv, CallsRight
<1>4. n \in Nat \ {0} /\ n <= w[x].left /\ n <= Data!Chunk
  BY <1>3, BlockFacts DEF Data!NextChunk
<1> HIDE DEF n
<1>5. CASE flock' = flock /\ w' = [w EXCEPT ![x] = Data!Idle]
  BY <1>2, <1>5, IdleCall, BetweenChunks
<1>6. CASE /\ w[x].off <= size[i] /\ w[x].off + n <= Data!MAXFILE * BSIZE
           /\ flock' = [flock EXCEPT ![i] = x] /\ w' = [w EXCEPT ![x].n = n, ![x].tot = 0]
  <2>1. /\ w'[x].ino = i /\ w'[x].off = w[x].off /\ w'[x].left = w[x].left /\ w'[x].n = n
        /\ w'[x].tot = 0
        /\ \A y \in Writers \ {x} : w'[y] = w[y]
    BY <1>1, <1>6
  <2>2. flock'[i] = x /\ \A j \in Inodes \ {i} : flock'[j] = flock[j]
    BY <1>1, <1>3, <1>6
  <2>3. \A j \in Inodes : flock[j] # None => flock[j] # x /\ flock[j] \in Writers /\ w'[flock[j]] = w[flock[j]]
    BY <1>2, <2>1, LockHolder
  <2>4. BlockTypes'
    <3>1. w' \in [Writers -> [ino : Inodes \cup {None}, off : Nat, left : Nat, v : Word, n : Nat, tot : Nat]]
      BY <1>1, <1>4, <1>6
    <3>2. flock' \in [Inodes -> Writers \cup {None}]
      BY <1>1, <1>6
    <3>3. QED
      BY <1>2, <3>1, <3>2 DEF BlocksInv, BlockTypes, Word, Data!DataBlocks
  <2>5. CallsRight'
    <3>1. \A y \in Writers :
            /\ w'[y].ino # None => w'[y].left > 0
            /\ w'[y].n > 0 =>
                 /\ w'[y].ino \in Inodes /\ flock'[w'[y].ino] = y
                 /\ w'[y].tot <= w'[y].n /\ w'[y].n <= w'[y].left /\ w'[y].n <= Data!Chunk
                 /\ w'[y].off <= size'[w'[y].ino] /\ w'[y].off + w'[y].n <= Data!MAXFILE * BSIZE
      <4>1. TAKE y \in Writers
      <4>2. CASE y = x
        BY <1>2, <1>3, <1>4, <1>6, <2>1, <2>2, <4>2
      <4>3. CASE y # x
        <5>1. w[y].n > 0 => w[y].ino # i
          BY <1>2, <1>3, <4>3, BlockFacts DEF BlocksInv, CallsRight
        <5>2. QED
          BY <1>2, <2>1, <2>2, <4>3, <5>1 DEF BlocksInv, CallsRight
      <4>4. QED
        BY <4>2, <4>3
    <3>2. \A j \in Inodes : flock'[j] # None => w'[flock'[j]].ino = j /\ w'[flock'[j]].n > 0
      <4>1. TAKE j \in Inodes
      <4>2. CASE j = i
        BY <1>4, <2>1, <2>2, <4>2
      <4>3. CASE j # i
        BY <2>2, <2>3, <4>3, LockHolder
      <4>4. QED
        BY <4>2, <4>3
    <3>3. QED
      BY <3>1, <3>2 DEF CallsRight, Data!Chunk, Data!MAXFILE
  <2>6. WordsRight'
    <3>1. ASSUME NEW j \in Inodes PROVE FileRight(j)'
      <4>1. CASE j # i
        BY <1>2, <2>2, <2>3, <4>1, NumbersStay, FileStays
      <4>2. CASE j = i
        <5>1. Len(stored'[j]) = size'[j] /\ size'[j] <= Data!MAXFILE * BSIZE
          BY <1>2 DEF BlocksInv, WordsRight, FileRight
        <5>2. ASSUME NEW k \in Nat, InFile(j, k)'
              PROVE  /\ Data!Mapped(j, k \div BSIZE)' # 0
                     /\ words'[Data!Mapped(j, k \div BSIZE)'][k % BSIZE] = Expected(j, k)'
          <6>1. w[x].off \in Nat /\ size[i] \in Nat /\ w'[x].off + w'[x].tot = w[x].off
            BY <1>1, <1>3, <2>1
          <6>2. InFile(j, k) /\ Expected(j, k)' = Expected(j, k)
            <7>1. flock'[j] = x /\ flock[j] = None /\ size'[j] = size[j] /\ stored'[j] = stored[j]
              BY <1>2, <2>2, <4>2
            <7>2. InFile(j, k)
              BY <1>1, <1>6, <2>1, <4>2, <5>2, <6>1, <7>1 DEF InFile
            <7>3. Expected(j, k) = stored[j][k + 1]
              BY <7>1 DEF Expected
            <7>4. Expected(j, k)' = stored[j][k + 1]
              BY <2>1, <6>1, <7>1 DEF Expected
            <7>5. QED
              BY <7>2, <7>3, <7>4
          <6>3. k \div BSIZE \in 0 .. IndirectPlace - 1
            BY <6>2, WordPlace
          <6>4. /\ Data!Mapped(j, k \div BSIZE) # 0
                /\ words[Data!Mapped(j, k \div BSIZE)][k % BSIZE] = Expected(j, k)
            BY <6>2 DEF BlocksInv, WordsRight, FileRight
          <6>5. QED
            BY <1>2, <6>2, <6>3, <6>4, NumbersStay
        <5>3. QED
          BY <5>1, <5>2 DEF FileRight, Data!MAXFILE
      <4>3. QED
        BY <4>1, <4>2
    <3>2. QED
      BY <3>1 DEF WordsRight
  <2>7. LoggedRight'
    <3>1. logged[x] = {} /\ logged' = logged
      BY <1>2 DEF BlocksInv, LoggedRight
    <3>2. \A y \in Writers : w'[y].n = 0 => logged'[y] = {}
      BY <2>1, <3>1 DEF BlocksInv, LoggedRight
    <3>3. ASSUME NEW y \in Writers, NEW j \in Inodes, NEW from \in Nat, NEW to \in Nat,
                 w'[y].n > 0, j = w'[y].ino, from = w'[y].off, to = from + w'[y].tot,
                 NEW b \in logged'[y]
          PROVE  LoggedFor(j, from, to, b)'
      <4>1. y # x /\ w'[y] = w[y]
        BY <2>1, <3>1, <3>3
      <4>2. LoggedFor(j, from, to, b)
        BY <3>1, <3>3, <4>1 DEF BlocksInv, LoggedRight
      <4>3. QED
        BY <1>2, <4>2, NumbersStay
    <3>4. QED
      BY <3>2, <3>3 DEF LoggedRight
  <2>8. QED
    BY <1>2, <2>4, <2>5, <2>6, <2>7, NumbersStay DEF BlocksInv
<1>7. QED
  BY <1>5, <1>6 DEF Data!BeginChunk, n

\* The words of a call are put into what was there.
Overwritten(s, off, n, v, r) ==
  /\ r \in Seq(Word)
  /\ Len(r) = IF off + n > Len(s) THEN off + n ELSE Len(s)
  /\ \A k \in Nat : k < Len(r) => r[k + 1] = IF off <= k /\ k < off + n THEN v ELSE s[k + 1]

LEMMA OverwriteIs ==
  ASSUME NEW s \in Seq(Word), NEW off \in Nat, off <= Len(s), NEW n \in Nat \ {0}, NEW v \in Word
  PROVE  Overwritten(s, off, n, v, Data!Overwrite(s, off, n, v))
<1> DEFINE l == IF off + n > Len(s) THEN off + n ELSE Len(s)
           r == [k \in 1 .. l |-> IF k \in off + 1 .. off + n THEN v ELSE s[k]]
<1>1. Len(s) \in Nat /\ l \in Nat /\ off + n \in Nat
  OBVIOUS
<1>2. Data!Max({Len(s), off + n}) = l
  <2>1. Data!Max({Len(s), off + n}) = IF Len(s) >= off + n THEN Len(s) ELSE off + n
    BY <1>1, MaxOfTwo
  <2>2. QED
    BY <1>1, <2>1
<1>3. Data!Overwrite(s, off, n, v) = r
  BY <1>2 DEF Data!Overwrite
<1>4. \A k \in 1 .. l : r[k] \in Word
  <2>1. TAKE k \in 1 .. l
  <2>2. k \notin off + 1 .. off + n => k \in 1 .. Len(s)
    BY <1>1
  <2>3. k \in 1 .. Len(s) => s[k] \in Word
    OBVIOUS
  <2>4. QED
    BY <2>2, <2>3
<1>5. r \in Seq(Word) /\ Len(r) = l
  <2>1. r \in [1 .. l -> Word]
    BY <1>4
  <2> HIDE DEF r
  <2>2. QED
    BY <1>1, <2>1
<1>6. \A k \in Nat : k < l => r[k + 1] = IF off <= k /\ k < off + n THEN v ELSE s[k + 1]
  BY <1>1
<1> HIDE DEF r, l
<1>7. QED
  BY <1>3, <1>5, <1>6 DEF Overwritten, l

LEMMA EndChunkKeeps ==
  ASSUME Data!BlocksAssumption, BlocksInv, NEW x \in Writers, Data!EndChunk(x)
  PROVE  BlocksInv'
<1>0. PICK i, off, n, v : i = w[x].ino /\ off = w[x].off /\ n = w[x].n /\ v = w[x].v
  OBVIOUS
<1>1. /\ w \in [Writers -> [ino : Inodes \cup {None}, off : Nat, left : Nat, v : Word, n : Nat, tot : Nat]]
      /\ flock \in [Inodes -> Writers \cup {None}] /\ None \notin Writers /\ None \notin Inodes
      /\ size \in [Inodes -> Nat] /\ stored \in [Inodes -> Seq(Word)]
      /\ logged \in [Writers -> SUBSET (Data!DataBlocks \cup {0})]
  BY BlockFacts DEF BlocksInv, BlockTypes
<1>2. /\ n > 0 /\ w[x].tot = n
      /\ size' = [size EXCEPT ![i] = IF off + n > @ THEN off + n ELSE @]
      /\ flock' = [flock EXCEPT ![i] = None]
      /\ stored' = [stored EXCEPT ![i] = Data!Overwrite(@, off, n, v)]
      /\ logged' = [logged EXCEPT ![x] = {}]
      /\ UNCHANGED <<bitmap, words, addrs>>
  BY <1>0 DEF Data!EndChunk
<1>3. /\ i \in Inodes /\ flock[i] = x /\ n <= w[x].left /\ off <= size[i]
      /\ off + n <= Data!MAXFILE * BSIZE
      /\ off \in Nat /\ n \in Nat \ {0} /\ w[x].left \in Nat /\ v \in Word
  BY <1>0, <1>1, <1>2 DEF BlocksInv, CallsRight
<1>4. PICK call \in [ino : Inodes \cup {None}, off : Nat, left : Nat, v : Word, n : Nat, tot : Nat] :
        w' = [w EXCEPT ![x] = call] /\ call.n = 0 /\ (call.ino # None => call.left > 0)
  <2> DEFINE next == [w[x] EXCEPT !.off = w[x].off + w[x].n, !.left = w[x].left - w[x].n, !.n = 0]
             call == IF w[x].left = w[x].n THEN Data!Idle ELSE next
  <2>1. w' = [w EXCEPT ![x] = call]
    BY DEF Data!EndChunk
  <2>2. CASE w[x].left # w[x].n
    <3>1. w[x] \in [ino : Inodes \cup {None}, off : Nat, left : Nat, v : Word, n : Nat, tot : Nat]
      BY <1>1
    <3>2. w[x].left - w[x].n \in Nat /\ w[x].left - w[x].n > 0 /\ w[x].off + w[x].n \in Nat
      BY <1>0, <1>3, <2>2
    <3>3. next \in [ino : Inodes \cup {None}, off : Nat, left : Nat, v : Word, n : Nat, tot : Nat]
          /\ next.n = 0 /\ next.left > 0
      BY <3>1, <3>2
    <3> HIDE DEF next
    <3>4. QED
      BY <2>1, <2>2, <3>3
  <2>3. CASE w[x].left = w[x].n
    BY <2>1, <2>3, IdleCall
  <2>4. QED
    BY <2>2, <2>3
<1>5. w'[x] = call /\ \A y \in Writers \ {x} : w'[y] = w[y]
  BY <1>1, <1>4
<1>6. flock'[i] = None /\ \A j \in Inodes \ {i} :
        flock'[j] = flock[j] /\ size'[j] = size[j] /\ stored'[j] = stored[j]
  BY <1>1, <1>2, <1>3
<1>7. \A j \in Inodes \ {i} : flock[j] # None => flock[j] # x /\ flock[j] \in Writers /\ w'[flock[j]] = w[flock[j]]
  BY <1>0, <1>5, LockHolder
<1>8. FileRight(i)
  BY <1>3 DEF BlocksInv, WordsRight
<1>9. /\ stored'[i] \in Seq(Word) /\ size'[i] \in Nat /\ Len(stored'[i]) = size'[i]
      /\ size'[i] = IF off + n > size[i] THEN off + n ELSE size[i]
      /\ \A k \in Nat : k < size'[i] =>
           stored'[i][k + 1] = IF off <= k /\ k < off + n THEN v ELSE stored[i][k + 1]
  <2>1. stored[i] \in Seq(Word) /\ Len(stored[i]) = size[i] /\ size[i] \in Nat
    BY <1>1, <1>3, <1>8 DEF FileRight
  <2>2. stored'[i] = Data!Overwrite(stored[i], off, n, v)
        /\ size'[i] = IF off + n > size[i] THEN off + n ELSE size[i]
    BY <1>1, <1>2, <1>3
  <2>3. off <= Len(stored[i])
    BY <1>3, <2>1
  <2>4. /\ stored'[i] \in Seq(Word)
        /\ Len(stored'[i]) = IF off + n > Len(stored[i]) THEN off + n ELSE Len(stored[i])
        /\ \A k \in Nat : k < Len(stored'[i]) =>
             stored'[i][k + 1] = IF off <= k /\ k < off + n THEN v ELSE stored[i][k + 1]
    <3>1. stored[i] \in Seq(Word) /\ off \in Nat /\ n \in Nat \ {0} /\ v \in Word
          /\ off <= Len(stored[i])
      BY <1>3, <2>1, <2>3
    <3>2. Overwritten(stored[i], off, n, v, Data!Overwrite(stored[i], off, n, v))
      BY <3>1, OverwriteIs
    <3>3. QED
      BY <2>2, <3>2 DEF Overwritten
  <2>5. off + n \in Nat
    BY <1>3
  <2>6. QED
    BY <2>1, <2>2, <2>4, <2>5
<1>10. BlockTypes'
  <2>1. size' \in [Inodes -> Nat] /\ stored' \in [Inodes -> Seq(Word)]
    <3>1. \A j \in Inodes : size'[j] \in Nat /\ stored'[j] \in Seq(Word)
      BY <1>1, <1>6, <1>9
    <3>2. QED
      BY <1>1, <1>2, <3>1
  <2>2. flock' \in [Inodes -> Writers \cup {None}]
        /\ logged' \in [Writers -> SUBSET (Data!DataBlocks \cup {0})]
    BY <1>1, <1>2
  <2>3. w' \in [Writers -> [ino : Inodes \cup {None}, off : Nat, left : Nat, v : Word, n : Nat, tot : Nat]]
    BY <1>1, <1>4
  <2>4. QED
    BY <1>2, <2>1, <2>2, <2>3 DEF BlocksInv, BlockTypes, Word, Data!DataBlocks
<1>11. CallsRight'
  <2>1. \A y \in Writers :
          /\ w'[y].ino # None => w'[y].left > 0
          /\ w'[y].n > 0 =>
               /\ w'[y].ino \in Inodes /\ flock'[w'[y].ino] = y
               /\ w'[y].tot <= w'[y].n /\ w'[y].n <= w'[y].left /\ w'[y].n <= Data!Chunk
               /\ w'[y].off <= size'[w'[y].ino] /\ w'[y].off + w'[y].n <= Data!MAXFILE * BSIZE
    <3>1. TAKE y \in Writers
    <3>2. CASE y = x
      BY <1>4, <1>5, <3>2
    <3>3. CASE y # x
      <4>1. w[y].n > 0 => w[y].ino # i
        BY <1>3, <3>3, BlockFacts DEF BlocksInv, CallsRight
      <4>2. QED
        BY <1>5, <1>6, <3>3, <4>1 DEF BlocksInv, CallsRight
    <3>4. QED
      BY <3>2, <3>3
  <2>2. \A j \in Inodes : flock'[j] # None => w'[flock'[j]].ino = j /\ w'[flock'[j]].n > 0
    BY <1>6, <1>7, LockHolder
  <2>3. QED
    BY <2>1, <2>2 DEF CallsRight, Data!Chunk, Data!MAXFILE
<1>12. WordsRight'
  <2>1. ASSUME NEW j \in Inodes PROVE FileRight(j)'
    <3>1. CASE j # i
      BY <1>2, <1>6, <1>7, <3>1, NumbersStay, FileStays
    <3>2. CASE j = i
      <4>1. size'[i] <= Data!MAXFILE * BSIZE
        BY <1>3, <1>8, <1>9 DEF FileRight
      <4>2. ASSUME NEW k \in Nat, InFile(i, k)'
            PROVE  /\ Data!Mapped(i, k \div BSIZE)' # 0
                   /\ words'[Data!Mapped(i, k \div BSIZE)'][k % BSIZE] = stored'[i][k + 1]
        <5>1. k < size'[i]
          BY <1>3, <1>6, <4>2 DEF InFile
        <5>2. InFile(i, k)
          <6>1. k < off + n \/ k < size[i]
            BY <1>9, <5>1
          <6>2. QED
            BY <1>0, <1>1, <1>2, <1>3, <6>1 DEF InFile
        <5>3. Expected(i, k) = stored'[i][k + 1]
          <6>1. Expected(i, k) = IF off <= k /\ k < off + n THEN v ELSE stored[i][k + 1]
            BY <1>0, <1>1, <1>2, <1>3 DEF Expected
          <6>2. QED
            BY <1>9, <5>1, <6>1
        <5>4. k \div BSIZE \in 0 .. IndirectPlace - 1
          BY <1>3, <5>2, WordPlace
        <5>5. /\ Data!Mapped(i, k \div BSIZE) # 0
              /\ words[Data!Mapped(i, k \div BSIZE)][k % BSIZE] = Expected(i, k)
          BY <1>8, <5>2 DEF FileRight
        <5>6. QED
          BY <1>2, <1>3, <5>3, <5>4, <5>5, NumbersStay
      <4>3. QED
        BY <1>6, <1>9, <3>2, <4>1, <4>2 DEF FileRight, Expected, Data!MAXFILE
    <3>3. QED
      BY <3>1, <3>2
  <2>2. QED
    BY <2>1 DEF WordsRight
<1>13. LoggedRight'
  <2>1. logged'[x] = {} /\ \A y \in Writers \ {x} : logged'[y] = logged[y]
    BY <1>1, <1>2
  <2>2. \A y \in Writers : w'[y].n = 0 => logged'[y] = {}
    BY <1>5, <2>1 DEF BlocksInv, LoggedRight
  <2>3. ASSUME NEW y \in Writers, NEW j \in Inodes, NEW from \in Nat, NEW to \in Nat,
               w'[y].n > 0, j = w'[y].ino, from = w'[y].off, to = from + w'[y].tot,
               NEW b \in logged'[y]
        PROVE  LoggedFor(j, from, to, b)'
    <3>1. y # x /\ w'[y] = w[y] /\ logged'[y] = logged[y]
      BY <1>5, <2>1, <2>3
    <3>2. LoggedFor(j, from, to, b)
      BY <2>3, <3>1 DEF BlocksInv, LoggedRight
    <3>3. QED
      BY <1>2, <3>2, NumbersStay
  <2>4. QED
    BY <2>2, <2>3 DEF LoggedRight
<1>14. QED
  BY <1>2, <1>10, <1>11, <1>12, <1>13, NumbersStay DEF BlocksInv

\* The numbers in the places of a file are the blocks it owns.
LEMMA OwnedNumbers ==
  ASSUME Data!BlocksAssumption
  PROVE  \A i \in Inodes : \A b :
           b \in Data!Owned(i) <=> b # 0 /\ \E q \in 0 .. IndirectPlace : NumberAt(i, q) = b
<1>1. IndirectPlace \in Nat /\ IndirectPlace = Data!MAXFILE
  BY BlockFacts DEF IndirectPlace
<1>2. TAKE i \in Inodes
<1>3. TAKE b
<1>4. /\ NumberAt(i, IndirectPlace) = Data!Indirect(i)
      /\ \A q \in 0 .. IndirectPlace - 1 : NumberAt(i, q) = Data!Mapped(i, q)
  BY MappedAt
<1>5. b \in Data!Owned(i) <=>
        b # 0 /\ (b = Data!Indirect(i) \/ \E q \in 0 .. IndirectPlace - 1 : b = Data!Mapped(i, q))
  BY <1>1 DEF Data!Owned
<1>6. \A q : q \in 0 .. IndirectPlace <=> q = IndirectPlace \/ q \in 0 .. IndirectPlace - 1
  BY <1>1
<1>7. QED
  BY <1>4, <1>5, <1>6

LEMMA ItruncKeeps ==
  ASSUME Data!BlocksAssumption, BlocksInv, NEW i \in Inodes, Data!Itrunc(i)
  PROVE  BlocksInv'
<1>1. /\ flock[i] = None /\ \A x \in Writers : w[x].ino # i
      /\ bitmap' = bitmap \ Data!Owned(i)
      /\ addrs' = [addrs EXCEPT ![i] = [k \in 0 .. NDIRECT |-> 0]]
      /\ size' = [size EXCEPT ![i] = 0] /\ stored' = [stored EXCEPT ![i] = <<>>]
      /\ UNCHANGED <<words, flock, w, logged>>
  BY DEF Data!Itrunc, Data!Freed
<1>2. /\ addrs \in [Inodes -> [0 .. NDIRECT -> 0 .. NBLOCKS]]
      /\ size \in [Inodes -> Nat] /\ stored \in [Inodes -> Seq(Word)]
      /\ bitmap \subseteq Data!DataBlocks
      /\ NDIRECT \in Nat /\ BSIZE \in Nat \ {0} /\ NBLOCKS \in Nat
      /\ IndirectPlace \in Nat /\ IndirectPlace = NDIRECT + BSIZE /\ 0 \notin bitmap
  BY BlockFacts DEF BlocksInv, BlockTypes
<1>3. \A q \in 0 .. IndirectPlace - 1 : Data!Mapped(i, q)' = 0 /\ Data!Indirect(i)' = 0
  BY <1>1, <1>2 DEF Data!Mapped, Data!Indirect
<1>4. Data!Indirect(i)' = 0
  BY <1>1, <1>2 DEF Data!Indirect
<1>5. \A j \in Inodes \ {i} : \A q :
        Data!Mapped(j, q)' = Data!Mapped(j, q) /\ Data!Indirect(j)' = Data!Indirect(j)
  <2>1. \A j \in Inodes \ {i} : addrs'[j] = addrs[j]
    BY <1>1, <1>2
  <2>2. QED
    BY <1>1, <2>1 DEF Data!Mapped, Data!Indirect
<1>6. \A q \in 0 .. IndirectPlace : NumberAt(i, q)' = 0
  <2>1. TAKE q \in 0 .. IndirectPlace
  <2>2. q = IndirectPlace \/ q \in 0 .. IndirectPlace - 1
    BY <1>2
  <2>3. QED
    BY <1>3, <1>4, <2>2, MappedAt
<1>7. \A j \in Inodes \ {i}, q \in 0 .. IndirectPlace : NumberAt(j, q)' = NumberAt(j, q)
  <2>1. TAKE j \in Inodes \ {i}, q \in 0 .. IndirectPlace
  <2>2. q = IndirectPlace \/ q \in 0 .. IndirectPlace - 1
    BY <1>2
  <2>3. QED
    BY <1>5, <2>2, MappedAt
<1>8. IndirectPlace' = IndirectPlace
  BY DEF IndirectPlace, Data!MAXFILE
<1>9. \A b : b \in Data!Owned(i) <=> b # 0 /\ \E q \in 0 .. IndirectPlace : NumberAt(i, q) = b
  BY OwnedNumbers
<1>10. OnePlace' /\ NumbersInUse' /\ NothingLost'
  <2>1. OnePlace'
    BY <1>6, <1>7, <1>8 DEF BlocksInv, OnePlace
  <2>2. NumbersInUse'
    <3>1. ASSUME NEW j \in Inodes, NEW q \in 0 .. IndirectPlace PROVE NumberAt(j, q)' \in bitmap' \cup {0}
      <4>1. CASE j = i
        BY <1>6, <4>1
      <4>2. CASE j # i
        <5>1. NumberAt(j, q) \in bitmap \cup {0} /\ NumberAt(j, q)' = NumberAt(j, q)
          BY <1>7, <4>2 DEF BlocksInv, NumbersInUse
        <5>2. NumberAt(j, q) # 0 => NumberAt(j, q) \notin Data!Owned(i)
          BY <1>9, <4>2 DEF BlocksInv, OnePlace
        <5>3. QED
          BY <1>1, <5>1, <5>2
      <4>3. QED
        BY <4>1, <4>2
    <3>2. QED
      BY <1>8, <3>1 DEF NumbersInUse
  <2>3. NothingLost'
    <3>1. ASSUME NEW b \in bitmap'
          PROVE  \E j \in Inodes, q \in 0 .. IndirectPlace : NumberAt(j, q)' = b
      <4>1. b \in bitmap /\ b # 0 /\ b \notin Data!Owned(i)
        BY <1>1, <1>2, <3>1
      <4>2. PICK j \in Inodes, q \in 0 .. IndirectPlace : NumberAt(j, q) = b
        BY <4>1 DEF BlocksInv, NothingLost
      <4>3. j # i
        BY <1>9, <4>1, <4>2
      <4>4. QED
        BY <1>7, <4>2, <4>3
    <3>2. QED
      BY <1>8, <3>1 DEF NothingLost
  <2>4. QED
    BY <2>1, <2>2, <2>3
<1>11. BlockTypes'
  <2>1. addrs' \in [Inodes -> [0 .. NDIRECT -> 0 .. NBLOCKS]] /\ bitmap' \subseteq Data!DataBlocks
    BY <1>1, <1>2
  <2>2. size' \in [Inodes -> Nat] /\ stored' \in [Inodes -> Seq(Word)]
    BY <1>1, <1>2
  <2>3. QED
    BY <1>1, <2>1, <2>2 DEF BlocksInv, BlockTypes, Word, Data!DataBlocks
<1>12. CallsRight'
  <2>1. \A y \in Writers : w[y].ino \in Inodes => size'[w[y].ino] = size[w[y].ino]
    BY <1>1, <1>2
  <2>2. \A y \in Writers :
          /\ w'[y].ino # None => w'[y].left > 0
          /\ w'[y].n > 0 =>
               /\ w'[y].ino \in Inodes /\ flock'[w'[y].ino] = y
               /\ w'[y].tot <= w'[y].n /\ w'[y].n <= w'[y].left /\ w'[y].n <= Data!Chunk
               /\ w'[y].off <= size'[w'[y].ino] /\ w'[y].off + w'[y].n <= Data!MAXFILE * BSIZE
    BY <1>1, <2>1 DEF BlocksInv, CallsRight
  <2>3. \A j \in Inodes : flock'[j] # None => w'[flock'[j]].ino = j /\ w'[flock'[j]].n > 0
    BY <1>1, LockHolder
  <2>4. QED
    BY <2>2, <2>3 DEF CallsRight, Data!Chunk, Data!MAXFILE
<1>13. WordsRight'
  <2>1. ASSUME NEW j \in Inodes PROVE FileRight(j)'
    <3>1. CASE j # i
      <4>1. size'[j] = size[j] /\ stored'[j] = stored[j]
        BY <1>1, <1>2, <3>1
      <4>2. flock'[j] = flock[j] /\ (flock[j] # None => w'[flock[j]] = w[flock[j]])
        BY <1>1
      <4>3. \A q \in 0 .. IndirectPlace - 1 :
              /\ Data!Mapped(j, q)' = Data!Mapped(j, q)
              /\ Data!Mapped(j, q) # 0 => words'[Data!Mapped(j, q)] = words[Data!Mapped(j, q)]
        BY <1>1, <1>5, <3>1
      <4>4. QED
        BY <4>1, <4>2, <4>3, FileStays
    <3>2. CASE j = i
      <4>1. size'[i] = 0 /\ stored'[i] = <<>> /\ flock'[i] = None
        BY <1>1, <1>2
      <4>2. Len(stored'[i]) = size'[i] /\ size'[i] <= Data!MAXFILE * BSIZE
        <5>1. IndirectPlace * BSIZE \in Nat
          BY <1>2
        <5>2. QED
          BY <4>1, <5>1 DEF IndirectPlace
      <4>3. \A k \in Nat : ~InFile(i, k)'
        BY <4>1 DEF InFile
      <4>4. QED
        BY <3>2, <4>2, <4>3 DEF FileRight, Data!MAXFILE
    <3>3. QED
      BY <3>1, <3>2
  <2>2. QED
    BY <2>1 DEF WordsRight
<1>14. LoggedRight'
  <2>1. \A y \in Writers : w'[y].n = 0 => logged'[y] = {}
    BY <1>1 DEF BlocksInv, LoggedRight
  <2>2. ASSUME NEW y \in Writers, NEW j \in Inodes, NEW from \in Nat, NEW to \in Nat,
               w'[y].n > 0, j = w'[y].ino, from = w'[y].off, to = from + w'[y].tot,
               NEW b \in logged'[y]
        PROVE  LoggedFor(j, from, to, b)'
    <3>1. w'[y] = w[y] /\ logged'[y] = logged[y] /\ j # i
      BY <1>1, <2>2
    <3>2. LoggedFor(j, from, to, b)
      BY <2>2, <3>1 DEF BlocksInv, LoggedRight
    <3>3. QED
      BY <1>5, <3>1, <3>2 DEF LoggedFor
  <2>3. QED
    BY <2>1, <2>2 DEF LoggedRight
<1>15. QED
  BY <1>10, <1>11, <1>12, <1>13, <1>14 DEF BlocksInv

\* A step that only reports: a full disk, or nothing at all.
LEMMA FilesStay ==
  ASSUME Data!BlocksAssumption, BlocksInv,
         UNCHANGED <<bitmap, words, addrs, size, flock, w, logged, stored>>
  PROVE  BlocksInv'
<1>1. BlockTypes'
  BY DEF BlocksInv, BlockTypes, Word, Data!DataBlocks
<1>2. CallsRight'
  BY DEF BlocksInv, CallsRight, Data!Chunk, Data!MAXFILE
<1>3. WordsRight'
  <2>1. \A j \in Inodes : FileRight(j)'
    BY NumbersStay, FileStays
  <2>2. QED
    BY <2>1 DEF WordsRight
<1>4. LoggedRight'
  <2>1. \A y \in Writers : w'[y].n = 0 => logged'[y] = {}
    BY DEF BlocksInv, LoggedRight
  <2>2. ASSUME NEW y \in Writers, NEW j \in Inodes, NEW from \in Nat, NEW to \in Nat,
               w'[y].n > 0, j = w'[y].ino, from = w'[y].off, to = from + w'[y].tot,
               NEW b \in logged'[y]
        PROVE  LoggedFor(j, from, to, b)'
    <3>1. w'[y] = w[y] /\ logged'[y] = logged[y]
      OBVIOUS
    <3>2. LoggedFor(j, from, to, b)
      BY <2>2, <3>1 DEF BlocksInv, LoggedRight
    <3>3. QED
      BY <3>2, NumbersStay
  <2>3. QED
    BY <2>1, <2>2 DEF LoggedRight
<1>5. QED
  BY <1>1, <1>2, <1>3, <1>4, NumbersStay DEF BlocksInv

LEMMA BlocksStart == ASSUME Data!BlocksAssumption, Data!Init PROVE BlocksInv
<1>1. /\ bitmap = {} /\ words = [b \in Data!DataBlocks |-> [k \in 0 .. BSIZE - 1 |-> 0]]
      /\ addrs = [i \in Inodes |-> [k \in 0 .. NDIRECT |-> 0]]
      /\ size = [i \in Inodes |-> 0] /\ flock = [i \in Inodes |-> None]
      /\ w = [x \in Writers |-> Data!Idle] /\ logged = [x \in Writers |-> {}]
      /\ stored = [i \in Inodes |-> <<>>]
  BY DEF Data!Init
<1>2. /\ NBLOCKS \in Nat /\ BSIZE \in Nat \ {0} /\ NDIRECT \in Nat
      /\ IndirectPlace = NDIRECT + BSIZE /\ IndirectPlace = Data!MAXFILE
  BY BlockFacts DEF IndirectPlace
<1>3. \A i \in Inodes : Data!Indirect(i) = 0
  BY <1>1, <1>2 DEF Data!Indirect
<1>4. \A i \in Inodes, q \in 0 .. IndirectPlace : NumberAt(i, q) = 0
  BY <1>1, <1>2, <1>3 DEF NumberAt, Data!Mapped
<1>5. OnePlace /\ NumbersInUse /\ NothingLost
  BY <1>1, <1>4 DEF OnePlace, NumbersInUse, NothingLost
<1>6. BlockTypes
  <2>1. Data!Idle \in [ino : Inodes \cup {None}, off : Nat, left : Nat, v : Word, n : Nat, tot : Nat]
    BY IdleCall
  <2>2. 0 \in Word /\ 0 \in 0 .. NBLOCKS
    BY <1>2 DEF Word
  <2>3. words \in [Data!DataBlocks -> [0 .. BSIZE - 1 -> Word]]
    BY <1>1, <2>2
  <2>4. stored \in [Inodes -> Seq(Word)]
    BY <1>1
  <2>5. QED
    BY <1>1, <2>1, <2>2, <2>3, <2>4 DEF BlockTypes
<1>7. CallsRight
  BY <1>1, IdleCall DEF CallsRight
<1>8. WordsRight
  <2>1. IndirectPlace * BSIZE \in Nat
    BY <1>2
  <2>2. QED
    BY <1>1, <1>2, <2>1 DEF WordsRight, FileRight, InFile
<1>9. LoggedRight
  BY <1>1, IdleCall DEF LoggedRight
<1>10. QED
  BY <1>5, <1>6, <1>7, <1>8, <1>9 DEF BlocksInv

LEMMA BlocksStep ==
  ASSUME Data!BlocksAssumption, BlocksInv, [Data!Next]_(Data!vars)
  PROVE  BlocksInv'
<1>1. CASE UNCHANGED Data!vars
  BY <1>1, FilesStay DEF Data!vars, Data!disk
<1>2. ASSUME NEW x \in Writers, Data!WriteBlock(x) PROVE BlocksInv'
  <2>1. CASE UNCHANGED <<bitmap, words, addrs, size, flock, w, logged, stored>>
    BY <2>1, FilesStay
  <2>2. CASE \E i, off, bn, at, m, new, ind : Round(x, i, off, bn, at, m, new, ind)
    BY <2>2, RoundKeeps
  <2>3. QED
    BY <1>2, <2>1, <2>2, WriteBlockIsRound
<1>3. ASSUME NEW x \in Writers, Data!Write(x) \/ Data!BeginChunk(x) \/ Data!EndChunk(x) PROVE BlocksInv'
  BY <1>3, CallKeeps, BeginChunkKeeps, EndChunkKeeps
<1>4. ASSUME NEW i \in Inodes, Data!Itrunc(i) PROVE BlocksInv'
  BY <1>4, ItruncKeeps
<1>5. QED
  BY <1>1, <1>2, <1>3, <1>4 DEF Data!Next

-----------------------------------------------------------------------------
(* What the blocks promise *)

\* The places with a number are as many as the blocks in use.
LEMMA PlacesCounted ==
  ASSUME Data!BlocksAssumption, BlocksInv
  PROVE  Cardinality(bitmap) = Cardinality(UNION {Data!Places(i) : i \in Inodes})
<1> DEFINE P == UNION {Data!Places(i) : i \in Inodes}
           f == [p \in P |-> NumberAt(p[1], p[2])]
<1>1. IndirectPlace \in Nat /\ IndirectPlace = Data!MAXFILE
  BY BlockFacts DEF IndirectPlace
<1>2. \A i \in Inodes :
        /\ NumberAt(i, IndirectPlace) = Data!Indirect(i)
        /\ \A q \in 0 .. IndirectPlace - 1 : NumberAt(i, q) = Data!Mapped(i, q)
  BY MappedAt
<1>3. \A i \in Inodes : Data!Places(i) =
        {<<i, q>> : q \in {r \in 0 .. IndirectPlace - 1 : Data!Mapped(i, r) # 0}}
        \cup (IF Data!Indirect(i) = 0 THEN {} ELSE {<<i, IndirectPlace>>})
  BY <1>1 DEF Data!Places
<1>4. \A i \in Inodes, q \in 0 .. IndirectPlace : NumberAt(i, q) # 0 => <<i, q>> \in P
  <2>1. TAKE i \in Inodes, q \in 0 .. IndirectPlace
  <2>2. HAVE NumberAt(i, q) # 0
  <2>3. q = IndirectPlace \/ q \in 0 .. IndirectPlace - 1
    BY <1>1
  <2>4. <<i, q>> \in Data!Places(i)
    BY <1>2, <1>3, <2>2, <2>3
  <2>5. QED
    BY <2>4
<1>5. \A p \in P : \E i \in Inodes, q \in 0 .. IndirectPlace : p = <<i, q>> /\ NumberAt(i, q) # 0
  <2>1. TAKE p \in P
  <2>2. PICK i \in Inodes : p \in Data!Places(i)
    OBVIOUS
  <2>3. PICK q : /\ p = <<i, q>>
                 /\ \/ q = IndirectPlace /\ Data!Indirect(i) # 0
                    \/ q \in 0 .. IndirectPlace - 1 /\ Data!Mapped(i, q) # 0
    BY <1>3, <2>2
  <2>4. q \in 0 .. IndirectPlace /\ NumberAt(i, q) # 0
    BY <1>1, <1>2, <2>3
  <2>5. QED
    BY <2>3, <2>4
<1> HIDE DEF P
<1>6. f \in Injection(P, bitmap)
  <2>1. \A p \in P : f[p] \in bitmap
    BY <1>5 DEF BlocksInv, NumbersInUse
  <2>2. \A p, q \in P : f[p] = f[q] => p = q
    <3>1. TAKE p, q \in P
    <3>2. PICK i \in Inodes, a \in 0 .. IndirectPlace : p = <<i, a>> /\ NumberAt(i, a) # 0
      BY <1>5
    <3>3. PICK j \in Inodes, b \in 0 .. IndirectPlace : q = <<j, b>> /\ NumberAt(j, b) # 0
      BY <1>5
    <3>4. f[p] = NumberAt(i, a) /\ f[q] = NumberAt(j, b)
      BY <3>2, <3>3
    <3>5. QED
      BY <3>2, <3>3, <3>4 DEF BlocksInv, OnePlace
  <2>3. QED
    BY <2>1, <2>2 DEF Injection, IsInjective
<1>7. f \in Surjection(P, bitmap)
  <2>1. \A b \in bitmap : \E p \in P : f[p] = b
    <3>1. TAKE b \in bitmap
    <3>2. PICK i \in Inodes, q \in 0 .. IndirectPlace : NumberAt(i, q) = b
      BY DEF BlocksInv, NothingLost
    <3>3. b # 0
      BY BlockFacts DEF BlocksInv, BlockTypes
    <3>4. <<i, q>> \in P
      BY <1>4, <3>2, <3>3
    <3>5. f[<<i, q>>] = b
      BY <3>2, <3>4
    <3>6. QED
      BY <3>4, <3>5
  <2>2. f \in [P -> bitmap]
    BY <1>6 DEF Injection
  <2>3. QED
    BY <2>1, <2>2 DEF Surjection
<1>8. IsFiniteSet(bitmap)
  <2>1. IsFiniteSet(Data!DataBlocks) /\ bitmap \in SUBSET Data!DataBlocks
    BY BlockFacts, FS_Interval DEF BlocksInv, BlockTypes
  <2>2. QED
    BY <2>1, FS_Subset
<1> HIDE DEF f
<1>9. Cardinality(P) = Cardinality(bitmap)
  BY <1>6, <1>7, <1>8, FS_Injection
<1>10. QED
  BY <1>9 DEF P

LEMMA OwnersRight == ASSUME Data!BlocksAssumption, BlocksInv PROVE Data!Inv
<1>1. \A i \in Inodes : \A b :
        b \in Data!Owned(i) <=> b # 0 /\ \E q \in 0 .. IndirectPlace : NumberAt(i, q) = b
  BY OwnedNumbers
<1>2. bitmap \subseteq Data!DataBlocks /\ 0 \notin bitmap
  BY BlockFacts DEF BlocksInv, BlockTypes
<1>3. \A i \in Inodes : Data!Owned(i) \subseteq bitmap
  BY <1>1 DEF BlocksInv, NumbersInUse
<1>4. \A b \in bitmap : \E i \in Inodes : b \in Data!Owned(i)
  BY <1>1, <1>2 DEF BlocksInv, NothingLost
<1>5. bitmap = UNION {Data!Owned(i) : i \in Inodes}
  BY <1>3, <1>4
<1>6. QED
  BY <1>2, <1>3, <1>5, PlacesCounted, CountsAgree DEF Data!Inv

LEMMA WordsRead == ASSUME Data!BlocksAssumption, BlocksInv PROVE Data!ReadsBack
<1> SUFFICES ASSUME NEW i \in Inodes, flock[i] = None PROVE Data!Content(i) = stored[i]
  BY DEF Data!ReadsBack
<1>1. size[i] \in Nat /\ stored[i] \in Seq(Word) /\ Len(stored[i]) = size[i]
  BY DEF BlocksInv, BlockTypes, WordsRight, FileRight
<1>2. ASSUME NEW k \in 1 .. size[i]
      PROVE  /\ Data!Mapped(i, (k - 1) \div BSIZE) # 0
             /\ words[Data!Mapped(i, (k - 1) \div BSIZE)][(k - 1) % BSIZE] = stored[i][k]
  <2>1. PICK l \in Nat : l = k - 1 /\ l < size[i] /\ l + 1 = k
    BY <1>1
  <2>2. InFile(i, l) /\ Expected(i, l) = stored[i][l + 1]
    BY <2>1 DEF InFile, Expected
  <2>3. /\ Data!Mapped(i, l \div BSIZE) # 0
        /\ words[Data!Mapped(i, l \div BSIZE)][l % BSIZE] = Expected(i, l)
    BY <2>2 DEF BlocksInv, WordsRight, FileRight
  <2>4. QED
    BY <2>1, <2>2, <2>3
<1>3. Data!Content(i) = [k \in 1 .. size[i] |-> stored[i][k]]
  BY <1>2 DEF Data!Content
<1>4. stored[i] = [k \in 1 .. size[i] |-> stored[i][k]]
  BY <1>1
<1>5. QED
  BY <1>3, <1>4

\* As many words as fill n blocks are in at most one block more.
LEMMA ChunkSpread ==
  ASSUME NEW b \in Nat \ {0}, NEW off \in Nat, NEW tot \in Nat, NEW n \in Nat, tot <= n * b,
         NEW k \in off .. (off + tot) - 1
  PROVE  k \div b \in (off \div b) .. ((off \div b) + n)
<1>1. PICK a \in Nat, r \in 0 .. b - 1 : a = off \div b /\ off = b * a + r
  BY DivisionType
<1>2. PICK q \in Nat, s \in 0 .. b - 1 : q = k \div b /\ k = b * q + s
  BY DivisionType
<1>3. q >= a
  <2>1. SUFFICES ASSUME q + 1 <= a PROVE FALSE
    OBVIOUS
  <2>2. b * (q + 1) <= b * a /\ b * (q + 1) = b * q + b
    BY <2>1, Monotone
  <2>3. b * q \in Nat /\ b * a \in Nat
    OBVIOUS
  <2>4. QED
    BY <1>1, <1>2, <2>2, <2>3
<1>4. q <= a + n
  <2>1. SUFFICES ASSUME (a + n) + 1 <= q PROVE FALSE
    OBVIOUS
  <2>2. b * ((a + n) + 1) <= b * q
    BY <2>1, Monotone
  <2>3. b * ((a + n) + 1) = (b * a + n * b) + b
    OBVIOUS
  <2>4. b * q \in Nat /\ b * a \in Nat /\ n * b \in Nat
    OBVIOUS
  <2>5. QED
    BY <1>1, <1>2, <2>2, <2>3, <2>4
<1>5. QED
  BY <1>1, <1>2, <1>3, <1>4

\* The blocks of a chunk, its bitmap and its indirect block are few.
LEMMA FewLogged ==
  ASSUME Data!BlocksAssumption, NEW i, NEW off \in Nat, NEW tot \in Nat, tot <= Data!Chunk, NEW L,
         \A b \in L : LoggedFor(i, off, off + tot, b)
  PROVE  Cardinality(L) + 1 <= MAXOPBLOCKS
<1>1. /\ BSIZE \in Nat \ {0} /\ MAXOPBLOCKS \in Nat /\ MAXOPBLOCKS >= 6
      /\ Data!Chunk = ((((MAXOPBLOCKS - 1) - 1) - 2) \div 2) * BSIZE
  BY DEF Data!BlocksAssumption, Data!Chunk
<1>2. PICK n \in Nat : n = (((MAXOPBLOCKS - 1) - 1) - 2) \div 2 /\ n + 4 <= MAXOPBLOCKS
  <2>1. PICK h \in Nat : h = ((MAXOPBLOCKS - 1) - 1) - 2 /\ h + 4 = MAXOPBLOCKS
    BY <1>1
  <2>2. h \div 2 \in Nat /\ h = 2 * (h \div 2) + (h % 2) /\ h % 2 \in 0 .. 2 - 1
    BY DivisionType
  <2>3. QED
    BY <2>1, <2>2
<1>3. PICK a \in Nat : a = off \div BSIZE
  BY <1>1, DivisionType
<1> DEFINE g == [q \in a .. (a + n) |-> Data!Mapped(i, q)]
           T == {g[q] : q \in a .. (a + n)}
<1>4. IsFiniteSet(a .. (a + n)) /\ Cardinality(a .. (a + n)) = n + 1
  <2>1. PICK e \in Int : e = a + n /\ a <= e /\ (e - a) + 1 = n + 1 /\ a \in Int
    BY <1>2, <1>3
  <2>2. IsFiniteSet(a .. e) /\ Cardinality(a .. e) = IF a > e THEN 0 ELSE (e - a) + 1
    BY <2>1, FS_Interval
  <2>3. QED
    BY <2>1, <2>2
<1>5. g \in Surjection(a .. (a + n), T)
  BY DEF Surjection
<1>6. IsFiniteSet(T) /\ Cardinality(T) <= n + 1
  <2> HIDE DEF g, T
  <2>1. QED
    BY <1>4, <1>5, FS_Surjection
<1>7. L \subseteq (T \cup {0}) \cup {Data!Indirect(i)}
  <2>1. ASSUME NEW k \in off .. (off + tot) - 1 PROVE Data!Mapped(i, k \div BSIZE) \in T
    <3>1. k \div BSIZE \in a .. (a + n)
      BY <1>1, <1>2, <1>3, ChunkSpread
    <3>2. QED
      BY <3>1
  <2> HIDE DEF T
  <2>2. QED
    BY <2>1 DEF LoggedFor
<1> HIDE DEF T
<1>8. IsFiniteSet(T \cup {0}) /\ Cardinality(T \cup {0}) <= n + 2 /\ Cardinality(T \cup {0}) \in Nat
  <2>1. IsFiniteSet(T \cup {0}) /\ (Cardinality(T \cup {0}) = Cardinality(T)
                                     \/ Cardinality(T \cup {0}) = Cardinality(T) + 1)
    BY <1>6, FS_AddElement
  <2>2. Cardinality(T) \in Nat
    BY <1>6, FS_CardinalityType
  <2>3. QED
    BY <1>2, <1>6, <2>1, <2>2
<1>9. /\ IsFiniteSet((T \cup {0}) \cup {Data!Indirect(i)})
      /\ Cardinality((T \cup {0}) \cup {Data!Indirect(i)}) <= n + 3
      /\ Cardinality((T \cup {0}) \cup {Data!Indirect(i)}) \in Nat
  <2> DEFINE U == T \cup {0}
             V == U \cup {Data!Indirect(i)}
  <2> HIDE DEF U
  <2>1. IsFiniteSet(U) /\ Cardinality(U) <= n + 2 /\ Cardinality(U) \in Nat
    BY <1>8 DEF U
  <2>2. IsFiniteSet(V) /\ (Cardinality(V) = Cardinality(U) \/ Cardinality(V) = Cardinality(U) + 1)
    BY <2>1, FS_AddElement
  <2> HIDE DEF V
  <2>3. Cardinality(V) <= n + 3 /\ Cardinality(V) \in Nat
    BY <1>2, <2>1, <2>2
  <2>4. QED
    BY <2>2, <2>3 DEF U, V
<1>10. Cardinality(L) <= n + 3 /\ Cardinality(L) \in Nat
  BY <1>7, <1>9, FS_Subset, FS_CardinalityType
<1>11. QED
  BY <1>1, <1>2, <1>10

LEMMA LogSuffices == ASSUME Data!BlocksAssumption, BlocksInv PROVE Data!OpFits
<1> SUFFICES ASSUME NEW x \in Writers PROVE Cardinality(logged[x]) + 1 <= MAXOPBLOCKS
  BY CountsAgree DEF Data!OpFits
<1>1. w[x] \in [ino : Inodes \cup {None}, off : Nat, left : Nat, v : Word, n : Nat, tot : Nat]
  BY DEF BlocksInv, BlockTypes
<1>2. CASE w[x].n = 0
  <2>1. logged[x] = {}
    BY <1>2 DEF BlocksInv, LoggedRight
  <2>2. Cardinality(logged[x]) = 0
    BY <2>1, FS_EmptySet, Zenon
  <2>3. MAXOPBLOCKS \in Nat /\ MAXOPBLOCKS >= 6
    BY DEF Data!BlocksAssumption
  <2>4. QED
    BY <2>2, <2>3
<1>3. CASE w[x].n # 0
  <2>1. w[x].ino \in Inodes /\ w[x].off \in Nat /\ w[x].tot \in Nat /\ w[x].n > 0
        /\ w[x].tot <= w[x].n /\ w[x].n <= Data!Chunk /\ w[x].n \in Nat
    BY <1>1, <1>3 DEF BlocksInv, CallsRight
  <2>2. w[x].tot <= Data!Chunk
    BY <2>1, BlockFacts
  <2>3. \A b \in logged[x] : LoggedFor(w[x].ino, w[x].off, w[x].off + w[x].tot, b)
    <3>1. w[x].off + w[x].tot \in Nat
      BY <2>1
    <3>2. QED
      BY <2>1, <3>1 DEF BlocksInv, LoggedRight
  <2>4. QED
    BY <2>1, <2>2, <2>3, FewLogged
<1>4. QED
  BY <1>2, <1>3

LEMMA BlocksInductive == ASSUME Data!BlocksAssumption PROVE Data!Spec => []BlocksInv
<1>1. Data!Init => BlocksInv
  BY BlocksStart
<1>2. BlocksInv /\ [Data!Next]_(Data!vars) => BlocksInv'
  BY BlocksStep
<1>3. QED
  BY <1>1, <1>2, PTL DEF Data!Spec

\* Whatever files grow, share the disk and are truncated: a block in use has one place in
\* one file, and every other block is free (bmap(), balloc(), itrunc()).
THEOREM BlocksHaveOneOwner == ASSUME Data!BlocksAssumption PROVE Data!Spec => []Data!Inv
<1>1. BlocksInv => Data!Inv
  BY OwnersRight
<1>2. QED
  BY <1>1, BlocksInductive, PTL

\* A file that nobody writes reads as what was written into it, though its blocks were
\* another's before and others are written meanwhile (writei(), readi(), bzero()).
THEOREM FilesReadBack == ASSUME Data!BlocksAssumption PROVE Data!Spec => []Data!ReadsBack
<1>1. BlocksInv => Data!ReadsBack
  BY WordsRead
<1>2. QED
  BY <1>1, BlocksInductive, PTL

\* The blocks of a chunk, wherever it begins, with its indirect block, the bitmap and the
\* inode, are no more than begin_op() has reserved (filewrite()).
THEOREM ChunksFitTheLog == ASSUME Data!BlocksAssumption PROVE Data!Spec => []Data!OpFits
<1>1. BlocksInv => Data!OpFits
  BY LogSuffices
<1>2. QED
  BY <1>1, BlocksInductive, PTL
=============================================================================
