--------------------------- MODULE ServicesProofs ---------------------------
(***************************************************************************)
(* Proofs about four services. Pipe: for any finite set of writers and      *)
(* readers, any size of the ring, of the messages and of the reads, and any *)
(* M the counters wrap at that is a multiple of the size of the ring.       *)
(* Memory: for any slots, pages, sizes and programs. Console: for any       *)
(* readers, any size of the buffer and of the reads. The allocator of the   *)
(* user library: for any heap, any least increase and any sizes asked for.  *)
(***************************************************************************)
EXTENDS Pipe, Memory, FiniteSetTheorems, SequenceTheorems, WellFoundedInduction, TLAPS

-----------------------------------------------------------------------------
(* Division with remainder *)

LEMMA MultipleAtLeast ==
  ASSUME NEW b \in Nat, NEW x \in Int, x >= 1 PROVE b * x >= b
OBVIOUS

LEMMA MultipleAtMost ==
  ASSUME NEW b \in Nat, NEW x \in Int, x <= -1 PROVE b * x <= -b
OBVIOUS

LEMMA DivMod ==
  ASSUME NEW a \in Int, NEW b \in Nat \ {0}
  PROVE  /\ a % b \in 0 .. b - 1 /\ a \div b \in Int
         /\ a = b * (a \div b) + (a % b)
OBVIOUS

\* The remainder is the only one there is.
LEMMA ModUnique ==
  ASSUME NEW b \in Nat \ {0}, NEW q \in Int, NEW r \in 0 .. b - 1
  PROVE  (b * q + r) % b = r
<1> DEFINE a == b * q + r
           x == q - (a \div b)
<1>1. b * q \in Int /\ a \in Int
  OBVIOUS
<1>2. /\ a % b \in 0 .. b - 1 /\ a \div b \in Int /\ x \in Int
      /\ a = b * (a \div b) + (a % b)
  BY <1>1, DivMod
<1>3. b * x = b * q - b * (a \div b)
  BY <1>1, <1>2
<1>4. b * x = (a % b) - r
  BY <1>2, <1>3
<1>5. b * x < b /\ b * x > -b
  BY <1>2, <1>4
<1>6. x = 0
  BY <1>2, <1>5, MultipleAtLeast, MultipleAtMost
<1>7. b * x = 0
  BY <1>6
<1>8. QED
  BY <1>2, <1>4, <1>7

LEMMA ModSmall ==
  ASSUME NEW b \in Nat \ {0}, NEW r \in 0 .. b - 1
  PROVE  r % b = r
<1>1. (b * 0 + r) % b = r
  BY ModUnique
<1>2. QED
  BY <1>1

\* A multiple of b more or less does not change the remainder.
LEMMA ModPeriod ==
  ASSUME NEW b \in Nat \ {0}, NEW a \in Int, NEW q \in Int
  PROVE  (a + b * q) % b = a % b
<1>1. /\ a % b \in 0 .. b - 1 /\ a \div b \in Int
      /\ a = b * (a \div b) + (a % b)
  BY DivMod
<1>2. a + b * q = b * ((a \div b) + q) + (a % b)
  BY <1>1
<1>3. (b * ((a \div b) + q) + (a % b)) % b = a % b
  <2>1. (a \div b) + q \in Int
    BY <1>1
  <2>2. QED
    BY <1>1, <2>1, ModUnique, ZenonT(60)
<1>4. QED
  BY <1>2, <1>3

\* Remainders may be taken on the way.
LEMMA ModAdd ==
  ASSUME NEW b \in Nat \ {0}, NEW a \in Int, NEW c \in Int
  PROVE  /\ ((a % b) + c) % b = (a + c) % b
         /\ (c - (a % b)) % b = (c - a) % b
<1>1. /\ a % b \in 0 .. b - 1 /\ a \div b \in Int
      /\ a = b * (a \div b) + (a % b)
  BY DivMod
<1>2. a + c = ((a % b) + c) + b * (a \div b)
  BY <1>1
<1>3. c - a = (c - (a % b)) + b * (-(a \div b))
  BY <1>1
<1>4. /\ (((a % b) + c) + b * (a \div b)) % b = ((a % b) + c) % b
      /\ ((c - (a % b)) + b * (-(a \div b))) % b = (c - (a % b)) % b
  <2>1. a \div b \in Int /\ -(a \div b) \in Int /\ (a % b) + c \in Int /\ c - (a % b) \in Int
    BY <1>1
  <2>2. QED
    BY <2>1, ModPeriod, ZenonT(60)
<1>5. QED
  BY <1>2, <1>3, <1>4

\* The size of the ring divides M.
LEMMA ModOfM ==
  ASSUME NEW a \in Int
  PROVE  (a % M) % PIPESIZE = a % PIPESIZE
<1> USE PipeAssumption
<1> DEFINE z == M \div PIPESIZE
           y == a \div M
<1>1. z \in Int /\ M = PIPESIZE * z
  BY DivMod
<1>2. y \in Int /\ a % M \in Int /\ a = M * y + (a % M)
  BY DivMod
<1>3. M * y = PIPESIZE * (z * y) /\ z * y \in Int
  BY <1>1, <1>2
<1>4. a = (a % M) + PIPESIZE * (z * y)
  BY <1>2, <1>3
<1>5. ((a % M) + PIPESIZE * (z * y)) % PIPESIZE = (a % M) % PIPESIZE
  BY <1>2, <1>3, ModPeriod
<1>6. QED
  BY <1>4, <1>5

-----------------------------------------------------------------------------
(* The ring *)

\* The place of the k-th byte from nread on.
Cell(k) == (nread + k) % PIPESIZE

LEMMA HeldType ==
  ASSUME nread \in 0 .. M - 1, nwrite \in 0 .. M - 1
  PROVE  /\ Held \in 0 .. M - 1
         /\ nwrite = (nread + Held) % M
<1> USE PipeAssumption
<1>1. Held \in 0 .. M - 1
  BY DivMod DEF Held
<1>2. (((nwrite - nread) % M) + nread) % M = ((nwrite - nread) + nread) % M
  <2>1. M \in Nat \ {0} /\ nwrite - nread \in Int /\ nread \in Int
    OBVIOUS
  <2>2. QED
    BY <2>1, ModAdd, ZenonT(60)
<1>3. nwrite % M = nwrite
  BY ModSmall
<1>4. ((nwrite - nread) + nread) = nwrite
  OBVIOUS
<1>5. (nread + Held) % M = nwrite
  BY <1>1, <1>2, <1>3, <1>4 DEF Held
<1>6. QED
  BY <1>1, <1>5

LEMMA CellType ==
  ASSUME nread \in 0 .. M - 1, NEW k \in Int
  PROVE  Cell(k) \in 0 .. PIPESIZE - 1
BY PipeAssumption, DivMod DEF Cell

\* How far the k-th byte is from the place of the next write.
LEMMA CellDistance ==
  ASSUME nread \in 0 .. M - 1, nwrite \in 0 .. M - 1, Held <= PIPESIZE,
         NEW k \in 0 .. PIPESIZE - 1
  PROVE  (Cell(k) - nwrite) % PIPESIZE = IF k < Held THEN k - Held + PIPESIZE ELSE k - Held
<1> USE PipeAssumption
<1>1. Held \in 0 .. PIPESIZE /\ nwrite = (nread + Held) % M
  BY HeldType
<1>0. /\ PIPESIZE \in Nat \ {0} /\ k \in Int /\ k - Held \in Int /\ 1 \in Int
      /\ nwrite \in Int /\ nread + Held \in Int /\ nread + k \in Int
  BY <1>1
<1>2. nwrite % PIPESIZE = (nread + Held) % PIPESIZE
  BY <1>0, <1>1, ModOfM, ZenonT(60)
<1>3. (Cell(k) - nwrite) % PIPESIZE = ((nread + k) - nwrite) % PIPESIZE
  <2>1. -nwrite \in Int
    BY <1>0
  <2>2. (((nread + k) % PIPESIZE) + (-nwrite)) % PIPESIZE = ((nread + k) + (-nwrite)) % PIPESIZE
    BY <1>0, <2>1, ModAdd, ZenonT(60)
  <2>3. (nread + k) % PIPESIZE \in Int
    BY <1>0, DivMod
  <2>4. /\ ((nread + k) % PIPESIZE) + (-nwrite) = ((nread + k) % PIPESIZE) - nwrite
        /\ (nread + k) + (-nwrite) = (nread + k) - nwrite
    BY <1>0, <2>3
  <2>5. QED
    BY <2>2, <2>4 DEF Cell
<1>4. ((nread + k) - nwrite) % PIPESIZE = ((nread + k) - (nwrite % PIPESIZE)) % PIPESIZE
  BY <1>0, ModAdd, ZenonT(60)
<1>5. ((nread + k) - ((nread + Held) % PIPESIZE)) % PIPESIZE
        = ((nread + k) - (nread + Held)) % PIPESIZE
  BY <1>0, ModAdd, ZenonT(60)
<1>6. (nread + k) - (nread + Held) = k - Held
  BY <1>1
<1>7. (Cell(k) - nwrite) % PIPESIZE = (k - Held) % PIPESIZE
  BY <1>2, <1>3, <1>4, <1>5, <1>6
<1>8. CASE k >= Held
  <2>1. k - Held \in 0 .. PIPESIZE - 1
    BY <1>1, <1>8
  <2>2. QED
    BY <1>1, <1>7, <1>8, <2>1, ModSmall
<1>9. CASE k < Held
  <2>1. k - Held + PIPESIZE \in 0 .. PIPESIZE - 1
    BY <1>1, <1>9
  <2>2. ((k - Held) + PIPESIZE * 1) % PIPESIZE = (k - Held) % PIPESIZE
    BY <1>0, ModPeriod, ZenonT(60)
  <2>3. (k - Held) + PIPESIZE * 1 = k - Held + PIPESIZE
    BY <1>1
  <2>4. QED
    BY <1>1, <1>7, <1>9, <2>1, <2>2, <2>3, ModSmall
<1>10. QED
  BY <1>1, <1>8, <1>9

\* Bytes that are put go behind those that are there, and destroy none of them.
LEMMA RingPut ==
  ASSUME nread \in 0 .. M - 1, nwrite \in 0 .. M - 1, Held <= PIPESIZE,
         NEW p, NEW n \in 0 .. PIPESIZE - Held, Put(p, n), nread' = nread
  PROVE  /\ Held' = Held + n /\ nwrite' \in 0 .. M - 1
         /\ \A k \in 0 .. Held - 1 : data'[Cell(k)] = data[Cell(k)]
         /\ \A k \in Held .. Held + n - 1 : data'[Cell(k)] = <<p, i[p] + (k - Held) + 1>>
<1> USE PipeAssumption
<1>1. Held \in 0 .. PIPESIZE
  BY HeldType
<1>2. nwrite' = (nwrite + n) % M
  BY DEF Put
<1>0. /\ M \in Nat \ {0} /\ n \in Int /\ nwrite - nread \in Int
      /\ nwrite + n \in Int /\ -nread \in Int
  BY <1>1
<1>3. Held' = Held + n
  <2>1. Held' = (((nwrite + n) % M) - nread) % M
    BY <1>2 DEF Held
  <2>2. (((nwrite + n) % M) + (-nread)) % M = ((nwrite + n) + (-nread)) % M
    BY <1>0, ModAdd, ZenonT(60)
  <2>3. (((nwrite - nread) % M) + n) % M = ((nwrite - nread) + n) % M
    BY <1>0, ModAdd, ZenonT(60)
  <2>4. /\ ((nwrite + n) % M) + (-nread) = ((nwrite + n) % M) - nread
        /\ (nwrite + n) + (-nread) = (nwrite - nread) + n
    BY <1>1, DivMod
  <2>5. Held' = (Held + n) % M
    BY <2>1, <2>2, <2>3, <2>4 DEF Held
  <2>6. Held + n \in 0 .. M - 1
    BY <1>1
  <2>7. QED
    BY <2>5, <2>6, ModSmall
<1>4. nwrite' \in 0 .. M - 1
  BY <1>1, <1>2, DivMod
<1>5. ASSUME NEW k \in 0 .. Held + n - 1
      PROVE  data'[Cell(k)] = IF k < Held THEN data[Cell(k)] ELSE <<p, i[p] + (k - Held) + 1>>
  <2>1. k \in 0 .. PIPESIZE - 1
    BY <1>1
  <2>2. Cell(k) \in 0 .. PIPESIZE - 1
    BY <2>1, CellType
  <2>3. (Cell(k) - nwrite) % PIPESIZE = IF k < Held THEN k - Held + PIPESIZE ELSE k - Held
    BY <2>1, CellDistance
  <2>4. data'[Cell(k)] = IF (Cell(k) - nwrite) % PIPESIZE < n
                         THEN <<p, i[p] + ((Cell(k) - nwrite) % PIPESIZE) + 1>>
                         ELSE data[Cell(k)]
    BY <2>2 DEF Put
  <2>5. QED
    BY <1>1, <2>1, <2>3, <2>4
<1>6. \A k \in 0 .. Held - 1 : data'[Cell(k)] = data[Cell(k)]
  <2> TAKE k \in 0 .. Held - 1
  <2>1. k \in 0 .. Held + n - 1 /\ k < Held
    BY <1>1
  <2>2. QED
    BY <2>1, <1>5, ZenonT(60)
<1>7. \A k \in Held .. Held + n - 1 : data'[Cell(k)] = <<p, i[p] + (k - Held) + 1>>
  <2> TAKE k \in Held .. Held + n - 1
  <2>1. k \in 0 .. Held + n - 1 /\ ~(k < Held)
    BY <1>1
  <2>2. QED
    BY <2>1, <1>5, ZenonT(60)
<1>8. QED
  BY <1>3, <1>4, <1>6, <1>7

\* What is read goes from the front.
LEMMA RingGet ==
  ASSUME nread \in 0 .. M - 1, nwrite \in 0 .. M - 1, Held <= PIPESIZE,
         NEW n \in 0 .. Held, nread' = (nread + n) % M, nwrite' = nwrite
  PROVE  /\ Held' = Held - n /\ nread' \in 0 .. M - 1
         /\ \A k \in Nat : Cell(k)' = Cell(n + k)
<1> USE PipeAssumption
<1>1. Held \in 0 .. PIPESIZE /\ n \in Nat
  BY HeldType
<1>0. /\ M \in Nat \ {0} /\ PIPESIZE \in Nat \ {0}
      /\ nwrite \in Int /\ nwrite - nread \in Int
      /\ nread + n \in Int /\ -n \in Int
  BY <1>1
<1>2. Held' = Held - n
  <2>1. Held' = (nwrite - ((nread + n) % M)) % M
    BY DEF Held
  <2>2. (nwrite - ((nread + n) % M)) % M = (nwrite - (nread + n)) % M
    BY <1>0, ModAdd, ZenonT(60)
  <2>3. (((nwrite - nread) % M) + (-n)) % M = ((nwrite - nread) + (-n)) % M
    BY <1>0, ModAdd, ZenonT(60)
  <2>4. (nwrite - nread) + (-n) = nwrite - (nread + n)
    BY <1>1
  <2>5. ((nwrite - nread) % M) + (-n) = Held - n
    BY <1>1 DEF Held
  <2>6. Held' = (Held - n) % M
    BY <2>1, <2>2, <2>3, <2>4, <2>5
  <2>7. Held - n \in 0 .. M - 1
    BY <1>1
  <2>8. QED
    BY <2>6, <2>7, ModSmall
<1>3. nread' \in 0 .. M - 1
  BY <1>1, DivMod
<1>4. ASSUME NEW k \in Nat PROVE Cell(k)' = Cell(n + k)
  <2>1. Cell(k)' = (((nread + n) % M) + k) % PIPESIZE
    BY DEF Cell
  <2>2. (nread + n) % M \in Int /\ k \in Int
    BY <1>1, DivMod
  <2>3. ((((nread + n) % M) % PIPESIZE) + k) % PIPESIZE = (((nread + n) % M) + k) % PIPESIZE
    BY <1>0, <2>2, ModAdd, ZenonT(60)
  <2>4. ((nread + n) % M) % PIPESIZE = (nread + n) % PIPESIZE
    BY <1>0, ModOfM, ZenonT(60)
  <2>5. (((nread + n) % PIPESIZE) + k) % PIPESIZE = ((nread + n) + k) % PIPESIZE
    BY <1>0, <2>2, ModAdd, ZenonT(60)
  <2>6. (nread + n) + k = nread + (n + k)
    BY <1>1
  <2>7. QED
    BY <2>1, <2>3, <2>4, <2>5, <2>6 DEF Cell
<1>5. QED
  BY <1>2, <1>3, <1>4

-----------------------------------------------------------------------------
(* The inductive invariant *)

\* The places between nread and nwrite hold bytes.
HeldAreBytes == \A k \in 0 .. Held - 1 : data[Cell(k)] \in Byte

\* Writers write and readers read; who goes to sleep has the lock.
Positions ==
  /\ \A w \in Writers : pc[w] \notin {"read", "rsleep", "rasleep"}
  /\ \A r \in Readers : pc[r] \notin {"write", "wsleep", "wasleep"}
  /\ \A p \in Procs : pc[p] \in {"wsleep", "rsleep"} => lock = p

\* A writer who is not through has something to write.
Unfinished == \A w \in Writers : pc[w] \in {"write", "wsleep", "wasleep"} => i[w] < Length

\* One process at most closes an end of the pipe, after all others of that end are done;
\* an end that is closed has no process left.
Ends ==
  /\ \A e \in {"w", "r"} : ref[e] = Cardinality(Open(e))
  /\ \A p, q \in Procs : pc[p] = "pipeclose" /\ End(q) = End(p) /\ q # p => pc[q] = "done"
  /\ ~writeopen => \A w \in Writers : pc[w] = "done"
  /\ ~readopen => \A r \in Readers : pc[r] = "done"
  /\ freed => ~writeopen /\ ~readopen

\* The reason to sleep is there from the test on.
Sleepers == \A p \in Procs :
  /\ pc[p] \in {"wsleep", "wasleep"} => Held = PIPESIZE /\ readopen
  /\ pc[p] \in {"rsleep", "rasleep"} => (Held = 0 /\ writeopen) \/ \E w \in Writers : killed[w]

IInv ==
  /\ TypeOK /\ Held <= PIPESIZE /\ HeldAreBytes
  /\ Positions /\ Unfinished /\ Ends /\ Sleepers

\* What was put into the pipe is in it or has been received.  Without kills a writer
\* leaves with its message written, a reader at the end of the file.
Left(p) == pc[p] \in {"close", "pipeclose", "done"}

InPipeOrReceived == \A w \in Writers : \A k \in 1 .. i[w] :
  \/ \E n \in DOMAIN received : received[n] = <<w, k>>
  \/ \E d \in 0 .. Held - 1 : data[Cell(d)] = <<w, k>>

LeftInOrder == (\A p \in Procs : ~killed[p]) =>
  /\ \A w \in Writers : Left(w) => i[w] = Length
  /\ \A r \in Readers : Left(r) => Held = 0 /\ ~writeopen

NothingLost == InPipeOrReceived /\ LeftInOrder

\* What the assumption says, without the remainder in it.
LEMMA Sizes ==
  /\ PIPESIZE \in Nat \ {0} /\ Length \in Nat \ {0} /\ ReadSize \in Nat \ {0}
  /\ M \in Nat /\ M > PIPESIZE
BY PipeAssumption

LEMMA Sides == Writers \cap Readers = {} /\ None \notin Procs
BY PipeAssumption DEF Procs

LEMMA ProcsFinite == IsFiniteSet(Procs)
BY PipeAssumption DEF Procs

\* The ends of the pipe belong to the writers and to the readers.
LEMMA EndOf ==
  ASSUME NEW p \in Procs
  PROVE  /\ p \in Writers <=> End(p) = "w"
         /\ p \in Readers <=> End(p) = "r"
         /\ End(p) \in {"w", "r"}
BY PipeAssumption DEF End, Procs

\* Where writers and readers can be.
LEMMA WriterAt ==
  ASSUME TypeOK, Positions, NEW w \in Writers
  PROVE  /\ w \in Procs
         /\ pc[w] \in {"write", "wsleep", "wasleep", "close", "pipeclose", "done"}
<1>1. w \in Procs
  BY DEF Procs
<1>2. pc[w] \in {"write", "wsleep", "wasleep", "read", "rsleep", "rasleep",
                "close", "pipeclose", "done"}
  BY <1>1 DEF TypeOK
<1>3. pc[w] \notin {"read", "rsleep", "rasleep"}
  BY DEF Positions
<1>4. QED
  BY <1>1, <1>2, <1>3

\* As long as nobody closes, the processes that have an end open are the same.
LEMMA SameOpen ==
  ASSUME \A q \in Procs : pc'[q] \in {"pipeclose", "done"} <=> pc[q] \in {"pipeclose", "done"},
         NEW e
  PROVE  Open(e)' = Open(e)
BY DEF Open, End

\* What a run of the loop in pipewrite() leaves behind.
LEMMA PutKeeps ==
  ASSUME TypeOK, Held <= PIPESIZE, HeldAreBytes, NEW p \in Writers,
         NEW n \in 0 .. PIPESIZE - Held, n <= Length - i[p], Put(p, n), nread' = nread
  PROVE  /\ data' \in [0 .. PIPESIZE - 1 -> Byte \cup {None}]
         /\ nwrite' \in 0 .. M - 1
         /\ i' \in [Procs -> 0 .. Length] /\ i' = [i EXCEPT ![p] = @ + n]
         /\ Held' = Held + n /\ HeldAreBytes'
<1> USE PipeAssumption
<1>1. /\ nread \in 0 .. M - 1 /\ nwrite \in 0 .. M - 1 /\ i[p] \in 0 .. Length
      /\ p \in Procs /\ i \in [Procs -> 0 .. Length]
      /\ data \in [0 .. PIPESIZE - 1 -> Byte \cup {None}]
  BY DEF TypeOK, Procs
<1>2. Held \in 0 .. PIPESIZE /\ n \in Nat
  BY <1>1, HeldType
<1>3. /\ Held' = Held + n /\ nwrite' \in 0 .. M - 1
      /\ \A k \in 0 .. Held - 1 : data'[Cell(k)] = data[Cell(k)]
      /\ \A k \in Held .. Held + n - 1 : data'[Cell(k)] = <<p, i[p] + (k - Held) + 1>>
  BY <1>1, RingPut
<1>4. i' \in [Procs -> 0 .. Length] /\ i' = [i EXCEPT ![p] = @ + n]
  <2>1. i' = [i EXCEPT ![p] = @ + n]
    BY DEF Put
  <2>2. i[p] + n \in 0 .. Length
    BY <1>1, <1>2
  <2>3. QED
    BY <1>1, <2>1, <2>2
<1>5. ASSUME NEW d \in 0 .. n - 1 PROVE <<p, i[p] + d + 1>> \in Byte
  <2>1. i[p] + d + 1 \in 1 .. Length
    BY <1>1, <1>2
  <2>2. QED
    BY <2>1 DEF Byte
<1>6. data' \in [0 .. PIPESIZE - 1 -> Byte \cup {None}]
  <2>1. ASSUME NEW k \in 0 .. PIPESIZE - 1, (k - nwrite) % PIPESIZE < n
        PROVE  <<p, i[p] + ((k - nwrite) % PIPESIZE) + 1>> \in Byte
    <3>1. k - nwrite \in Int
      BY <1>1
    <3>2. (k - nwrite) % PIPESIZE \in 0 .. PIPESIZE - 1
      BY <3>1, DivMod
    <3>3. (k - nwrite) % PIPESIZE \in 0 .. n - 1
      BY <1>2, <2>1, <3>2
    <3>4. QED
      BY <3>3, <1>5
  <2>2. QED
    BY <1>1, <2>1, ZenonT(60) DEF Put
<1>7. HeldAreBytes'
  <2> SUFFICES ASSUME NEW k \in 0 .. Held + n - 1 PROVE data'[Cell(k)] \in Byte
    <3>1. \A j \in Nat : Cell(j)' = Cell(j)
      BY DEF Cell
    <3>2. 0 .. Held' - 1 \subseteq Nat /\ 0 .. Held' - 1 = 0 .. Held + n - 1
      BY <1>2, <1>3
    <3>3. QED
      BY <3>1, <3>2 DEF HeldAreBytes
  <2>1. CASE k < Held
    <3>1. k \in 0 .. Held - 1
      BY <1>2, <2>1
    <3>2. QED
      BY <1>3, <3>1 DEF HeldAreBytes
  <2>2. CASE ~(k < Held)
    <3>1. k \in Held .. Held + n - 1 /\ k - Held \in 0 .. n - 1
      BY <1>2, <2>2
    <3>2. QED
      BY <1>3, <1>5, <3>1
  <2>3. QED
    BY <2>1, <2>2
<1>8. QED
  BY <1>3, <1>4, <1>6, <1>7

\* What a read leaves behind, and what it returns.
LEMMA GetKeeps ==
  ASSUME TypeOK, Held <= PIPESIZE, HeldAreBytes, NEW n \in 0 .. Held,
         nread' = (nread + n) % M, nwrite' = nwrite, data' = data
  PROVE  /\ nread' \in 0 .. M - 1
         /\ Held' = Held - n /\ HeldAreBytes'
         /\ [k \in 1 .. n |-> data[(nread + k - 1) % PIPESIZE]] \in Seq(Byte)
<1> USE PipeAssumption
<1>1. nread \in 0 .. M - 1 /\ nwrite \in 0 .. M - 1
  BY DEF TypeOK
<1>2. Held \in 0 .. PIPESIZE /\ n \in Nat
  BY <1>1, HeldType
<1>3. /\ Held' = Held - n /\ nread' \in 0 .. M - 1
      /\ \A k \in Nat : Cell(k)' = Cell(n + k)
  BY <1>1, RingGet
<1>4. HeldAreBytes'
  <2> SUFFICES ASSUME NEW k \in 0 .. Held - n - 1 PROVE data[Cell(n + k)] \in Byte
    <3>1. 0 .. Held' - 1 \subseteq Nat
      BY <1>2, <1>3
    <3>2. QED
      BY <1>2, <1>3, <3>1 DEF HeldAreBytes
  <2>1. k \in Nat /\ n + k \in 0 .. Held - 1
    BY <1>2
  <2>2. QED
    BY <1>3, <2>1 DEF HeldAreBytes
<1>5. ASSUME NEW k \in 1 .. n PROVE data[(nread + k - 1) % PIPESIZE] \in Byte
  <2>1. k - 1 \in 0 .. Held - 1 /\ nread + k - 1 = nread + (k - 1)
    BY <1>1, <1>2
  <2>2. QED
    BY <2>1 DEF HeldAreBytes, Cell
<1>6. [k \in 1 .. n |-> data[(nread + k - 1) % PIPESIZE]] \in Seq(Byte)
  BY <1>2, <1>5
<1>7. QED
  BY <1>3, <1>4, <1>6

-----------------------------------------------------------------------------
(* Each action preserves the invariant *)

LEMMA IInvInit == Init => IInv
<1> SUFFICES ASSUME Init PROVE IInv
  OBVIOUS
<1> USE PipeAssumption
<1>1. Held = 0
  <2>1. 0 % M = 0
    BY ModSmall
  <2>2. QED
    BY <2>1 DEF Init, Held
<1>2. HeldAreBytes /\ Held <= PIPESIZE
  BY <1>1 DEF HeldAreBytes
<1>3. Open("w") = Writers /\ Open("r") = Readers
  BY DEF Init, Open, End, Procs
<1>4. Cardinality(Writers) \in Nat /\ Cardinality(Readers) \in Nat
  BY FS_Subset, FS_CardinalityType
<1>5. TypeOK
  <2>1. received \in Seq(Byte)
    BY EmptySeq DEF Init
  <2>2. QED
    BY <1>4, <2>1 DEF Init, TypeOK, Procs
<1>6. Positions /\ Unfinished
  BY Sizes, Sides DEF Init, Positions, Unfinished, Procs
<1>7. Ends
  BY <1>3 DEF Init, Ends, End, Procs
<1>8. Sleepers
  BY DEF Init, Sleepers, Procs
<1>9. QED
  BY <1>2, <1>5, <1>6, <1>7, <1>8 DEF IInv

\* The loop of pipewrite() up to its end or to the test before sleep().
LEMMA WriteSplit ==
  ASSUME IInv, NEW p \in Writers, Write(p)
  PROVE  \E n \in 0 .. PIPESIZE - Held :
           /\ n <= Length - i[p] /\ Put(p, n) /\ nread' = nread
           /\ \/ n = Length - i[p] /\ WakingReaders(p, "close") /\ lock' = lock
              \/ /\ n < Length - i[p] /\ Held + n = PIPESIZE
                 /\ \/ ~readopen /\ Goto(p, "close") /\ lock' = lock
                    \/ killed[p] /\ Goto(p, "close") /\ lock' = lock
                    \/ readopen /\ WakingReaders(p, "wsleep") /\ lock' = p
<1> USE PipeAssumption
<1>1. Held \in 0 .. PIPESIZE /\ i[p] \in 0 .. Length /\ Room = PIPESIZE - Held
  <2>1. nread \in 0 .. M - 1 /\ nwrite \in 0 .. M - 1 /\ i[p] \in 0 .. Length
    BY DEF IInv, TypeOK, Procs
  <2>2. QED
    BY <2>1, HeldType DEF IInv, Room, Held
<1>2. CASE /\ Length - i[p] <= Room /\ Put(p, Length - i[p])
           /\ WakingReaders(p, "close") /\ lock' = lock
  <2>1. Length - i[p] \in 0 .. PIPESIZE - Held
    BY <1>1, <1>2
  <2>2. nread' = nread
    BY DEF Write
  <2>3. QED
    BY <1>1, <1>2, <2>1, <2>2
<1>3. CASE /\ Length - i[p] > Room /\ Put(p, Room)
           /\ IF ~readopen \/ killed[p]
              THEN Goto(p, "close") /\ lock' = lock
              ELSE WakingReaders(p, "wsleep") /\ lock' = p
  <2>1. Room \in 0 .. PIPESIZE - Held /\ Room < Length - i[p] /\ Held + Room = PIPESIZE
    BY <1>1, <1>3
  <2>2. nread' = nread
    BY DEF Write
  <2>3. QED
    BY <1>1, <1>3, <2>1, <2>2
<1>4. QED
  BY <1>2, <1>3 DEF Write

LEMMA IInvWrite == ASSUME IInv, NEW p \in Writers, Write(p) PROVE IInv'
<1> USE Sizes
<1>1. PICK n \in 0 .. PIPESIZE - Held :
           /\ n <= Length - i[p] /\ Put(p, n) /\ nread' = nread
           /\ \/ n = Length - i[p] /\ WakingReaders(p, "close") /\ lock' = lock
              \/ /\ n < Length - i[p] /\ Held + n = PIPESIZE
                 /\ \/ ~readopen /\ Goto(p, "close") /\ lock' = lock
                    \/ killed[p] /\ Goto(p, "close") /\ lock' = lock
                    \/ readopen /\ WakingReaders(p, "wsleep") /\ lock' = p
  BY WriteSplit
<1>2. /\ data' \in [0 .. PIPESIZE - 1 -> Byte \cup {None}]
      /\ nwrite' \in 0 .. M - 1
      /\ i' \in [Procs -> 0 .. Length] /\ i' = [i EXCEPT ![p] = @ + n]
      /\ Held' = Held + n /\ HeldAreBytes'
  BY <1>1, PutKeeps DEF IInv
<1>3. Held \in 0 .. PIPESIZE /\ i[p] \in 0 .. Length /\ i \in [Procs -> 0 .. Length]
  <2>1. /\ nread \in 0 .. M - 1 /\ nwrite \in 0 .. M - 1 /\ i[p] \in 0 .. Length
        /\ i \in [Procs -> 0 .. Length]
    BY DEF IInv, TypeOK, Procs
  <2>2. QED
    BY <2>1, HeldType DEF IInv
<1>4. /\ p \in Procs /\ pc[p] = "write" /\ lock = None
      /\ readopen' = readopen /\ writeopen' = writeopen /\ freed' = freed /\ ref' = ref
      /\ killed' = killed /\ received' = received
  BY DEF Write, Procs
<1>5. /\ pc'[p] \in {"close", "wsleep"} /\ lock' \in {lock, p}
      /\ pc'[p] = "wsleep" => lock' = p
      /\ \A q \in Procs : q # p => pc'[q] = pc[q] \/ (pc[q] = "rasleep" /\ pc'[q] = "read")
      /\ pc' \in [Procs -> {"write", "wsleep", "wasleep", "read", "rsleep", "rasleep",
                            "close", "pipeclose", "done"}]
  BY <1>1, <1>4 DEF WakingReaders, GotoWaking, Goto, IInv, TypeOK
<1>6. TypeOK'
  BY <1>1, <1>2, <1>4, <1>5 DEF IInv, TypeOK
<1>7. (Held <= PIPESIZE)'
  BY <1>1, <1>2, <1>3
<1>8. Positions'
  <2>1. ASSUME NEW w \in Writers PROVE pc'[w] \notin {"read", "rsleep", "rasleep"}
    <3>1. w \in Procs /\ pc[w] \in {"write", "wsleep", "wasleep", "close", "pipeclose", "done"}
      BY WriterAt DEF IInv
    <3>2. QED
      BY <1>5, <3>1
  <2>3. \A r \in Readers : pc'[r] \notin {"write", "wsleep", "wasleep"}
    BY <1>4, <1>5 DEF IInv, Positions, Procs
  <2>4. \A q \in Procs : pc'[q] \in {"wsleep", "rsleep"} => lock' = q
    BY <1>4, <1>5, Sides DEF IInv, Positions, Procs
  <2>5. QED
    BY <2>1, <2>3, <2>4 DEF Positions
<1>12. Unfinished'
  <2>1. pc'[p] = "wsleep" => n < Length - i[p]
    BY <1>1, <1>4 DEF WakingReaders, GotoWaking, Goto, IInv, TypeOK
  <2>2. i'[p] = i[p] + n /\ \A q \in Procs : q # p => i'[q] = i[q]
    BY <1>2, <1>3, <1>4
  <2>3. QED
    BY <1>3, <1>4, <1>5, <2>1, <2>2 DEF IInv, Unfinished, Procs
<1>9. Ends'
  <2>1. \A q \in Procs : /\ pc'[q] = "pipeclose" <=> pc[q] = "pipeclose"
                         /\ pc'[q] = "done" <=> pc[q] = "done"
    BY <1>4, <1>5
  <2>2. \A e : Open(e)' = Open(e)
    BY <2>1, SameOpen
  <2>3. QED
    BY <1>4, <2>1, <2>2 DEF IInv, Ends, Procs, End
<1>10. Sleepers'
  <2>1. ASSUME NEW q \in Procs, pc'[q] \in {"wsleep", "wasleep"}
        PROVE  Held' = PIPESIZE /\ readopen'
    <3>1. CASE q = p
      BY <1>1, <1>2, <1>4, <2>1, <3>1 DEF WakingReaders, GotoWaking, Goto, IInv, TypeOK
    <3>2. CASE q # p
      <4>1. Held = PIPESIZE /\ readopen
        BY <1>5, <2>1, <3>2 DEF IInv, Sleepers
      <4>2. QED
        BY <1>1, <1>2, <1>3, <1>4, <4>1
    <3>3. QED
      BY <3>1, <3>2
  <2>2. ASSUME NEW q \in Procs, pc'[q] \in {"rsleep", "rasleep"}
        PROVE  \E w \in Writers : killed'[w]
    <3>1. q # p /\ pc'[q] = pc[q] /\ pc[q] = "rasleep" /\ q \in Readers
      <4>1. q # p /\ pc'[q] = pc[q]
        BY <1>5, <2>2
      <4>2. pc[q] # "rsleep"
        BY <1>4, <2>2, <4>1, Sides DEF IInv, Positions
      <4>3. QED
        BY <2>2, <4>1, <4>2 DEF IInv, Positions, Procs
    <3>2. ~(WakingReaders(p, "close") \/ WakingReaders(p, "wsleep"))
      BY <2>2, <3>1 DEF WakingReaders, GotoWaking
    <3>3. readopen
      BY <3>1 DEF IInv, Ends
    <3>4. QED
      BY <1>1, <1>4, <3>2, <3>3
  <2>3. QED
    BY <2>1, <2>2 DEF Sleepers
<1>11. QED
  BY <1>2, <1>6, <1>7, <1>8, <1>9, <1>10, <1>12 DEF IInv

LEMMA IInvWriteSleep == ASSUME IInv, NEW p \in Writers, WriteSleep(p) PROVE IInv'
<1> USE Sizes
<1>1. /\ p \in Procs /\ pc[p] = "wsleep" /\ pc' = [pc EXCEPT ![p] = "wasleep"] /\ lock' = None
      /\ UNCHANGED <<data, nread, nwrite, readopen, writeopen, freed, ref, i, killed, received>>
  BY DEF WriteSleep, Goto, pipe, Procs
<1>2. pc'[p] = "wasleep" /\ \A q \in Procs : q # p => pc'[q] = pc[q]
  BY <1>1 DEF IInv, TypeOK
<1>3. TypeOK'
  BY <1>1 DEF IInv, TypeOK
<1>4. Held' = Held /\ HeldAreBytes'
  BY <1>1 DEF IInv, HeldAreBytes, Held, Cell
<1>5. lock = p /\ Held = PIPESIZE /\ readopen
  BY <1>1 DEF IInv, Positions, Sleepers
<1>6. Positions'
  BY <1>1, <1>2, <1>5 DEF IInv, Positions, Procs
<1>7. Unfinished'
  BY <1>1, <1>2 DEF IInv, Unfinished, Procs
<1>8. Ends'
  <2>1. \A e : Open(e)' = Open(e)
    BY <1>1, <1>2, SameOpen
  <2>2. QED
    BY <1>1, <1>2, <2>1 DEF IInv, Ends, End, Procs
<1>9. Sleepers'
  BY <1>1, <1>2, <1>4, <1>5 DEF IInv, Sleepers
<1>10. QED
  BY <1>3, <1>4, <1>6, <1>7, <1>8, <1>9 DEF IInv

LEMMA IInvReadSleep == ASSUME IInv, NEW p \in Readers, ReadSleep(p) PROVE IInv'
<1> USE Sizes
<1>1. /\ p \in Procs /\ pc[p] = "rsleep" /\ pc' = [pc EXCEPT ![p] = "rasleep"] /\ lock' = None
      /\ UNCHANGED <<data, nread, nwrite, readopen, writeopen, freed, ref, i, killed, received>>
  BY DEF ReadSleep, Goto, pipe, Procs
<1>2. pc'[p] = "rasleep" /\ \A q \in Procs : q # p => pc'[q] = pc[q]
  BY <1>1 DEF IInv, TypeOK
<1>3. TypeOK'
  BY <1>1 DEF IInv, TypeOK
<1>4. Held' = Held /\ HeldAreBytes'
  BY <1>1 DEF IInv, HeldAreBytes, Held, Cell
<1>5. lock = p
  BY <1>1 DEF IInv, Positions
<1>6. Positions'
  BY <1>1, <1>2, <1>5, Sides DEF IInv, Positions, Procs
<1>7. Unfinished'
  BY <1>1, <1>2 DEF IInv, Unfinished, Procs
<1>8. Ends'
  <2>1. \A e : Open(e)' = Open(e)
    BY <1>1, <1>2, SameOpen
  <2>2. QED
    BY <1>1, <1>2, <2>1 DEF IInv, Ends, End, Procs
<1>9. Sleepers'
  BY <1>1, <1>2, <1>4 DEF IInv, Sleepers
<1>10. QED
  BY <1>3, <1>4, <1>6, <1>7, <1>8, <1>9 DEF IInv

LEMMA IInvReadNothing == ASSUME IInv, NEW p \in Readers, ReadNothing(p) PROVE IInv'
<1> USE Sizes
<1>1. /\ p \in Procs /\ pc[p] = "read" /\ lock = None /\ Held = 0
      /\ UNCHANGED <<data, nread, nwrite, readopen, writeopen, freed, ref, i, killed, received>>
      /\ \/ ~writeopen /\ WakingWriters(p, "close") /\ lock' = lock
         \/ killed[p] /\ Goto(p, "close") /\ lock' = lock
         \/ writeopen /\ Goto(p, "rsleep") /\ lock' = p
  BY DEF ReadNothing, pipe, Procs
<1>2. /\ pc'[p] \in {"close", "rsleep"} /\ lock' \in {lock, p}
      /\ pc'[p] = "rsleep" => lock' = p /\ writeopen
      /\ \A q \in Procs : q # p => pc'[q] = pc[q] \/ (pc[q] = "wasleep" /\ pc'[q] = "write")
      /\ pc' \in [Procs -> {"write", "wsleep", "wasleep", "read", "rsleep", "rasleep",
                            "close", "pipeclose", "done"}]
  BY <1>1 DEF WakingWriters, GotoWaking, Goto, IInv, TypeOK
<1>3. TypeOK'
  BY <1>1, <1>2 DEF IInv, TypeOK
<1>4. Held' = Held /\ HeldAreBytes'
  BY <1>1 DEF IInv, HeldAreBytes, Held, Cell
<1>5. Positions'
  <2>1. \A w \in Writers : pc'[w] \notin {"read", "rsleep", "rasleep"}
    BY <1>1, <1>2 DEF IInv, Positions, Procs
  <2>2. ASSUME NEW r \in Readers PROVE pc'[r] \notin {"write", "wsleep", "wasleep"}
    BY <1>1, <1>2 DEF IInv, Positions, Procs
  <2>3. \A q \in Procs : pc'[q] \in {"wsleep", "rsleep"} => lock' = q
    BY <1>1, <1>2, Sides DEF IInv, Positions, Procs
  <2>4. QED
    BY <2>1, <2>2, <2>3 DEF Positions
<1>6. Unfinished'
  BY <1>1, <1>2, Sides DEF IInv, Unfinished, Procs
<1>7. Ends'
  <2>1. \A q \in Procs : /\ pc'[q] = "pipeclose" <=> pc[q] = "pipeclose"
                         /\ pc'[q] = "done" <=> pc[q] = "done"
    BY <1>1, <1>2
  <2>2. \A e : Open(e)' = Open(e)
    BY <2>1, SameOpen
  <2>3. QED
    BY <1>1, <2>1, <2>2 DEF IInv, Ends, Procs, End
<1>8. Sleepers'
  BY <1>1, <1>2, <1>4 DEF IInv, Sleepers
<1>9. QED
  BY <1>3, <1>4, <1>5, <1>6, <1>7, <1>8 DEF IInv

\* How much a read takes.
LEMMA ReadSplit ==
  ASSUME IInv, NEW p \in Readers, ReadSome(p)
  PROVE  \E n \in 1 .. Held :
           /\ received' = received \o [k \in 1 .. n |-> data[(nread + k - 1) % PIPESIZE]]
           /\ nread' = (nread + n) % M
<1> DEFINE n == IF Held < ReadSize THEN Held ELSE ReadSize
<1>1. Held \in Nat
  <2>1. nread \in 0 .. M - 1 /\ nwrite \in 0 .. M - 1
    BY DEF IInv, TypeOK
  <2>2. QED
    BY <2>1, HeldType, Sizes
<1>2. n \in 1 .. Held
  BY <1>1, Sizes DEF ReadSome
<1>3. QED
  BY <1>2, ZenonT(60) DEF ReadSome

LEMMA IInvReadSome == ASSUME IInv, NEW p \in Readers, ReadSome(p) PROVE IInv'
<1> USE Sizes
<1>1. /\ p \in Procs /\ pc[p] = "read" /\ lock = None /\ Held > 0
      /\ UNCHANGED <<data, nwrite, readopen, writeopen, lock, freed, ref, i, killed>>
      /\ WakingWriters(p, "close") \/ WakingWriters(p, "read")
  BY DEF ReadSome, Procs
<1>2. PICK n \in 1 .. Held :
           /\ received' = received \o [k \in 1 .. n |-> data[(nread + k - 1) % PIPESIZE]]
           /\ nread' = (nread + n) % M
  BY ReadSplit
<1>3. /\ pc'[p] \in {"close", "read"}
      /\ \A q \in Procs : q # p => pc'[q] = IF pc[q] = "wasleep" THEN "write" ELSE pc[q]
      /\ pc' \in [Procs -> {"write", "wsleep", "wasleep", "read", "rsleep", "rasleep",
                            "close", "pipeclose", "done"}]
  BY <1>1 DEF WakingWriters, GotoWaking, IInv, TypeOK
<1>4. Held \in 0 .. PIPESIZE /\ n \in 0 .. Held
  <2>1. nread \in 0 .. M - 1 /\ nwrite \in 0 .. M - 1
    BY DEF IInv, TypeOK
  <2>2. QED
    BY <2>1, HeldType DEF IInv
<1>5. /\ nread' \in 0 .. M - 1
      /\ Held' = Held - n /\ HeldAreBytes'
      /\ [k \in 1 .. n |-> data[(nread + k - 1) % PIPESIZE]] \in Seq(Byte)
  BY <1>1, <1>2, <1>4, GetKeeps DEF IInv
<1>6. TypeOK'
  <2>1. received' \in Seq(Byte)
    BY <1>2, <1>5, ConcatProperties DEF IInv, TypeOK
  <2>2. QED
    BY <1>1, <1>3, <1>5, <2>1 DEF IInv, TypeOK
<1>7. (Held <= PIPESIZE)'
  BY <1>4, <1>5
<1>8. Positions'
  <2>1. \A w \in Writers : pc'[w] \notin {"read", "rsleep", "rasleep"}
    BY <1>1, <1>3, Sides DEF IInv, Positions, Procs
  <2>2. \A r \in Readers : pc'[r] \notin {"write", "wsleep", "wasleep"}
    BY <1>1, <1>3 DEF IInv, Positions, Procs
  <2>3. \A q \in Procs : pc'[q] \in {"wsleep", "rsleep"} => lock' = q
    BY <1>1, <1>3, Sides DEF IInv, Positions, Procs
  <2>4. QED
    BY <2>1, <2>2, <2>3 DEF Positions
<1>9. Unfinished'
  BY <1>1, <1>3, Sides DEF IInv, Unfinished, Procs
<1>10. Ends'
  <2>1. \A q \in Procs : /\ pc'[q] = "pipeclose" <=> pc[q] = "pipeclose"
                         /\ pc'[q] = "done" <=> pc[q] = "done"
    BY <1>1, <1>3
  <2>2. \A e : Open(e)' = Open(e)
    BY <2>1, SameOpen
  <2>3. QED
    BY <1>1, <2>1, <2>2 DEF IInv, Ends, Procs, End
<1>11. Sleepers'
  <2>1. ASSUME NEW q \in Procs, pc'[q] \in {"wsleep", "wasleep"} PROVE FALSE
    BY <1>1, <1>3, <2>1, Sides DEF IInv, Positions
  <2>2. ASSUME NEW q \in Procs, pc'[q] \in {"rsleep", "rasleep"}
        PROVE  \E w \in Writers : killed'[w]
    <3>1. pc[q] \in {"rsleep", "rasleep"}
      BY <1>3, <2>2
    <3>2. QED
      BY <1>1, <1>4, <3>1 DEF IInv, Sleepers
  <2>3. QED
    BY <2>1, <2>2 DEF Sleepers
<1>12. QED
  BY <1>5, <1>6, <1>7, <1>8, <1>9, <1>10, <1>11 DEF IInv

LEMMA IInvFileClose == ASSUME IInv, NEW p \in Procs, FileClose(p) PROVE IInv'
<1> USE Sizes
<1> DEFINE e == End(p)
<1>1. /\ pc[p] = "close" /\ ref' = [ref EXCEPT ![e] = @ - 1]
      /\ pc' = [pc EXCEPT ![p] = IF ref[e] = 1 THEN "pipeclose" ELSE "done"]
      /\ UNCHANGED <<data, nread, nwrite, readopen, writeopen, lock, freed, i, killed, received>>
  BY DEF FileClose, Goto, pipe
<1>2. /\ pc'[p] = IF ref[e] = 1 THEN "pipeclose" ELSE "done"
      /\ \A q \in Procs : q # p => pc'[q] = pc[q]
  BY <1>1 DEF IInv, TypeOK
<1>3. e \in {"w", "r"}
  BY EndOf
<1>4. IsFiniteSet(Open(e)) /\ p \in Open(e)
  BY <1>1, ProcsFinite, FS_Subset DEF Open
<1>5. Open(e)' = Open(e) \ {p} /\ \A f : f # e => Open(f)' = Open(f)
  BY <1>1, <1>2 DEF Open, End
<1>6. /\ ref[e] = Cardinality(Open(e)) /\ Cardinality(Open(e)) \in Nat
      /\ Cardinality(Open(e) \ {p}) = Cardinality(Open(e)) - 1
      /\ Cardinality(Open(e) \ {p}) \in Nat
  BY <1>3, <1>4, FS_CardinalityType, FS_RemoveElement, FS_Subset DEF IInv, Ends
<1>7. TypeOK'
  <2>1. ref' \in [{"w", "r"} -> Nat]
    BY <1>1, <1>3, <1>6 DEF IInv, TypeOK
  <2>2. pc' \in [Procs -> {"write", "wsleep", "wasleep", "read", "rsleep", "rasleep",
                          "close", "pipeclose", "done"}]
    BY <1>1 DEF IInv, TypeOK
  <2>3. QED
    BY <1>1, <2>1, <2>2 DEF IInv, TypeOK
<1>8. Held' = Held /\ HeldAreBytes'
  BY <1>1 DEF IInv, HeldAreBytes, Held, Cell
<1>9. Positions'
  BY <1>1, <1>2 DEF IInv, Positions, Procs
<1>10. Unfinished'
  BY <1>1, <1>2 DEF IInv, Unfinished, Procs
<1>11. Ends'
  <2>1. \A f \in {"w", "r"} : ref'[f] = Cardinality(Open(f))'
    BY <1>1, <1>3, <1>5, <1>6 DEF IInv, Ends, TypeOK
  <2>2. ASSUME NEW x \in Procs, NEW y \in Procs, pc'[x] = "pipeclose", End(y) = End(x), y # x
        PROVE  pc'[y] = "done"
    <3>1. CASE x = p
      <4>1. Cardinality(Open(e) \ {p}) = 0
        BY <1>2, <1>6, <2>2, <3>1
      <4>2. IsFiniteSet(Open(e) \ {p})
        BY <1>4, FS_RemoveElement
      <4>3. Open(e) \ {p} = {}
        BY <4>1, <4>2, FS_EmptySet
      <4>4. y \notin Open(e)
        BY <2>2, <3>1, <4>3
      <4>5. pc[y] \in {"pipeclose", "done"}
        BY <2>2, <3>1, <4>4 DEF Open
      <4>6. pc[y] # "pipeclose"
        BY <1>1, <2>2, <3>1 DEF IInv, Ends
      <4>7. QED
        BY <1>2, <2>2, <3>1, <4>5, <4>6
    <3>2. CASE x # p
      <4>1. pc[x] = "pipeclose"
        BY <1>2, <2>2, <3>2
      <4>2. pc[y] = "done"
        BY <2>2, <4>1 DEF IInv, Ends
      <4>3. QED
        BY <1>1, <1>2, <4>2
    <3>3. QED
      BY <3>1, <3>2
  <2>3. (~writeopen' => \A w \in Writers : pc'[w] = "done")
        /\ (~readopen' => \A r \in Readers : pc'[r] = "done")
        /\ (freed' => ~writeopen' /\ ~readopen')
    BY <1>1, <1>2 DEF IInv, Ends, Procs
  <2>4. \A x \in Procs : End(x)' = End(x)
    BY DEF End
  <2>5. QED
    BY <2>1, <2>2, <2>3, <2>4 DEF Ends
<1>12. Sleepers'
  BY <1>1, <1>2, <1>8 DEF IInv, Sleepers
<1>13. QED
  BY <1>7, <1>8, <1>9, <1>10, <1>11, <1>12 DEF IInv

LEMMA IInvPipeClose == ASSUME IInv, NEW p \in Procs, PipeClose(p) PROVE IInv'
<1> USE Sizes
<1>1. /\ pc[p] = "pipeclose" /\ lock = None
      /\ UNCHANGED <<data, nread, nwrite, lock, ref, i, killed, received>>
      /\ freed' = (~readopen' /\ ~writeopen')
      /\ \/ p \in Writers /\ writeopen' = FALSE /\ readopen' = readopen /\ WakingReaders(p, "done")
         \/ p \in Readers /\ readopen' = FALSE /\ writeopen' = writeopen /\ WakingWriters(p, "done")
  BY DEF PipeClose, Procs
<1>2. /\ pc'[p] = "done"
      /\ \A q \in Procs : q # p => \/ pc'[q] = pc[q]
                                   \/ pc[q] = "rasleep" /\ pc'[q] = "read"
                                   \/ pc[q] = "wasleep" /\ pc'[q] = "write"
      /\ pc' \in [Procs -> {"write", "wsleep", "wasleep", "read", "rsleep", "rasleep",
                            "close", "pipeclose", "done"}]
  BY <1>1 DEF WakingReaders, WakingWriters, GotoWaking, IInv, TypeOK
<1>3. TypeOK'
  BY <1>1, <1>2 DEF IInv, TypeOK
<1>4. Held' = Held /\ HeldAreBytes'
  BY <1>1 DEF IInv, HeldAreBytes, Held, Cell
<1>5. Positions'
  <2>1. \A w \in Writers : pc'[w] \notin {"read", "rsleep", "rasleep"}
    BY <1>1, <1>2 DEF IInv, Positions, Procs
  <2>2. \A r \in Readers : pc'[r] \notin {"write", "wsleep", "wasleep"}
    BY <1>1, <1>2 DEF IInv, Positions, Procs
  <2>3. \A q \in Procs : pc'[q] \in {"wsleep", "rsleep"} => lock' = q
    BY <1>1, <1>2, Sides DEF IInv, Positions, Procs
  <2>4. QED
    BY <2>1, <2>2, <2>3 DEF Positions
<1>6. Unfinished'
  BY <1>1, <1>2 DEF IInv, Unfinished, Procs
<1>7. Ends'
  <2>1. \A q \in Procs : pc'[q] \in {"pipeclose", "done"} <=> pc[q] \in {"pipeclose", "done"}
    BY <1>1, <1>2
  <2>2. \A e : Open(e)' = Open(e)
    BY <2>1, SameOpen
  <2>3. \A x \in Procs : x # p /\ End(x) = End(p) => pc[x] = "done"
    BY <1>1 DEF IInv, Ends
  <2>4. \A x \in Procs : pc[x] = "done" \/ x = p => pc'[x] = "done"
    BY <1>1, <1>2
  <2>5. \A x, y \in Procs : pc'[x] = "pipeclose" /\ End(y) = End(x) /\ y # x => pc'[y] = "done"
    <3> SUFFICES ASSUME NEW x \in Procs, NEW y \in Procs, pc'[x] = "pipeclose", End(y) = End(x), y # x
                 PROVE  pc'[y] = "done"
      OBVIOUS
    <3>1. x # p /\ pc[x] = "pipeclose"
      BY <1>2
    <3>2. pc[y] = "done"
      BY <3>1 DEF IInv, Ends
    <3>3. QED
      BY <2>4, <3>2
  <2>6. ~writeopen' => \A w \in Writers : pc'[w] = "done"
    <3>1. CASE p \in Writers
      <4>1. \A w \in Writers : w \in Procs /\ End(w) = End(p)
        BY <3>1 DEF End, Procs
      <4>2. QED
        BY <2>3, <2>4, <4>1
    <3>2. CASE p \notin Writers
      BY <1>1, <2>4, <3>2 DEF IInv, Ends, Procs
    <3>3. QED
      BY <3>1, <3>2
  <2>7. ~readopen' => \A r \in Readers : pc'[r] = "done"
    <3>1. CASE p \in Readers
      <4>1. \A r \in Readers : r \in Procs /\ End(r) = End(p)
        BY <3>1, Sides DEF End, Procs
      <4>2. QED
        BY <2>3, <2>4, <4>1
    <3>2. CASE p \notin Readers
      BY <1>1, <2>4, <3>2 DEF IInv, Ends, Procs
    <3>3. QED
      BY <3>1, <3>2
  <2>8. \A f \in {"w", "r"} : ref'[f] = Cardinality(Open(f))'
    BY <1>1, <2>2 DEF IInv, Ends
  <2>9. freed' => ~writeopen' /\ ~readopen'
    BY <1>1
  <2>10. \A x \in Procs : End(x)' = End(x)
    BY DEF End
  <2>11. QED
    BY <2>5, <2>6, <2>7, <2>8, <2>9, <2>10 DEF Ends
<1>8. Sleepers'
  <2>1. ASSUME NEW q \in Procs, pc'[q] \in {"wsleep", "wasleep"}
        PROVE  Held' = PIPESIZE /\ readopen'
    <3>1. q # p /\ pc'[q] = pc[q] /\ Held = PIPESIZE /\ readopen
      BY <1>2, <2>1 DEF IInv, Sleepers
    <3>2. pc[q] # "wsleep"
      BY <1>1, <2>1, <3>1, Sides DEF IInv, Positions
    <3>3. ~WakingWriters(p, "done")
      BY <2>1, <3>1, <3>2 DEF WakingWriters, GotoWaking
    <3>4. QED
      BY <1>1, <1>4, <3>1, <3>3
  <2>2. ASSUME NEW q \in Procs, pc'[q] \in {"rsleep", "rasleep"}
        PROVE  (Held' = 0 /\ writeopen') \/ \E w \in Writers : killed'[w]
    <3>1. q # p /\ pc'[q] = pc[q]
      BY <1>2, <2>2
    <3>2. pc[q] # "rsleep"
      BY <1>1, <2>2, <3>1, Sides DEF IInv, Positions
    <3>3. ~WakingReaders(p, "done")
      BY <2>2, <3>1, <3>2 DEF WakingReaders, GotoWaking
    <3>4. (Held = 0 /\ writeopen) \/ \E w \in Writers : killed[w]
      BY <2>2, <3>1 DEF IInv, Sleepers
    <3>5. QED
      BY <1>1, <1>4, <3>3, <3>4
  <2>3. QED
    BY <2>1, <2>2 DEF Sleepers
<1>9. QED
  BY <1>3, <1>4, <1>5, <1>6, <1>7, <1>8 DEF IInv

LEMMA IInvKill == ASSUME IInv, NEW p \in Procs, Kill(p) PROVE IInv'
<1> USE Sizes
<1>1. /\ pc[p] \notin {"close", "pipeclose", "done"} /\ killed' = [killed EXCEPT ![p] = TRUE]
      /\ UNCHANGED <<data, nread, nwrite, readopen, writeopen, lock, freed, ref, i, received>>
  BY DEF Kill, pipe
<1>2. /\ \A q \in Procs : \/ pc'[q] = pc[q]
                          \/ pc[q] = "rasleep" /\ pc'[q] = "read"
                          \/ pc[q] = "wasleep" /\ pc'[q] = "write"
      /\ pc' \in [Procs -> {"write", "wsleep", "wasleep", "read", "rsleep", "rasleep",
                            "close", "pipeclose", "done"}]
  BY DEF Kill, IInv, TypeOK
<1>3. \A q \in Procs : killed[q] => killed'[q]
  BY <1>1 DEF IInv, TypeOK
<1>4. TypeOK'
  BY <1>1, <1>2 DEF IInv, TypeOK
<1>5. Held' = Held /\ HeldAreBytes'
  BY <1>1 DEF IInv, HeldAreBytes, Held, Cell
<1>6. Positions'
  BY <1>1, <1>2 DEF IInv, Positions, Procs
<1>7. Unfinished'
  BY <1>1, <1>2 DEF IInv, Unfinished, Procs
<1>8. Ends'
  <2>1. \A q \in Procs : /\ pc'[q] = "pipeclose" <=> pc[q] = "pipeclose"
                         /\ pc'[q] = "done" <=> pc[q] = "done"
    BY <1>2
  <2>2. \A e : Open(e)' = Open(e)
    BY <2>1, SameOpen
  <2>3. QED
    BY <1>1, <2>1, <2>2 DEF IInv, Ends, Procs, End
<1>9. Sleepers'
  BY <1>1, <1>2, <1>3, <1>5 DEF IInv, Sleepers, Procs
<1>10. QED
  BY <1>4, <1>5, <1>6, <1>7, <1>8, <1>9 DEF IInv

LEMMA IInvNext == IInv /\ [Next]_vars => IInv'
<1> SUFFICES ASSUME IInv, [Next]_vars PROVE IInv'
  OBVIOUS
<1>1. ASSUME NEW p \in Procs, Step(p) PROVE IInv'
  BY <1>1, IInvWrite, IInvWriteSleep, IInvReadNothing, IInvReadSome, IInvReadSleep,
     IInvFileClose, IInvPipeClose DEF Step
<1>2. ASSUME NEW p \in Procs, Kill(p) PROVE IInv'
  BY <1>2, IInvKill
<1>3. CASE UNCHANGED vars
  BY <1>3 DEF vars, pipe, IInv, TypeOK, Held, HeldAreBytes, Cell, Positions, Unfinished, Ends,
     Open, End, Sleepers
<1>4. QED
  BY <1>1, <1>2, <1>3 DEF Next

LEMMA IInvImplies == IInv => Inv
<1> SUFFICES ASSUME IInv PROVE Inv
  OBVIOUS
<1>1. freed => \A p \in Procs : pc[p] = "done"
  BY DEF IInv, Ends, Procs
<1>2. NoStranded
  BY DEF IInv, Sleepers, NoStranded
<1>3. QED
  BY <1>1, <1>2 DEF IInv, Ends, Inv

-----------------------------------------------------------------------------
(* The invariants *)

LEMMA PipeInvariant == Spec => []IInv
<1>1. Init => IInv
  BY IInvInit
<1>2. IInv /\ [Next]_vars => IInv'
  BY IInvNext
<1> HIDE DEF IInv
<1>3. QED
  BY <1>1, <1>2, PTL DEF Spec

\* The pipe never holds more than PIPESIZE bytes, although its counters wrap; it is freed
\* when the last process is through with it; and no process sleeps without a reason,
\* whoever writes, reads, closes or is killed in between.
THEOREM PipeInv == Spec => []Inv
<1>1. IInv => Inv
  BY IInvImplies
<1> HIDE DEF IInv, Inv
<1>2. QED
  BY <1>1, PipeInvariant, PTL

-----------------------------------------------------------------------------
(* Nothing is lost *)

LEMMA LostInit == Init => NothingLost
<1> SUFFICES ASSUME Init PROVE NothingLost
  OBVIOUS
<1>1. InPipeOrReceived
  BY DEF Init, InPipeOrReceived, Procs
<1>2. LeftInOrder
  BY DEF Init, LeftInOrder, Left, Procs
<1>3. QED
  BY <1>1, <1>2 DEF NothingLost

LEMMA LostWrite == ASSUME IInv, NothingLost, NEW p \in Writers, Write(p) PROVE NothingLost'
<1> USE Sizes
<1>1. PICK n \in 0 .. PIPESIZE - Held :
           /\ n <= Length - i[p] /\ Put(p, n) /\ nread' = nread
           /\ \/ n = Length - i[p] /\ WakingReaders(p, "close") /\ lock' = lock
              \/ /\ n < Length - i[p] /\ Held + n = PIPESIZE
                 /\ \/ ~readopen /\ Goto(p, "close") /\ lock' = lock
                    \/ killed[p] /\ Goto(p, "close") /\ lock' = lock
                    \/ readopen /\ WakingReaders(p, "wsleep") /\ lock' = p
  BY WriteSplit
<1>2. /\ nread \in 0 .. M - 1 /\ nwrite \in 0 .. M - 1 /\ Held <= PIPESIZE
      /\ i[p] \in 0 .. Length /\ i \in [Procs -> 0 .. Length]
  BY DEF IInv, TypeOK, Procs
<1>3. Held \in 0 .. PIPESIZE /\ n \in Nat
  BY <1>2, HeldType
<1>4. /\ p \in Procs /\ pc[p] = "write" /\ received' = received /\ killed' = killed
      /\ writeopen' = writeopen
  BY DEF Write, Procs
<1>5. /\ Held' = Held + n /\ i' = [i EXCEPT ![p] = @ + n]
      /\ \A k \in 0 .. Held - 1 : data'[Cell(k)] = data[Cell(k)]
      /\ \A k \in Held .. Held + n - 1 : data'[Cell(k)] = <<p, i[p] + (k - Held) + 1>>
  BY <1>1, <1>2, RingPut DEF Put
<1>6. i'[p] = i[p] + n /\ \A q \in Procs : q # p => i'[q] = i[q]
  BY <1>2, <1>4, <1>5
<1>7. \A d \in Nat : Cell(d)' = Cell(d)
  BY <1>1 DEF Cell
<1>8. InPipeOrReceived'
  <2>1. ASSUME NEW w \in Writers, NEW k \in 1 .. i'[w]
        PROVE  \/ \E j \in DOMAIN received : received[j] = <<w, k>>
               \/ \E d \in 0 .. Held + n - 1 : data'[Cell(d)] = <<w, k>>
    <3>1. w \in Procs /\ i[w] \in Nat
      BY <1>2 DEF Procs
    <3>2. CASE k \in 1 .. i[w]
      <4>1. CASE \E d \in 0 .. Held - 1 : data[Cell(d)] = <<w, k>>
        <5>1. PICK d \in 0 .. Held - 1 : data[Cell(d)] = <<w, k>>
          BY <4>1
        <5>2. d \in 0 .. Held + n - 1 /\ data'[Cell(d)] = <<w, k>>
          BY <1>3, <1>5, <5>1
        <5>3. QED
          BY <5>2
      <4>2. QED
        BY <3>2, <4>1 DEF NothingLost, InPipeOrReceived
    <3>3. CASE k \notin 1 .. i[w]
      <4>1. w = p /\ k \in i[p] + 1 .. i[p] + n
        BY <1>2, <1>3, <1>6, <2>1, <3>1, <3>3
      <4> DEFINE d == Held + (k - i[p] - 1)
      <4>2. /\ d \in Held .. Held + n - 1 /\ d \in 0 .. Held + n - 1
            /\ i[p] + (d - Held) + 1 = k
        BY <1>2, <1>3, <4>1
      <4>3. data'[Cell(d)] = <<w, k>>
        BY <1>5, <4>1, <4>2
      <4>4. QED
        BY <4>2, <4>3
    <3>4. QED
      BY <3>2, <3>3
  <2>2. 0 .. Held + n - 1 \subseteq Nat /\ 0 .. Held' - 1 = 0 .. Held + n - 1
    BY <1>3, <1>5
  <2>3. QED
    BY <1>4, <1>7, <2>1, <2>2 DEF InPipeOrReceived
<1>9. LeftInOrder'
  <2> SUFFICES ASSUME \A q \in Procs : ~killed[q]
               PROVE  /\ \A w \in Writers : Left(w)' => i'[w] = Length
                      /\ \A r \in Readers : Left(r)' => Held' = 0 /\ ~writeopen'
    BY <1>4 DEF LeftInOrder
  <2>1. /\ \A w \in Writers : Left(w) => i[w] = Length
        /\ \A r \in Readers : Left(r) => Held = 0 /\ ~writeopen
    BY DEF NothingLost, LeftInOrder
  <2>2. writeopen
    BY <1>4 DEF IInv, Ends
  <2>3. \A r \in Readers : ~Left(r)
    BY <2>1, <2>2
  <2>4. readopen
    <3>1. PICK r \in Readers : TRUE
      BY PipeAssumption
    <3>2. pc[r] # "done"
      BY <2>3 DEF Left
    <3>3. QED
      BY <3>2 DEF IInv, Ends
  <2>5. /\ \A q \in Procs : q # p => pc'[q] = pc[q] \/ pc'[q] = "read"
        /\ n = Length - i[p] \/ pc'[p] = "wsleep"
    BY <1>1, <1>4, <2>4 DEF WakingReaders, GotoWaking, IInv, TypeOK
  <2>6. \A r \in Readers : ~Left(r)'
    BY <1>4, <2>3, <2>5, Sides DEF Left, Procs
  <2>7. ASSUME NEW w \in Writers, Left(w)' PROVE i'[w] = Length
    <3>1. CASE w = p
      BY <1>2, <1>3, <1>6, <2>5, <2>7, <3>1 DEF Left
    <3>2. CASE w # p
      BY <1>6, <2>1, <2>5, <2>7, <3>2 DEF Left, Procs
    <3>3. QED
      BY <3>1, <3>2
  <2>8. QED
    BY <2>6, <2>7
<1>10. QED
  BY <1>8, <1>9 DEF NothingLost

LEMMA LostReadSome == ASSUME IInv, NothingLost, NEW p \in Readers, ReadSome(p) PROVE NothingLost'
<1> USE Sizes
<1>1. PICK n \in 1 .. Held :
           /\ received' = received \o [k \in 1 .. n |-> data[(nread + k - 1) % PIPESIZE]]
           /\ nread' = (nread + n) % M
  BY ReadSplit
<1>2. /\ nread \in 0 .. M - 1 /\ nwrite \in 0 .. M - 1 /\ Held <= PIPESIZE
      /\ nwrite' = nwrite /\ data' = data /\ i' = i /\ killed' = killed /\ Held > 0
      /\ p \in Procs /\ pc[p] = "read" /\ received \in Seq(Byte)
  BY DEF IInv, TypeOK, Procs, ReadSome
<1>3. Held \in 0 .. PIPESIZE /\ n \in 0 .. Held /\ n \in Nat
  BY <1>2, HeldType
<1> DEFINE got == [k \in 1 .. n |-> data[(nread + k - 1) % PIPESIZE]]
<1>4. Held' = Held - n /\ got \in Seq(Byte)
  BY <1>1, <1>2, <1>3, GetKeeps DEF IInv
<1>5. \A k \in Nat : Cell(k)' = Cell(n + k)
  BY <1>1, <1>2, <1>3, RingGet
<1>6. Len(got) = n /\ Len(received) \in Nat
  BY <1>2, <1>3
<1> HIDE DEF got
<1>7. /\ DOMAIN received = 1 .. Len(received) /\ DOMAIN received' = 1 .. Len(received) + n
      /\ \A j \in 1 .. Len(received) + n :
           received'[j] = IF j <= Len(received) THEN received[j] ELSE got[j - Len(received)]
  <2>1. /\ received' \in Seq(Byte) /\ Len(received') = Len(received) + Len(got)
        /\ \A j \in 1 .. Len(received) + Len(got) :
             received'[j] = IF j <= Len(received) THEN received[j] ELSE got[j - Len(received)]
    BY <1>1, <1>2, <1>4, ConcatProperties DEF got
  <2>2. QED
    BY <1>2, <1>6, <2>1, LenProperties
<1>8. \A d \in 0 .. n - 1 : got[d + 1] = data[Cell(d)]
  <2> TAKE d \in 0 .. n - 1
  <2>1. d + 1 \in 1 .. n /\ nread + (d + 1) - 1 = nread + d
    BY <1>2, <1>3
  <2>2. QED
    BY <2>1 DEF got, Cell
<1>9. InPipeOrReceived'
  <2> SUFFICES ASSUME NEW w \in Writers, NEW k \in 1 .. i[w]
               PROVE  \/ \E j \in DOMAIN received' : received'[j] = <<w, k>>
                      \/ \E d \in 0 .. Held' - 1 : data[Cell(d)'] = <<w, k>>
    BY <1>2 DEF InPipeOrReceived
  <2>1. CASE \E j \in DOMAIN received : received[j] = <<w, k>>
    <3>1. PICK j \in DOMAIN received : received[j] = <<w, k>>
      BY <2>1
    <3>2. j \in DOMAIN received' /\ received'[j] = <<w, k>>
      BY <1>3, <1>6, <1>7, <3>1
    <3>3. QED
      BY <3>2
  <2>2. CASE \E d \in 0 .. Held - 1 : data[Cell(d)] = <<w, k>>
    <3>1. PICK d \in 0 .. Held - 1 : data[Cell(d)] = <<w, k>>
      BY <2>2
    <3>2. CASE d < n
      <4>1. d \in 0 .. n - 1
        BY <1>3, <3>1, <3>2
      <4>2. got[d + 1] = <<w, k>>
        BY <1>8, <3>1, <4>1
      <4> DEFINE j == Len(received) + (d + 1)
      <4>3. j \in 1 .. Len(received) + n /\ ~(j <= Len(received)) /\ j - Len(received) = d + 1
        BY <1>3, <1>6, <4>1
      <4>4. received'[j] = <<w, k>>
        BY <1>7, <4>2, <4>3
      <4>5. QED
        BY <1>7, <4>3, <4>4
    <3>3. CASE ~(d < n)
      <4>1. d - n \in 0 .. Held' - 1 /\ d - n \in Nat /\ n + (d - n) = d
        BY <1>3, <1>4, <3>1, <3>3
      <4>2. Cell(d - n)' = Cell(d)
        BY <1>5, <4>1
      <4>3. QED
        BY <3>1, <4>1, <4>2
    <3>4. QED
      BY <3>2, <3>3
  <2>3. QED
    BY <2>1, <2>2 DEF NothingLost, InPipeOrReceived
<1>10. LeftInOrder'
  <2> SUFFICES ASSUME \A q \in Procs : ~killed[q]
               PROVE  /\ \A w \in Writers : Left(w)' => i[w] = Length
                      /\ \A r \in Readers : ~Left(r)'
    BY <1>2 DEF LeftInOrder
  <2>1. /\ \A w \in Writers : Left(w) => i[w] = Length
        /\ \A r \in Readers : ~Left(r)
    BY <1>2, <1>3 DEF NothingLost, LeftInOrder
  <2>2. WakingWriters(p, "read")
    BY <1>2 DEF ReadSome
  <2>3. pc'[p] = "read" /\ \A q \in Procs : pc'[q] = pc[q] \/ pc'[q] = "write"
    BY <1>2, <2>2 DEF WakingWriters, GotoWaking, IInv, TypeOK
  <2>4. QED
    BY <2>1, <2>3 DEF Left, Procs
<1>11. QED
  BY <1>9, <1>10 DEF NothingLost

\* The other steps leave the ring and what was received as they are.
LEMMA LostOther ==
  ASSUME IInv, NothingLost,
         UNCHANGED <<data, nread, nwrite, i, received>>,
         \/ \E p \in Procs : killed'[p]
         \/ /\ killed' = killed /\ (~writeopen => ~writeopen')
            /\ \A w \in Writers : Left(w)' => Left(w)
            /\ \A r \in Readers : Left(r)' => Left(r) \/ (Held = 0 /\ ~writeopen)
  PROVE  NothingLost'
<1>1. Held' = Held
  BY DEF Held
<1>2. InPipeOrReceived'
  BY <1>1 DEF NothingLost, InPipeOrReceived, Cell
<1>3. LeftInOrder'
  BY <1>1 DEF NothingLost, LeftInOrder
<1>4. QED
  BY <1>2, <1>3 DEF NothingLost

LEMMA LostNext == IInv /\ NothingLost /\ [Next]_vars => NothingLost'
<1> SUFFICES ASSUME IInv, NothingLost, [Next]_vars PROVE NothingLost'
  OBVIOUS
<1> USE Sizes
<1>1. ASSUME NEW p \in Writers, WriteSleep(p) PROVE NothingLost'
  <2>1. /\ UNCHANGED <<data, nread, nwrite, writeopen, i, killed, received>>
        /\ p \in Procs /\ pc' = [pc EXCEPT ![p] = "wasleep"]
    BY <1>1 DEF WriteSleep, Goto, pipe, Procs
  <2>2. \A q \in Procs : Left(q)' => Left(q)
    BY <2>1 DEF Left, IInv, TypeOK
  <2>3. QED
    BY <2>1, <2>2, LostOther DEF Procs
<1>2. ASSUME NEW p \in Readers, ReadSleep(p) PROVE NothingLost'
  <2>1. /\ UNCHANGED <<data, nread, nwrite, writeopen, i, killed, received>>
        /\ p \in Procs /\ pc' = [pc EXCEPT ![p] = "rasleep"]
    BY <1>2 DEF ReadSleep, Goto, pipe, Procs
  <2>2. \A q \in Procs : Left(q)' => Left(q)
    BY <2>1 DEF Left, IInv, TypeOK
  <2>3. QED
    BY <2>1, <2>2, LostOther DEF Procs
<1>3. ASSUME NEW p \in Readers, ReadNothing(p) PROVE NothingLost'
  <2>1. /\ UNCHANGED <<data, nread, nwrite, writeopen, i, killed, received>>
        /\ p \in Procs /\ pc[p] = "read" /\ Held = 0
        /\ \/ ~writeopen /\ WakingWriters(p, "close")
           \/ killed[p]
           \/ Goto(p, "rsleep")
    BY <1>3 DEF ReadNothing, pipe, Procs
  <2>2. CASE ~writeopen /\ WakingWriters(p, "close")
    <3>1. \A q \in Procs : q # p => (Left(q)' => Left(q))
      BY <2>1, <2>2 DEF WakingWriters, GotoWaking, Left, IInv, TypeOK
    <3>2. QED
      BY <2>1, <2>2, <3>1, LostOther, Sides DEF Procs
  <2>3. CASE killed[p]
    BY <2>1, <2>3, LostOther
  <2>4. CASE Goto(p, "rsleep")
    <3>1. \A q \in Procs : Left(q)' => Left(q)
      BY <2>1, <2>4 DEF Goto, Left, IInv, TypeOK
    <3>2. QED
      BY <2>1, <3>1, LostOther DEF Procs
  <2>5. QED
    BY <2>1, <2>2, <2>3, <2>4
<1>4. ASSUME NEW p \in Procs, FileClose(p) PROVE NothingLost'
  <2>1. /\ UNCHANGED <<data, nread, nwrite, writeopen, i, killed, received>>
        /\ pc[p] = "close"
        /\ pc' = [pc EXCEPT ![p] = IF ref[End(p)] = 1 THEN "pipeclose" ELSE "done"]
    BY <1>4 DEF FileClose, Goto, pipe
  <2>2. \A q \in Procs : Left(q)' => Left(q)
    BY <2>1 DEF Left, IInv, TypeOK
  <2>3. QED
    BY <2>1, <2>2, LostOther DEF Procs
<1>5. ASSUME NEW p \in Procs, PipeClose(p) PROVE NothingLost'
  <2>1. /\ UNCHANGED <<data, nread, nwrite, i, killed, received>>
        /\ pc[p] = "pipeclose" /\ (~writeopen => ~writeopen')
        /\ WakingReaders(p, "done") \/ WakingWriters(p, "done")
    BY <1>5 DEF PipeClose
  <2>2. \A q \in Procs : Left(q)' => Left(q)
    BY <2>1 DEF WakingReaders, WakingWriters, GotoWaking, Left, IInv, TypeOK
  <2>3. QED
    BY <2>1, <2>2, LostOther DEF Procs
<1>6. ASSUME NEW p \in Procs, Kill(p) PROVE NothingLost'
  <2>1. /\ UNCHANGED <<data, nread, nwrite, i, received>>
        /\ killed'[p]
    BY <1>6 DEF Kill, pipe, IInv, TypeOK
  <2>2. QED
    BY <2>1, LostOther
<1>7. CASE UNCHANGED vars
  BY <1>7, LostOther DEF vars, pipe, Left
<1>8. QED
  BY <1>1, <1>2, <1>3, <1>4, <1>5, <1>6, <1>7, LostWrite, LostReadSome DEF Next, Step

\* Without kills, when the last reader is gone every byte of every message has arrived: the
\* end of the file is never seen before everything is read, and no write is overwritten.
THEOREM PipeComplete == Spec => []Complete
<1>1. Init => NothingLost
  BY LostInit
<1>2. IInv /\ NothingLost /\ [Next]_vars => NothingLost'
  BY LostNext
<1>3. IInv /\ NothingLost => Complete
  <2> SUFFICES ASSUME IInv, NothingLost, NEW w \in Writers,
                      \A p \in Procs : ~killed[p], \A r \in Readers : pc[r] = "done",
                      NEW k \in 1 .. Length
               PROVE  \E n \in DOMAIN received : received[n] = <<w, k>>
    BY DEF Complete
  <2>1. PICK r \in Readers : TRUE
    BY PipeAssumption
  <2>2. Held = 0 /\ ~writeopen
    BY <2>1 DEF NothingLost, LeftInOrder, Left
  <2>3. pc[w] = "done"
    BY <2>2 DEF IInv, Ends
  <2>4. i[w] = Length
    BY <2>3 DEF NothingLost, LeftInOrder, Left
  <2>5. QED
    BY <2>2, <2>4 DEF NothingLost, InPipeOrReceived
<1> HIDE DEF IInv, NothingLost, Complete
<1>4. QED
  BY <1>1, <1>2, <1>3, PipeInvariant, PTL DEF Spec

-----------------------------------------------------------------------------
(* The pipe implements the channel *)

QueueRight ==
  /\ Held \in 0 .. PIPESIZE
  /\ Queue \in Seq(Byte) /\ Len(Queue) = Held
  /\ \A k \in 1 .. Held : Queue[k] = data[Cell(k - 1)]

LEMMA QueueIs == IInv => QueueRight
<1> SUFFICES ASSUME IInv PROVE QueueRight
  OBVIOUS
<1> USE Sizes
<1>1. nread \in 0 .. M - 1 /\ nwrite \in 0 .. M - 1 /\ Held <= PIPESIZE /\ HeldAreBytes
  BY DEF IInv, TypeOK
<1>2. Held \in 0 .. PIPESIZE
  BY <1>1, HeldType
<1>3. ASSUME NEW k \in 1 .. Held
      PROVE  data[(nread + k - 1) % PIPESIZE] = data[Cell(k - 1)] /\ data[Cell(k - 1)] \in Byte
  <2>1. k - 1 \in 0 .. Held - 1 /\ nread + k - 1 = nread + (k - 1)
    BY <1>1, <1>2
  <2>2. QED
    BY <1>1, <2>1 DEF HeldAreBytes, Cell
<1>4. Queue \in Seq(Byte) /\ Len(Queue) = Held
  BY <1>2, <1>3 DEF Queue
<1>5. \A k \in 1 .. Held : Queue[k] = data[Cell(k - 1)]
  BY <1>3 DEF Queue
<1>6. QED
  BY <1>2, <1>4, <1>5 DEF QueueRight

LEMMA ChannelInit == Init => Channel!Init
<1> SUFFICES ASSUME Init PROVE Channel!Init
  OBVIOUS
<1>1. Held = 0
  BY IInvInit, Sizes, ModSmall DEF Init, Held
<1>2. Queue \in Seq(Byte) /\ Len(Queue) = 0
  BY <1>1, IInvInit, QueueIs DEF QueueRight
<1>3. Queue = <<>>
  BY <1>2, EmptySeq
<1>4. QED
  BY <1>3 DEF Init, Channel!Init

\* A write is the acceptance of the bytes there is room for.
LEMMA ChannelWrite ==
  ASSUME IInv, QueueRight, QueueRight', NEW p \in Writers, Write(p)
  PROVE  Channel!Accept \/ UNCHANGED Channel!vars
<1> USE Sizes
<1>1. PICK n \in 0 .. PIPESIZE - Held : n <= Length - i[p] /\ Put(p, n) /\ nread' = nread
  BY WriteSplit
<1>2. /\ UNCHANGED <<readopen, writeopen, received>> /\ p \in Procs /\ pc[p] = "write"
      /\ nread \in 0 .. M - 1 /\ nwrite \in 0 .. M - 1 /\ Held <= PIPESIZE
      /\ i[p] \in 0 .. Length
  BY DEF Write, IInv, TypeOK, Procs
<1>3. Held \in 0 .. PIPESIZE /\ n \in Nat
  BY DEF QueueRight
<1>4. /\ Held' = Held + n
      /\ \A k \in 0 .. Held - 1 : data'[Cell(k)] = data[Cell(k)]
      /\ \A k \in Held .. Held + n - 1 : data'[Cell(k)] = <<p, i[p] + (k - Held) + 1>>
  BY <1>1, <1>2, RingPut
<1> DEFINE s == [j \in 1 .. n |-> <<p, i[p] + j>>]
<1>5. s \in [1 .. n -> Byte] /\ s \in Seq(Byte) /\ Len(s) = n
  <2>1. \A j \in 1 .. n : i[p] + j \in 1 .. Length
    BY <1>1, <1>2, <1>3
  <2>2. \A j \in 1 .. n : <<p, i[p] + j>> \in Byte
    BY <2>1 DEF Byte
  <2>3. QED
    BY <1>3, <2>2
<1>6. \A j \in 1 .. n : s[j] = <<p, i[p] + j>>
  OBVIOUS
<1> HIDE DEF s
<1>7. Queue' = Queue \o s
  <2>1. /\ Queue \o s \in Seq(Byte) /\ Len(Queue \o s) = Held + n
        /\ \A k \in 1 .. Held + n : (Queue \o s)[k] = IF k <= Held THEN Queue[k] ELSE s[k - Held]
    BY <1>5, ConcatProperties DEF QueueRight
  <2>2. Queue' \in Seq(Byte) /\ Len(Queue') = Held + n
    BY <1>4 DEF QueueRight
  <2>3. ASSUME NEW k \in 1 .. Held + n PROVE Queue'[k] = (Queue \o s)[k]
    <3>1. Queue'[k] = data'[Cell(k - 1)]
      <4>1. Queue'[k] = data'[Cell(k - 1)']
        BY <1>4 DEF QueueRight
      <4>2. QED
        BY <1>1, <4>1 DEF Cell
    <3>2. CASE k <= Held
      <4>1. k - 1 \in 0 .. Held - 1 /\ k \in 1 .. Held
        BY <1>3, <3>2
      <4>2. QED
        BY <1>4, <2>1, <3>1, <3>2, <4>1 DEF QueueRight
    <3>3. CASE ~(k <= Held)
      <4>1. /\ k - 1 \in Held .. Held + n - 1 /\ k - Held \in 1 .. n
            /\ i[p] + ((k - 1) - Held) + 1 = i[p] + (k - Held)
        BY <1>2, <1>3, <3>3
      <4>2. data'[Cell(k - 1)] = <<p, i[p] + (k - Held)>>
        BY <1>4, <4>1
      <4>3. QED
        BY <1>6, <2>1, <3>1, <3>3, <4>1, <4>2
    <3>4. QED
      BY <3>2, <3>3
  <2>4. QED
    BY <2>1, <2>2, <2>3, SeqEqual
<1>8. CASE n = 0
  <2>1. Queue \o s = Queue
    BY <1>5, <1>8, EmptySeq, ConcatEmptySeq DEF QueueRight
  <2>2. QED
    BY <1>2, <1>7, <2>1 DEF Channel!vars
<1>9. CASE n # 0
  <2>1. n \in 1 .. PIPESIZE - Len(Queue)
    BY <1>1, <1>3, <1>9 DEF QueueRight
  <2>2. writeopen
    BY <1>2 DEF IInv, Ends
  <2>3. QED
    BY <1>2, <1>5, <1>7, <2>1, <2>2 DEF Channel!Accept
<1>10. QED
  BY <1>8, <1>9

\* A read is the delivery of the first bytes.
LEMMA ChannelRead ==
  ASSUME IInv, QueueRight, QueueRight', NEW p \in Readers, ReadSome(p)
  PROVE  Channel!Deliver
<1> USE Sizes
<1>1. PICK n \in 1 .. Held :
           /\ received' = received \o [k \in 1 .. n |-> data[(nread + k - 1) % PIPESIZE]]
           /\ nread' = (nread + n) % M
  BY ReadSplit
<1>2. /\ UNCHANGED <<data, nwrite, readopen, writeopen>> /\ p \in Procs /\ pc[p] = "read"
      /\ nread \in 0 .. M - 1 /\ nwrite \in 0 .. M - 1 /\ Held <= PIPESIZE
  BY DEF ReadSome, IInv, TypeOK, Procs
<1>3. Held \in 0 .. PIPESIZE /\ n \in 0 .. Held /\ n \in Nat
  BY DEF QueueRight
<1>4. Held' = Held - n /\ \A k \in Nat : Cell(k)' = Cell(n + k)
  BY <1>1, <1>2, <1>3, RingGet
<1>5. /\ SubSeq(Queue, 1, n) \in Seq(Byte) /\ Len(SubSeq(Queue, 1, n)) = n
      /\ \A k \in 1 .. n : SubSeq(Queue, 1, n)[k] = Queue[k]
      /\ SubSeq(Queue, n + 1, Held) \in Seq(Byte) /\ Len(SubSeq(Queue, n + 1, Held)) = Held - n
      /\ \A k \in 1 .. Held - n : SubSeq(Queue, n + 1, Held)[k] = Queue[n + k]
  <2>1. \A k \in 1 .. Held : Queue[k] \in Byte
    BY <1>3, ElementOfSeq DEF QueueRight
  <2>2. /\ SubSeq(Queue, 1, n) \in Seq(Byte)
        /\ Len(SubSeq(Queue, 1, n)) = IF 1 <= n THEN n - 1 + 1 ELSE 0
        /\ \A k \in 1 .. n - 1 + 1 : SubSeq(Queue, 1, n)[k] = Queue[1 + k - 1]
    BY <1>3, <2>1, SubSeqProperties
  <2>3. /\ SubSeq(Queue, n + 1, Held) \in Seq(Byte)
        /\ Len(SubSeq(Queue, n + 1, Held)) = IF n + 1 <= Held THEN Held - (n + 1) + 1 ELSE 0
        /\ \A k \in 1 .. Held - (n + 1) + 1 :
             SubSeq(Queue, n + 1, Held)[k] = Queue[n + 1 + k - 1]
    <3> DEFINE m == n + 1
    <3>1. m \in Int /\ Held \in Int /\ \A k \in m .. Held : Queue[k] \in Byte
      BY <1>3, <2>1
    <3> HIDE DEF m
    <3>2. /\ SubSeq(Queue, m, Held) \in Seq(Byte)
          /\ Len(SubSeq(Queue, m, Held)) = IF m <= Held THEN Held - m + 1 ELSE 0
          /\ \A k \in 1 .. Held - m + 1 : SubSeq(Queue, m, Held)[k] = Queue[m + k - 1]
      BY <3>1, SubSeqProperties
    <3>3. QED
      BY <3>2 DEF m
  <2>4. /\ n - 1 + 1 = n /\ Held - (n + 1) + 1 = Held - n
        /\ \A k \in Nat : 1 + k - 1 = k /\ n + 1 + k - 1 = n + k
    BY <1>3
  <2>5. \A k \in 1 .. n : SubSeq(Queue, 1, n)[k] = Queue[k]
    BY <1>3, <2>2, <2>4
  <2>6. \A k \in 1 .. Held - n : SubSeq(Queue, n + 1, Held)[k] = Queue[n + k]
    BY <1>3, <2>3, <2>4
  <2>7. QED
    BY <1>3, <2>2, <2>3, <2>4, <2>5, <2>6
<1>6. received' = received \o SubSeq(Queue, 1, n)
  <2> DEFINE got == [k \in 1 .. n |-> data[(nread + k - 1) % PIPESIZE]]
  <2>1. got \in Seq(Byte)
    BY <1>1, <1>2, <1>3, GetKeeps DEF IInv
  <2>2. Len(got) = n /\ \A k \in 1 .. n : got[k] = Queue[k]
    BY <1>3 DEF Queue
  <2> HIDE DEF got
  <2>3. got = SubSeq(Queue, 1, n)
    BY <1>5, <2>1, <2>2, SeqEqual
  <2>4. QED
    BY <1>1, <2>3 DEF got
<1>7. Queue' = SubSeq(Queue, n + 1, Held)
  <2>1. Queue' \in Seq(Byte) /\ Len(Queue') = Held - n
    BY <1>4 DEF QueueRight
  <2>2. ASSUME NEW k \in 1 .. Held - n PROVE Queue'[k] = Queue[n + k]
    <3>1. k - 1 \in Nat /\ n + (k - 1) = (n + k) - 1 /\ n + k \in 1 .. Held
      BY <1>3
    <3>2. Queue'[k] = data[Cell(k - 1)']
      BY <1>2, <1>4 DEF QueueRight
    <3>3. Cell(k - 1)' = Cell((n + k) - 1)
      BY <1>4, <3>1
    <3>4. Queue[n + k] = data[Cell((n + k) - 1)]
      BY <3>1 DEF QueueRight
    <3>5. QED
      BY <3>2, <3>3, <3>4
  <2>3. QED
    BY <1>5, <2>1, <2>2, SeqEqual
<1>8. readopen
  BY <1>2 DEF IInv, Ends
<1>9. Len(Queue) = Held
  BY DEF QueueRight
<1>10. QED
  BY <1>1, <1>2, <1>6, <1>7, <1>8, <1>9 DEF Channel!Deliver

\* The last process of an end closes it; it was open.
LEMMA ChannelClose ==
  ASSUME IInv, NEW p \in Procs, PipeClose(p)
  PROVE  Channel!CloseRead \/ Channel!CloseWrite
<1>1. /\ pc[p] = "pipeclose" /\ UNCHANGED <<data, nread, nwrite, received>>
      /\ \/ p \in Writers /\ writeopen' = FALSE /\ readopen' = readopen
         \/ p \in Readers /\ readopen' = FALSE /\ writeopen' = writeopen
  BY DEF PipeClose, Procs
<1>2. Queue' = Queue
  BY <1>1 DEF Queue, Held
<1>3. (p \in Writers => writeopen) /\ (p \in Readers => readopen)
  BY <1>1 DEF IInv, Ends
<1>4. QED
  BY <1>1, <1>2, <1>3 DEF Channel!CloseRead, Channel!CloseWrite

LEMMA ChannelNext ==
  IInv /\ QueueRight /\ QueueRight' /\ [Next]_vars => [Channel!Next]_(Channel!vars)
<1> SUFFICES ASSUME IInv, QueueRight, QueueRight', [Next]_vars
             PROVE  Channel!Next \/ UNCHANGED Channel!vars
  OBVIOUS
<1>1. ASSUME UNCHANGED <<data, nread, nwrite, readopen, writeopen, received>>
      PROVE  UNCHANGED Channel!vars
  BY <1>1 DEF Channel!vars, Queue, Held
<1>2. ASSUME NEW p \in Writers, Write(p) PROVE Channel!Next \/ UNCHANGED Channel!vars
  BY <1>2, ChannelWrite DEF Channel!Next
<1>3. ASSUME NEW p \in Readers, ReadSome(p) PROVE Channel!Next
  BY <1>3, ChannelRead DEF Channel!Next
<1>4. ASSUME NEW p \in Procs, PipeClose(p) PROVE Channel!Next
  BY <1>4, ChannelClose DEF Channel!Next
<1>5. ASSUME NEW p \in Procs,
             WriteSleep(p) \/ ReadNothing(p) \/ ReadSleep(p) \/ FileClose(p) \/ Kill(p)
      PROVE  UNCHANGED <<data, nread, nwrite, readopen, writeopen, received>>
  BY <1>5 DEF WriteSleep, ReadNothing, ReadSleep, FileClose, Kill, pipe
<1>6. CASE UNCHANGED vars
  BY <1>1, <1>6 DEF vars, pipe
<1>7. QED
  BY <1>1, <1>2, <1>3, <1>4, <1>5, <1>6 DEF Next, Step

\* The ring is a bounded first-in-first-out channel: what is read are the bytes that were
\* written, in their order, each once, for any size and wherever the counters wrap.
THEOREM PipeImplementsChannel == Spec => ImplementsChannel
<1>1. Init => Channel!Init
  BY ChannelInit
<1>2. IInv /\ QueueRight /\ QueueRight' /\ [Next]_vars => [Channel!Next]_(Channel!vars)
  BY ChannelNext
<1>3. IInv => QueueRight
  BY QueueIs
<1> HIDE DEF IInv, QueueRight, Init, Next, vars, Channel!Init, Channel!Next, Channel!vars
<1>4. QED
  BY <1>1, <1>2, <1>3, PipeInvariant, PTL DEF Spec, ImplementsChannel, Channel!Spec

-----------------------------------------------------------------------------
(* Memory: the inductive invariant *)

Addresses == 0 .. MaxSz - 1
PageOrNone == Pages \cup {NoPage}

PageTable == [dir : PageOrNone, kern : PageOrNone, tab : [Tables -> PageOrNone],
              mem : [Addresses -> PageOrNone]]

Job == [op : {"none", "sbrk", "exec", "fork"}, pc : {"run", "dir", "kern", "page", "map"},
        from : Nat, at : Nat, to : Nat, mem : PageOrNone, child : Nat]

MemoryTypes ==
  /\ free \subseteq Pages
  /\ state \in [Slots -> {"UNUSED", "EMBRYO", "RUNNING", "ZOMBIE"}]
  /\ kstack \in [Slots -> PageOrNone] /\ sz \in [Slots -> Addresses]
  /\ table \in [Slots -> [Spaces -> PageTable]] /\ job \in [Slots -> Job]

\* No page is at two places of one page table.
NotTwice(s) ==
  /\ s.dir # NoPage => /\ s.dir # s.kern /\ \A t \in Tables : s.tab[t] # s.dir
                       /\ \A a \in Addresses : s.mem[a] # s.dir
  /\ s.kern # NoPage => /\ \A t \in Tables : s.tab[t] # s.kern
                        /\ \A a \in Addresses : s.mem[a] # s.kern
  /\ \A t \in Tables : s.tab[t] # NoPage =>
       /\ \A u \in Tables : s.tab[u] = s.tab[t] => u = t
       /\ \A a \in Addresses : s.mem[a] # s.tab[t]
  /\ \A a, c \in Addresses : s.mem[a] # NoPage /\ s.mem[a] = s.mem[c] => a = c

\* The processes share the pages out among what each of them has: a page is free or in one
\* of these parts.
Pool == <<0, "free">>
Parts == {"stack", "hand", "cur", "new"}
Locs == (Slots \X Parts) \cup {Pool}

Only(x) == {x} \ {NoPage}

Part(p, u) ==
  IF u = "stack" THEN Only(kstack[p])
  ELSE IF u = "hand" THEN Only(job[p].mem)
  ELSE PagesOf(table[p][u])

HeldNow == [l \in Locs |-> IF l = Pool THEN free ELSE Part(l[1], l[2])]

Shared(H) ==
  /\ \A l \in Locs : H[l] \subseteq Pages
  /\ \A l, m \in Locs : l # m => H[l] \cap H[m] = {}
  /\ \A x \in Pages : \E l \in Locs : x \in H[l]

\* What a slot has in its states.
SlotRight(p) ==
  /\ state[p] = "UNUSED" <=> kstack[p] = NoPage
  /\ state[p] \in {"UNUSED", "EMBRYO"} => table[p]["cur"] = Empty
  /\ state[p] # "RUNNING" => job[p] = NoJob

\* How far the call is that a process is in: nothing is mapped where it will map pages.
JobRight(p) == LET j == job[p] IN
  /\ j.op = "none" => j = NoJob
  /\ j.pc = "map" <=> j.mem # NoPage
  /\ j.pc = "map" => j.at < j.to
  /\ j.op \in {"none", "sbrk"} => table[p]["new"] = Empty
  /\ j.op # "none" => j.at <= j.to /\ j.to < MaxSz /\ j.pc # "run"
  /\ j.op = "sbrk" => j.from = sz[p] /\ j.from <= j.at /\ j.pc \in {"page", "map"}
  /\ j.pc = "dir" => table[p]["new"].dir = NoPage
  /\ j.pc \in {"dir", "kern"} => table[p]["new"].kern = NoPage
  /\ IF j.op = "fork" THEN j.child \in Slots /\ state[j.child] = "EMBRYO" ELSE j.child = NoPage

\* The end of the memory a page table has.
TopOf(p, w) ==
  IF w = "new" \/ job[p].op = "sbrk" THEN job[p].at ELSE sz[p]

NothingAbove(p) == \A w \in Spaces : \A a \in Addresses :
  a >= TopOf(p, w) => table[p][w].mem[a] = NoPage

ProcRight(p) ==
  SlotRight(p) /\ JobRight(p) /\ NothingAbove(p) /\ \A w \in Spaces : NotTwice(table[p][w])

OneParent == \A p, q \in Slots :
  job[p].op = "fork" /\ job[q].op = "fork" /\ job[p].child = job[q].child => p = q

MemoryIInv ==
  /\ MemoryTypes
  /\ Shared(HeldNow)
  /\ \A p \in Slots : ProcRight(p)
  /\ OneParent

\* Where memory is given back only down to a page, it is whole from its start on.
WholeAt(p) ==
  /\ state[p] = "RUNNING" =>
       \A a \in Addresses : a < TopOf(p, "cur") => table[p]["cur"].mem[a] # NoPage
  /\ job[p].op \in {"exec", "fork"} =>
       \A a \in Addresses : a < job[p].at => table[p]["new"].mem[a] # NoPage

Whole == \A p \in Slots : WholeAt(p)

-----------------------------------------------------------------------------
(* Lemmas about pages and where they are *)

\* Some of what l has goes to m.
Moves(H, G, l, m, S) ==
  /\ S \subseteq H[l] /\ G[l] = H[l] \ S /\ G[m] = H[m] \cup S
  /\ \A k \in Locs : k # l /\ k # m => G[k] = H[k]

LEMMA PagesMoved ==
  ASSUME NEW H, NEW G, Shared(H), NEW l \in Locs, NEW m \in Locs, l # m,
         NEW S, Moves(H, G, l, m, S)
  PROVE  Shared(G)
<1> USE DEF Moves
<1>1. \A k \in Locs : G[k] \subseteq Pages
  BY DEF Shared
<1>2. ASSUME NEW j \in Locs, NEW n \in Locs, j # n, NEW x, x \in G[j], x \in G[n] PROVE FALSE
  <2>1. \A k \in Locs : x \in H[k] => \A h \in Locs : x \in H[h] => h = k
    BY DEF Shared
  <2>2. CASE x \in S
    <3>1. \A k \in Locs : k # l => x \notin H[k]
      BY <2>1, <2>2
    <3>2. \A k \in Locs : k # m => x \notin G[k]
      BY <2>2, <3>1
    <3>. QED
      BY <1>2, <3>2
  <2>3. CASE x \notin S
    <3>1. \A k \in Locs : x \in G[k] => x \in H[k]
      BY <2>3
    <3>. QED
      BY <1>2, <2>1, <3>1
  <2>. QED
    BY <2>2, <2>3
<1>3. ASSUME NEW x \in Pages PROVE \E k \in Locs : x \in G[k]
  <2>1. PICK k \in Locs : x \in H[k]
    BY DEF Shared
  <2>. QED
    BY <2>1
<1>. QED
  BY <1>1, <1>2, <1>3 DEF Shared

\* A set of numbers has a least one.
LEMMA LeastNumber ==
  ASSUME NEW T \in SUBSET Nat, T # {}
  PROVE  \E x \in T : \A y \in T : x <= y
<1>1. PICK x \in T : \A y \in T : ~(<<y, x>> \in OpToRel(<, Nat))
  BY NatLessThanWellFounded, WFMin, ZenonT(60)
<1>2. \A y \in T : ~(y < x)
  BY <1>1 DEF OpToRel
<1>. QED
  BY <1>2

LEMMA MemoryFacts ==
  /\ Slots \subseteq Nat /\ 0 \notin Slots /\ Init0 \in Slots
  /\ NPages \in Nat /\ NPages >= 5 /\ MaxSz \in Nat /\ MaxSz > 1
  /\ Pages \subseteq Nat /\ NoPage \notin Pages
  /\ Pool \in Locs /\ \A p \in Slots, u \in Parts : <<p, u>> \in Locs /\ <<p, u>> # Pool
  /\ 0 \in Tables /\ 0 \in Addresses
  /\ \A a \in Addresses : a \div PerTable \in Tables
<1> USE MemoryAssumption
<1>1. Slots \subseteq Nat /\ 0 \notin Slots /\ Init0 \in Slots
  OBVIOUS
<1>2. Pages \subseteq Nat /\ NoPage \notin Pages
  BY DEF Pages, NoPage
<1>3. Pool \in Locs /\ \A p \in Slots, u \in Parts : <<p, u>> \in Locs /\ <<p, u>> # Pool
  BY DEF Pool, Locs
<1>4. ASSUME NEW a \in Addresses PROVE a \div PerTable \in Tables
  <2> DEFINE d == PerTable
             b == MaxSz - 1
             q == a \div d
             r == b \div d
  <2>1. /\ a \in Nat /\ b \in Nat /\ a <= b /\ d \in Nat /\ d > 0
        /\ q \in Nat /\ r \in Nat
    BY DEF Addresses
  <2>2. d * q <= a /\ b < d * (r + 1)
    BY <2>1
  <2>3. q < r + 1
    <3> HIDE DEF d, b, q, r
    <3>1. d * q < d * (r + 1)
      BY <2>1, <2>2
    <3>2. ASSUME r + 1 <= q PROVE FALSE
      <4>1. d * (r + 1) <= d * q
        BY <2>1, <3>2
      <4>. QED
        BY <2>1, <3>1, <4>1
    <3>. QED
      BY <2>1, <3>2
  <2>. QED
    BY <2>1, <2>3 DEF Tables
<1>5. 0 \in Addresses
  BY DEF Addresses
<1>6. 0 \in Tables
  <2>1. 0 \div PerTable = 0
    BY MemoryAssumption
  <2>. QED
    BY <1>4, <1>5, <2>1
<1>. QED
  BY <1>1, <1>2, <1>3, <1>4, <1>5, <1>6

\* kalloc() has a page as long as one is free.
LEMMA PageIsFree ==
  ASSUME free \subseteq Pages, free # {}
  PROVE  Page \in free
<1>1. \E x \in free : \A y \in free : x <= y
  BY MemoryFacts, LeastNumber
<1>. QED
  BY <1>1 DEF Page

-----------------------------------------------------------------------------
(* Page tables *)

LEMMA InPageTable ==
  ASSUME NEW s \in PageTable
  PROVE  /\ PagesOf(s) \subseteq Pages
         /\ \A x : x \in PagesOf(s) <=>
              /\ x # NoPage
              /\ \/ x = s.dir \/ x = s.kern
                 \/ \E t \in Tables : x = s.tab[t]
                 \/ \E a \in Addresses : x = s.mem[a]
<1>1. \A x : x \in PagesOf(s) <=>
        /\ x # NoPage
        /\ \/ x = s.dir \/ x = s.kern
           \/ \E t \in Tables : x = s.tab[t]
           \/ \E a \in Addresses : x = s.mem[a]
  BY DEF PagesOf, Addresses
<1>2. \A x : x \in PagesOf(s) => x \in Pages
  BY <1>1 DEF PageTable, PageOrNone
<1>. QED
  BY <1>1, <1>2

LEMMA EmptyTable ==
  /\ Empty \in PageTable /\ PagesOf(Empty) = {} /\ NotTwice(Empty)
  /\ Empty.dir = NoPage /\ Empty.kern = NoPage
  /\ \A a \in Addresses : Empty.mem[a] = NoPage
<1>1. /\ Empty \in PageTable /\ Empty.dir = NoPage /\ Empty.kern = NoPage
      /\ \A t \in Tables : Empty.tab[t] = NoPage
      /\ \A a \in Addresses : Empty.mem[a] = NoPage
  BY DEF Empty, PageTable, PageOrNone, Addresses
<1>2. PagesOf(Empty) = {}
  BY <1>1, InPageTable
<1>. QED
  BY <1>1, <1>2 DEF NotTwice

\* A new page in one of the places.
LEMMA DirSet ==
  ASSUME NEW s \in PageTable, s.dir = NoPage, NotTwice(s), NEW x \in Pages, x \notin PagesOf(s),
         NEW r \in PageTable, r.dir = x, r.kern = s.kern, r.tab = s.tab, r.mem = s.mem
  PROVE  PagesOf(r) = PagesOf(s) \cup {x} /\ NotTwice(r)
<1>1. x # NoPage
  BY MemoryFacts
<1>2. PagesOf(r) = PagesOf(s) \cup {x}
  <2>1. \A y : y \in PagesOf(r) <=>
          y # NoPage /\ (y = r.dir \/ y = r.kern \/ (\E u \in Tables : y = r.tab[u])
                         \/ \E c \in Addresses : y = r.mem[c])
    BY InPageTable
  <2>2. \A y : y \in PagesOf(s) <=>
          y # NoPage /\ (y = s.dir \/ y = s.kern \/ (\E u \in Tables : y = s.tab[u])
                         \/ \E c \in Addresses : y = s.mem[c])
    BY InPageTable
  <2>3. \A y : y \in PagesOf(r) <=> y \in PagesOf(s) \cup {x}
    BY <1>1, <2>1, <2>2
  <2>. QED
    BY <2>3
<1>3. NotTwice(r)
  BY <1>1, InPageTable DEF NotTwice
<1>. QED
  BY <1>2, <1>3

LEMMA KernSet ==
  ASSUME NEW s \in PageTable, s.kern = NoPage, NotTwice(s), NEW x \in Pages, x \notin PagesOf(s),
         NEW r \in PageTable, r.dir = s.dir, r.kern = x, r.tab = s.tab, r.mem = s.mem
  PROVE  PagesOf(r) = PagesOf(s) \cup {x} /\ NotTwice(r)
<1>1. x # NoPage
  BY MemoryFacts
<1>2. PagesOf(r) = PagesOf(s) \cup {x}
  <2>1. \A y : y \in PagesOf(r) <=>
          y # NoPage /\ (y = r.dir \/ y = r.kern \/ (\E u \in Tables : y = r.tab[u])
                         \/ \E c \in Addresses : y = r.mem[c])
    BY InPageTable
  <2>2. \A y : y \in PagesOf(s) <=>
          y # NoPage /\ (y = s.dir \/ y = s.kern \/ (\E u \in Tables : y = s.tab[u])
                         \/ \E c \in Addresses : y = s.mem[c])
    BY InPageTable
  <2>3. \A y : y \in PagesOf(r) <=> y \in PagesOf(s) \cup {x}
    BY <1>1, <2>1, <2>2
  <2>. QED
    BY <2>3
<1>3. NotTwice(r)
  BY <1>1, InPageTable DEF NotTwice
<1>. QED
  BY <1>2, <1>3

LEMMA TabSet ==
  ASSUME NEW s \in PageTable, NEW t \in Tables, s.tab[t] = NoPage, NotTwice(s),
         NEW x \in Pages, x \notin PagesOf(s),
         NEW r \in PageTable, r.dir = s.dir, r.kern = s.kern, r.mem = s.mem,
         r.tab[t] = x, \A u \in Tables : u # t => r.tab[u] = s.tab[u]
  PROVE  PagesOf(r) = PagesOf(s) \cup {x} /\ NotTwice(r)
<1>1. x # NoPage
  BY MemoryFacts
<1>2. PagesOf(r) = PagesOf(s) \cup {x}
  <2>1. \A y : y \in PagesOf(r) <=>
          y # NoPage /\ (y = r.dir \/ y = r.kern \/ (\E u \in Tables : y = r.tab[u])
                         \/ \E c \in Addresses : y = r.mem[c])
    BY InPageTable
  <2>2. \A y : y \in PagesOf(s) <=>
          y # NoPage /\ (y = s.dir \/ y = s.kern \/ (\E u \in Tables : y = s.tab[u])
                         \/ \E c \in Addresses : y = s.mem[c])
    BY InPageTable
  <2>3. \A y : y \in PagesOf(r) <=> y \in PagesOf(s) \cup {x}
    BY <1>1, <2>1, <2>2
  <2>. QED
    BY <2>3
<1>3. NotTwice(r)
  BY <1>1, InPageTable DEF NotTwice
<1>. QED
  BY <1>2, <1>3

LEMMA MemSet ==
  ASSUME NEW s \in PageTable, NEW a \in Addresses, s.mem[a] = NoPage, NotTwice(s),
         NEW x \in Pages, x \notin PagesOf(s),
         NEW r \in PageTable, r.dir = s.dir, r.kern = s.kern, r.tab = s.tab,
         r.mem[a] = x, \A c \in Addresses : c # a => r.mem[c] = s.mem[c]
  PROVE  PagesOf(r) = PagesOf(s) \cup {x} /\ NotTwice(r)
<1>1. x # NoPage
  BY MemoryFacts
<1>2. PagesOf(r) = PagesOf(s) \cup {x}
  <2>1. \A y : y \in PagesOf(r) <=>
          y # NoPage /\ (y = r.dir \/ y = r.kern \/ (\E u \in Tables : y = r.tab[u])
                         \/ \E c \in Addresses : y = r.mem[c])
    BY InPageTable
  <2>2. \A y : y \in PagesOf(s) <=>
          y # NoPage /\ (y = s.dir \/ y = s.kern \/ (\E u \in Tables : y = s.tab[u])
                         \/ \E c \in Addresses : y = s.mem[c])
    BY InPageTable
  <2>3. \A y : y \in PagesOf(r) <=> y \in PagesOf(s) \cup {x}
    BY <1>1, <2>1, <2>2
  <2>. QED
    BY <2>3
<1>3. NotTwice(r)
  BY <1>1, InPageTable DEF NotTwice
<1>. QED
  BY <1>2, <1>3

\* Pages of memory taken out of a table are all that it loses.
LEMMA MemCleared ==
  ASSUME NEW s \in PageTable, NotTwice(s), NEW A, A \subseteq Addresses
  PROVE  /\ Without(s, A) \in PageTable /\ NotTwice(Without(s, A))
         /\ UserPages(s, A) \subseteq PagesOf(s)
         /\ PagesOf(Without(s, A)) = PagesOf(s) \ UserPages(s, A)
         /\ Without(s, A).dir = s.dir /\ Without(s, A).kern = s.kern
         /\ \A a \in Addresses : Without(s, A).mem[a] = IF a \in A THEN NoPage ELSE s.mem[a]
<1> DEFINE r == Without(s, A)
<1>1. DOMAIN s.mem = Addresses
  BY DEF PageTable
<1>2. /\ r.dir = s.dir /\ r.kern = s.kern /\ r.tab = s.tab
      /\ r.mem = [a \in Addresses |-> IF a \in A THEN NoPage ELSE s.mem[a]]
      /\ r \in PageTable
  BY <1>1 DEF Without, PageTable, PageOrNone
<1>3. \A a \in Addresses : r.mem[a] = IF a \in A THEN NoPage ELSE s.mem[a]
  BY <1>2
<1>4. \A x : x \in UserPages(s, A) <=> x # NoPage /\ \E a \in A : x = s.mem[a]
  BY DEF UserPages
<1>5. UserPages(s, A) \subseteq PagesOf(s)
  BY <1>4, InPageTable
<1> HIDE DEF r
<1>6. NotTwice(r)
  BY <1>2, <1>3 DEF NotTwice
<1>7. \A x : x \in PagesOf(r) <=> x \in PagesOf(s) /\ x \notin UserPages(s, A)
  <2> TAKE x
  <2>1. x \in PagesOf(r) <=>
          /\ x # NoPage
          /\ \/ x = s.dir \/ x = s.kern
             \/ \E t \in Tables : x = s.tab[t]
             \/ \E a \in Addresses : a \notin A /\ x = s.mem[a]
    BY <1>2, <1>3, InPageTable
  <2>2. x \in PagesOf(s) <=>
          /\ x # NoPage
          /\ \/ x = s.dir \/ x = s.kern
             \/ \E t \in Tables : x = s.tab[t]
             \/ \E a \in Addresses : x = s.mem[a]
    BY InPageTable
  <2>. QED
    BY <1>4, <2>1, <2>2 DEF NotTwice
<1>. QED
  BY <1>2, <1>3, <1>5, <1>6, <1>7 DEF r

-----------------------------------------------------------------------------
(* Who holds what, now and after a step *)

LEMMA EveryLoc ==
  \A l \in Locs : l = Pool \/ \E p \in Slots, u \in Parts : l = <<p, u>>
BY DEF Locs

LEMMA HeldIs ==
  /\ HeldNow[Pool] = free
  /\ \A p \in Slots :
       /\ HeldNow[<<p, "stack">>] = Only(kstack[p])
       /\ HeldNow[<<p, "hand">>] = Only(job[p].mem)
       /\ HeldNow[<<p, "cur">>] = PagesOf(table[p]["cur"])
       /\ HeldNow[<<p, "new">>] = PagesOf(table[p]["new"])
<1>1. HeldNow[Pool] = free
  BY MemoryFacts DEF HeldNow
<1>2. \A p \in Slots, u \in Parts : HeldNow[<<p, u>>] = Part(p, u)
  BY MemoryFacts DEF HeldNow
<1>. QED
  BY <1>1, <1>2 DEF Part, Parts

LEMMA HeldIsThen ==
  /\ HeldNow'[Pool] = free'
  /\ \A p \in Slots :
       /\ HeldNow'[<<p, "stack">>] = Only(kstack'[p])
       /\ HeldNow'[<<p, "hand">>] = Only(job'[p].mem)
       /\ HeldNow'[<<p, "cur">>] = PagesOf(table'[p]["cur"])
       /\ HeldNow'[<<p, "new">>] = PagesOf(table'[p]["new"])
<1>1. HeldNow'[Pool] = free'
  BY MemoryFacts DEF HeldNow
<1>2. \A p \in Slots, u \in Parts : HeldNow'[<<p, u>>] = Part(p, u)'
  BY MemoryFacts DEF HeldNow
<1>. QED
  BY <1>1, <1>2 DEF Part, Parts

LEMMA NothingMoved ==
  ASSUME Shared(HeldNow),
         UNCHANGED <<free, kstack, table>>, \A q \in Slots : job'[q].mem = job[q].mem
  PROVE  Shared(HeldNow)'
<1>1. \A q \in Slots, u \in Parts : HeldNow'[<<q, u>>] = HeldNow[<<q, u>>]
  <2> TAKE q \in Slots
  <2>1. HeldNow'[<<q, "stack">>] = HeldNow[<<q, "stack">>]
    BY HeldIs, HeldIsThen
  <2>2. HeldNow'[<<q, "hand">>] = HeldNow[<<q, "hand">>]
    BY HeldIs, HeldIsThen
  <2>3. HeldNow'[<<q, "cur">>] = HeldNow[<<q, "cur">>]
    BY HeldIs, HeldIsThen
  <2>4. HeldNow'[<<q, "new">>] = HeldNow[<<q, "new">>]
    BY HeldIs, HeldIsThen
  <2>. QED
    BY <2>1, <2>2, <2>3, <2>4 DEF Parts
<1>2. \A k \in Locs : HeldNow'[k] = HeldNow[k]
  BY <1>1, HeldIs, HeldIsThen, EveryLoc
<1>. QED
  BY <1>2 DEF Shared

\* What the invariant says of a process and of its page tables.
LEMMA AboutSlot ==
  ASSUME MemoryIInv, NEW p \in Slots
  PROVE  /\ SlotRight(p) /\ JobRight(p) /\ NothingAbove(p)
         /\ job[p] \in Job /\ sz[p] \in Nat /\ sz[p] < MaxSz /\ kstack[p] \in PageOrNone
         /\ \A w \in Spaces : table[p][w] \in PageTable /\ NotTwice(table[p][w])
         /\ NoJob \in Job /\ NoJob.op = "none" /\ NoJob.mem = NoPage /\ NoJob.pc = "run"
         /\ NoJob.child = NoPage
<1>1. /\ NoJob \in Job /\ NoJob.op = "none" /\ NoJob.mem = NoPage /\ NoJob.pc = "run"
      /\ NoJob.child = NoPage
  BY DEF NoJob, Job, PageOrNone, NoPage
<1>2. sz[p] \in Nat /\ sz[p] < MaxSz
  BY MemoryFacts DEF MemoryIInv, MemoryTypes, Addresses
<1>. QED
  BY <1>1, <1>2 DEF MemoryIInv, MemoryTypes, ProcRight

\* A process that the step of another does not touch.
LEMMA OthersKeep ==
  ASSUME MemoryIInv, NEW q \in Slots, job'[q] = job[q], table'[q] = table[q], sz'[q] = sz[q],
         state'[q] = state[q], kstack'[q] = kstack[q],
         job[q].op = "fork" =>
           state'[job[q].child] = state[job[q].child] /\ kstack'[job[q].child] = kstack[job[q].child]
  PROVE  ProcRight(q)'
<1>1. SlotRight(q)' /\ \A w \in Spaces : NotTwice(table[q][w])'
  BY AboutSlot DEF SlotRight
<1>2. JobRight(q)'
  BY AboutSlot DEF JobRight
<1>3. NothingAbove(q)'
  BY AboutSlot DEF NothingAbove, TopOf
<1>. QED
  BY <1>1, <1>2, <1>3 DEF ProcRight

\* What does not change outside of some parts.
LEMMA RestHeld ==
  ASSUME NEW X,
         \A q \in Slots : <<q, "stack">> \notin X => kstack'[q] = kstack[q],
         \A q \in Slots : <<q, "hand">> \notin X => job'[q].mem = job[q].mem,
         \A q \in Slots : <<q, "cur">> \notin X => table'[q]["cur"] = table[q]["cur"],
         \A q \in Slots : <<q, "new">> \notin X => table'[q]["new"] = table[q]["new"]
  PROVE  \A k \in Locs : k # Pool /\ k \notin X => HeldNow'[k] = HeldNow[k]
<1>1. \A q \in Slots, u \in Parts : <<q, u>> \notin X => HeldNow'[<<q, u>>] = HeldNow[<<q, u>>]
  <2> TAKE q \in Slots
  <2>1. <<q, "stack">> \notin X => HeldNow'[<<q, "stack">>] = HeldNow[<<q, "stack">>]
    BY HeldIs, HeldIsThen
  <2>2. <<q, "hand">> \notin X => HeldNow'[<<q, "hand">>] = HeldNow[<<q, "hand">>]
    BY HeldIs, HeldIsThen
  <2>3. <<q, "cur">> \notin X => HeldNow'[<<q, "cur">>] = HeldNow[<<q, "cur">>]
    BY HeldIs, HeldIsThen
  <2>4. <<q, "new">> \notin X => HeldNow'[<<q, "new">>] = HeldNow[<<q, "new">>]
    BY HeldIs, HeldIsThen
  <2>. QED
    BY <2>1, <2>2, <2>3, <2>4 DEF Parts
<1>. QED
  BY <1>1, EveryLoc

LEMMA RestHeldBut ==
  ASSUME NEW p \in Slots, NEW u \in Parts,
         u # "stack" => kstack'[p] = kstack[p],
         u # "hand" => job'[p].mem = job[p].mem,
         u # "cur" => table'[p]["cur"] = table[p]["cur"],
         u # "new" => table'[p]["new"] = table[p]["new"],
         \A q \in Slots : q # p => kstack'[q] = kstack[q] /\ job'[q].mem = job[q].mem
                                  /\ table'[q] = table[q]
  PROVE  \A k \in Locs : k # Pool /\ k # <<p, u>> => HeldNow'[k] = HeldNow[k]
<1> DEFINE X == {<<p, u>>}
<1>1. /\ \A q \in Slots : <<q, "stack">> \notin X => kstack'[q] = kstack[q]
      /\ \A q \in Slots : <<q, "hand">> \notin X => job'[q].mem = job[q].mem
      /\ \A q \in Slots : <<q, "cur">> \notin X => table'[q]["cur"] = table[q]["cur"]
      /\ \A q \in Slots : <<q, "new">> \notin X => table'[q]["new"] = table[q]["new"]
  OBVIOUS
<1>2. \A k \in Locs : k # Pool /\ k \notin X => HeldNow'[k] = HeldNow[k]
  <2> HIDE DEF X
  <2>. QED
    BY <1>1, RestHeld
<1>. QED
  BY <1>2

LEMMA FreeIsNowhere ==
  ASSUME MemoryIInv, free # {}
  PROVE  /\ Page \in free /\ Page \in Pages /\ Page # NoPage
         /\ \A q \in Slots : /\ Page # kstack[q] /\ Page # job[q].mem
                             /\ \A w \in Spaces : Page \notin PagesOf(table[q][w])
<1>1. Page \in free /\ Page \in Pages /\ Page # NoPage
  BY PageIsFree, MemoryFacts DEF MemoryIInv, MemoryTypes
<1>2. ASSUME NEW q \in Slots
      PROVE  /\ Page # kstack[q] /\ Page # job[q].mem
             /\ \A w \in Spaces : Page \notin PagesOf(table[q][w])
  <2>1. \A u \in Parts : HeldNow[Pool] \cap HeldNow[<<q, u>>] = {}
    BY MemoryFacts DEF MemoryIInv, Shared
  <2>2. \A u \in Parts : Page \notin HeldNow[<<q, u>>]
    BY <1>1, <2>1, HeldIs
  <2>3. Page \notin Only(kstack[q]) /\ Page \notin Only(job[q].mem)
    BY <2>2, HeldIs DEF Parts
  <2>4. \A w \in Spaces : Page \notin PagesOf(table[q][w])
    BY <2>2, HeldIs DEF Parts, Spaces
  <2>. QED
    BY <1>1, <2>3, <2>4 DEF Only
<1>. QED
  BY <1>1, <1>2

\* A page from the free list goes to a process.
LEMMA PageTaken ==
  ASSUME MemoryIInv, free # {}, NEW p \in Slots, NEW u \in Parts,
         free' = free \ {Page}, HeldNow'[<<p, u>>] = HeldNow[<<p, u>>] \cup {Page},
         \A k \in Locs : k # Pool /\ k # <<p, u>> => HeldNow'[k] = HeldNow[k]
  PROVE  Shared(HeldNow)'
<1>1. HeldNow'[Pool] = HeldNow[Pool] \ {Page} /\ {Page} \subseteq HeldNow[Pool]
  BY HeldIs, HeldIsThen, FreeIsNowhere
<1>2. Pool \in Locs /\ <<p, u>> \in Locs /\ Pool # <<p, u>>
  BY MemoryFacts
<1>3. Shared(HeldNow)
  BY DEF MemoryIInv
<1>4. Moves(HeldNow, HeldNow', Pool, <<p, u>>, {Page})
  BY <1>1 DEF Moves
<1>5. Shared(HeldNow')
  BY <1>2, <1>3, <1>4, PagesMoved
<1>. QED
  BY <1>5 DEF Shared

\* Steps that only change how far a call is.
LEMMA GrowKeeps ==
  ASSUME MemoryIInv, NEW p \in Slots, Grow(p)
  PROVE  MemoryIInv'
<1>1. PICK n \in 1 .. MaxSz :
        /\ Idle(p) /\ sz[p] + n < MaxSz
        /\ job' = [job EXCEPT ![p] = [NoJob EXCEPT
             !.op = "sbrk", !.pc = "page", !.from = sz[p], !.at = sz[p], !.to = sz[p] + n]]
        /\ UNCHANGED <<free, state, kstack, sz, table>>
  BY DEF Grow
<1> DEFINE j == [NoJob EXCEPT !.op = "sbrk", !.pc = "page", !.from = sz[p], !.at = sz[p],
                               !.to = sz[p] + n]
<1>2. /\ j \in Job /\ j.op = "sbrk" /\ j.pc = "page" /\ j.from = sz[p] /\ j.at = sz[p]
      /\ j.to = sz[p] + n /\ j.mem = NoPage /\ j.child = NoPage
  <2>1. sz[p] \in Nat /\ n \in Nat /\ sz[p] + n \in Nat
    BY AboutSlot, MemoryFacts
  <2>. QED
    BY <2>1 DEF NoJob, Job, PageOrNone, NoPage
<1> HIDE DEF j
<1>3. MemoryTypes'
  BY <1>1, <1>2 DEF MemoryIInv, MemoryTypes, j
<1>4. /\ job[p] = NoJob /\ state[p] = "RUNNING" /\ job'[p] = j
      /\ \A q \in Slots : q # p => job'[q] = job[q]
  BY <1>1 DEF MemoryIInv, MemoryTypes, Idle, j
<1>5. Shared(HeldNow)'
  BY <1>1, <1>2, <1>4, NothingMoved, AboutSlot DEF MemoryIInv
<1>6. ASSUME NEW q \in Slots, q # p PROVE ProcRight(q)'
  BY <1>1, <1>4, <1>6, OthersKeep
<1>7. ProcRight(p)'
  <2>1. table[p]["new"] = Empty /\ table' = table
    BY <1>1, <1>4, AboutSlot DEF JobRight
  <2>2. SlotRight(p)' /\ JobRight(p)' /\ \A w \in Spaces : NotTwice(table[p][w])'
    BY <1>1, <1>2, <1>4, AboutSlot, MemoryFacts DEF SlotRight, JobRight
  <2>3. TopOf(p, "cur")' = TopOf(p, "cur")
    BY <1>1, <1>2, <1>4, AboutSlot DEF TopOf
  <2>4. NothingAbove(p)'
    BY <2>1, <2>3, EmptyTable, AboutSlot DEF NothingAbove, Spaces
  <2>. QED
    BY <2>2, <2>4 DEF ProcRight
<1>8. OneParent'
  BY <1>1, <1>2, <1>4 DEF MemoryIInv, OneParent
<1>. QED
  BY <1>3, <1>5, <1>6, <1>7, <1>8 DEF MemoryIInv

LEMMA ExecKeeps ==
  ASSUME MemoryIInv, NEW p \in Slots, Exec(p)
  PROVE  MemoryIInv'
<1>1. PICK n \in Programs :
        /\ Idle(p)
        /\ job' = [job EXCEPT ![p] = [NoJob EXCEPT !.op = "exec", !.pc = "dir", !.to = n]]
        /\ UNCHANGED <<free, state, kstack, sz, table>>
  BY DEF Exec
<1> DEFINE j == [NoJob EXCEPT !.op = "exec", !.pc = "dir", !.to = n]
<1>2. /\ j \in Job /\ j.op = "exec" /\ j.pc = "dir" /\ j.at = 0 /\ j.mem = NoPage
      /\ j.child = NoPage /\ j.to = n /\ n \in Nat /\ n < MaxSz
  <2>1. n \in Nat /\ n < MaxSz
    BY MemoryAssumption
  <2>. QED
    BY <2>1 DEF NoJob, Job, PageOrNone, NoPage
<1> HIDE DEF j
<1>3. MemoryTypes'
  BY <1>1, <1>2 DEF MemoryIInv, MemoryTypes, j
<1>4. /\ job[p] = NoJob /\ state[p] = "RUNNING" /\ job'[p] = j
      /\ \A q \in Slots : q # p => job'[q] = job[q]
  BY <1>1 DEF MemoryIInv, MemoryTypes, Idle, j
<1>5. Shared(HeldNow)'
  BY <1>1, <1>2, <1>4, NothingMoved, AboutSlot DEF MemoryIInv
<1>6. table[p]["new"] = Empty
  BY <1>4, AboutSlot DEF JobRight
<1>7. ASSUME NEW q \in Slots, q # p PROVE ProcRight(q)'
  BY <1>1, <1>4, <1>7, OthersKeep
<1>8. ProcRight(p)'
  <2>1. table' = table
    BY <1>1
  <2>2. SlotRight(p)' /\ \A w \in Spaces : NotTwice(table[p][w])'
    BY <1>1, <1>4, AboutSlot DEF SlotRight
  <2>3. JobRight(p)'
    BY <1>2, <1>4, <1>6, <2>1, EmptyTable DEF JobRight
  <2>4. TopOf(p, "cur")' = TopOf(p, "cur")
    BY <1>1, <1>2, <1>4, AboutSlot DEF TopOf
  <2>5. NothingAbove(p)'
    BY <1>6, <2>1, <2>4, EmptyTable, AboutSlot DEF NothingAbove, Spaces
  <2>. QED
    BY <2>2, <2>3, <2>5 DEF ProcRight
<1>9. OneParent'
  BY <1>1, <1>2, <1>4 DEF MemoryIInv, OneParent
<1>. QED
  BY <1>3, <1>5, <1>7, <1>8, <1>9 DEF MemoryIInv

\* The next page of a call.
LEMMA SetupDirKeeps ==
  ASSUME MemoryIInv, NEW p \in Slots, job[p].pc = "dir", free # {},
         free' = free \ {Page}, table' = [table EXCEPT ![p]["new"].dir = Page],
         job' = [job EXCEPT ![p].pc = "kern"], UNCHANGED <<state, kstack, sz>>
  PROVE  MemoryIInv'
<1> DEFINE s == table[p]["new"]
           r == table'[p]["new"]
<1>1. /\ s \in PageTable /\ NotTwice(s) /\ s.dir = NoPage /\ s.kern = NoPage
      /\ job[p] \in Job /\ job[p].op \in {"exec", "fork"} /\ job[p].mem = NoPage
  BY AboutSlot DEF JobRight, Spaces, Job
<1>2. Page \in Pages /\ Page \notin PagesOf(s)
  BY FreeIsNowhere DEF Spaces
<1>3. /\ r \in PageTable /\ r.dir = Page /\ r.kern = s.kern /\ r.tab = s.tab /\ r.mem = s.mem
      /\ table'[p]["cur"] = table[p]["cur"]
      /\ \A q \in Slots : q # p => table'[q] = table[q]
      /\ table' \in [Slots -> [Spaces -> PageTable]]
  BY <1>1, <1>2 DEF MemoryIInv, MemoryTypes, Spaces, PageTable, PageOrNone
<1>4. /\ job'[p] \in Job /\ job'[p] = [job[p] EXCEPT !.pc = "kern"]
      /\ \A q \in Slots : q # p => job'[q] = job[q]
      /\ job' \in [Slots -> Job]
  BY <1>1 DEF MemoryIInv, MemoryTypes, Job
<1>5. /\ job'[p].pc = "kern" /\ job'[p].op = job[p].op /\ job'[p].mem = NoPage
      /\ job'[p].at = job[p].at /\ job'[p].to = job[p].to /\ job'[p].child = job[p].child
  BY <1>1, <1>4 DEF Job
<1>6. PagesOf(r) = PagesOf(s) \cup {Page} /\ NotTwice(r)
  BY <1>1, <1>2, <1>3, DirSet
<1> HIDE DEF s, r
<1>7. MemoryTypes'
  BY <1>3, <1>4 DEF MemoryIInv, MemoryTypes
<1>8. Shared(HeldNow)'
  <2>1. HeldNow'[<<p, "new">>] = HeldNow[<<p, "new">>] \cup {Page}
    BY <1>6, HeldIs, HeldIsThen DEF s, r
  <2>2. \A k \in Locs : k # Pool /\ k # <<p, "new">> => HeldNow'[k] = HeldNow[k]
    <3>1. \A q \in Slots : job'[q].mem = job[q].mem
      BY <1>1, <1>4, <1>5
    <3>. QED
      BY <1>3, <3>1, RestHeldBut DEF Parts
  <2>. QED
    BY <2>1, <2>2, PageTaken DEF Parts
<1>9. ASSUME NEW q \in Slots, q # p PROVE ProcRight(q)'
  BY <1>3, <1>4, <1>9, OthersKeep
<1>10. ProcRight(p)'
  BY <1>1, <1>3, <1>5, <1>6, AboutSlot
     DEF ProcRight, SlotRight, JobRight, NothingAbove, TopOf, Spaces, s, r
<1>11. OneParent'
  BY <1>4, <1>5 DEF MemoryIInv, OneParent
<1>. QED
  BY <1>7, <1>8, <1>9, <1>10, <1>11 DEF MemoryIInv

LEMMA SetupKernKeeps ==
  ASSUME MemoryIInv, NEW p \in Slots, job[p].pc = "kern", free # {},
         free' = free \ {Page}, table' = [table EXCEPT ![p]["new"].kern = Page],
         job' = [job EXCEPT ![p].pc = "page"], UNCHANGED <<state, kstack, sz>>
  PROVE  MemoryIInv'
<1> DEFINE s == table[p]["new"]
           r == table'[p]["new"]
<1>1. /\ s \in PageTable /\ NotTwice(s) /\ s.kern = NoPage
      /\ job[p] \in Job /\ job[p].op \in {"exec", "fork"} /\ job[p].mem = NoPage
  BY AboutSlot DEF JobRight, Spaces, Job
<1>2. Page \in Pages /\ Page \notin PagesOf(s)
  BY FreeIsNowhere DEF Spaces
<1>3. /\ r \in PageTable /\ r.dir = s.dir /\ r.kern = Page /\ r.tab = s.tab /\ r.mem = s.mem
      /\ table'[p]["cur"] = table[p]["cur"]
      /\ \A q \in Slots : q # p => table'[q] = table[q]
      /\ table' \in [Slots -> [Spaces -> PageTable]]
  BY <1>1, <1>2 DEF MemoryIInv, MemoryTypes, Spaces, PageTable, PageOrNone
<1>4. /\ job'[p] \in Job /\ job'[p] = [job[p] EXCEPT !.pc = "page"]
      /\ \A q \in Slots : q # p => job'[q] = job[q]
      /\ job' \in [Slots -> Job]
  BY <1>1 DEF MemoryIInv, MemoryTypes, Job
<1>5. /\ job'[p].pc = "page" /\ job'[p].op = job[p].op /\ job'[p].mem = NoPage
      /\ job'[p].at = job[p].at /\ job'[p].to = job[p].to /\ job'[p].child = job[p].child
  BY <1>1, <1>4 DEF Job
<1>6. PagesOf(r) = PagesOf(s) \cup {Page} /\ NotTwice(r)
  BY <1>1, <1>2, <1>3, KernSet
<1> HIDE DEF s, r
<1>7. MemoryTypes'
  BY <1>3, <1>4 DEF MemoryIInv, MemoryTypes
<1>8. Shared(HeldNow)'
  <2>1. HeldNow'[<<p, "new">>] = HeldNow[<<p, "new">>] \cup {Page}
    BY <1>6, HeldIs, HeldIsThen DEF s, r
  <2>2. \A k \in Locs : k # Pool /\ k # <<p, "new">> => HeldNow'[k] = HeldNow[k]
    <3>1. \A q \in Slots : job'[q].mem = job[q].mem
      BY <1>1, <1>4, <1>5
    <3>. QED
      BY <1>3, <3>1, RestHeldBut DEF Parts
  <2>. QED
    BY <2>1, <2>2, PageTaken DEF Parts
<1>9. ASSUME NEW q \in Slots, q # p PROVE ProcRight(q)'
  BY <1>3, <1>4, <1>9, OthersKeep
<1>10. ProcRight(p)'
  BY <1>1, <1>3, <1>5, <1>6, AboutSlot
     DEF ProcRight, SlotRight, JobRight, NothingAbove, TopOf, Spaces, s, r
<1>11. OneParent'
  BY <1>4, <1>5 DEF MemoryIInv, OneParent
<1>. QED
  BY <1>7, <1>8, <1>9, <1>10, <1>11 DEF MemoryIInv

LEMMA TakePageKeeps ==
  ASSUME MemoryIInv, NEW p \in Slots, job[p].pc = "page", job[p].at < job[p].to, free # {},
         free' = free \ {Page}, job' = [job EXCEPT ![p].pc = "map", ![p].mem = Page],
         UNCHANGED <<state, kstack, sz, table>>
  PROVE  MemoryIInv'
<1>1. job[p] \in Job /\ job[p].op # "none" /\ job[p].mem = NoPage
  BY AboutSlot DEF JobRight, Job
<1>2. Page \in Pages /\ Page # NoPage
  BY FreeIsNowhere
<1>3. /\ job'[p] \in Job /\ job'[p] = [job[p] EXCEPT !.pc = "map", !.mem = Page]
      /\ \A q \in Slots : q # p => job'[q] = job[q]
      /\ job' \in [Slots -> Job]
  BY <1>1, <1>2 DEF MemoryIInv, MemoryTypes, Job, PageOrNone
<1>4. /\ job'[p].pc = "map" /\ job'[p].op = job[p].op /\ job'[p].mem = Page
      /\ job'[p].at = job[p].at /\ job'[p].to = job[p].to /\ job'[p].child = job[p].child
      /\ job'[p].from = job[p].from
  BY <1>1, <1>3 DEF Job
<1>5. MemoryTypes'
  BY <1>3 DEF MemoryIInv, MemoryTypes
<1>6. Shared(HeldNow)'
  <2>1. HeldNow'[<<p, "hand">>] = HeldNow[<<p, "hand">>] \cup {Page}
    <3>1. Only(job[p].mem) = {} /\ Only(job'[p].mem) = {Page}
      BY <1>1, <1>2, <1>4 DEF Only
    <3>2. HeldNow'[<<p, "hand">>] = Only(job'[p].mem)
      BY HeldIsThen
    <3>3. HeldNow[<<p, "hand">>] = Only(job[p].mem)
      BY HeldIs
    <3>. QED
      BY <3>1, <3>2, <3>3
  <2>2. \A k \in Locs : k # Pool /\ k # <<p, "hand">> => HeldNow'[k] = HeldNow[k]
    BY <1>3, RestHeldBut DEF Parts
  <2>. QED
    BY <2>1, <2>2, PageTaken DEF Parts
<1>7. ASSUME NEW q \in Slots, q # p PROVE ProcRight(q)'
  BY <1>3, <1>7, OthersKeep
<1>8. ProcRight(p)'
  <2>1. SlotRight(p)' /\ \A w \in Spaces : NotTwice(table[p][w])'
    BY <1>1, AboutSlot DEF SlotRight, NoJob
  <2>2. JobRight(p)'
    BY <1>1, <1>2, <1>4, AboutSlot DEF JobRight
  <2>3. NothingAbove(p)'
    BY <1>4, AboutSlot DEF NothingAbove, TopOf
  <2>. QED
    BY <2>1, <2>2, <2>3 DEF ProcRight
<1>9. OneParent'
  BY <1>3, <1>4 DEF MemoryIInv, OneParent
<1>. QED
  BY <1>5, <1>6, <1>7, <1>8, <1>9 DEF MemoryIInv

LEMMA GrowDoneKeeps ==
  ASSUME MemoryIInv, NEW p \in Slots, GrowDone(p)
  PROVE  MemoryIInv'
<1>1. /\ job[p].op = "sbrk" /\ job[p].pc = "page" /\ job[p].at = job[p].to
      /\ sz' = [sz EXCEPT ![p] = job[p].to] /\ job' = [job EXCEPT ![p] = NoJob]
      /\ UNCHANGED <<free, state, kstack, table>>
  BY DEF GrowDone
<1>2. /\ job[p] \in Job /\ job[p].mem = NoPage /\ job[p].to < MaxSz /\ job[p].to \in Nat
      /\ table[p]["new"] = Empty
  BY <1>1, AboutSlot DEF JobRight, Job
<1>3. /\ job' \in [Slots -> Job] /\ job'[p] = NoJob /\ sz'[p] = job[p].to
      /\ \A q \in Slots : q # p => job'[q] = job[q] /\ sz'[q] = sz[q]
      /\ sz' \in [Slots -> Addresses]
  BY <1>1, <1>2, AboutSlot, MemoryFacts DEF MemoryIInv, MemoryTypes, Addresses
<1>4. MemoryTypes'
  BY <1>1, <1>3 DEF MemoryIInv, MemoryTypes
<1>5. Shared(HeldNow)'
  BY <1>1, <1>2, <1>3, AboutSlot, NothingMoved DEF MemoryIInv
<1>6. ASSUME NEW q \in Slots, q # p PROVE ProcRight(q)'
  BY <1>1, <1>3, <1>6, OthersKeep
<1>7. ProcRight(p)'
  <2>1. SlotRight(p)' /\ \A w \in Spaces : NotTwice(table[p][w])'
    BY <1>1, <1>3, AboutSlot DEF SlotRight
  <2>2. JobRight(p)'
    BY <1>1, <1>2, <1>3, AboutSlot DEF JobRight
  <2>3. TopOf(p, "cur")' = TopOf(p, "cur")
    BY <1>1, <1>3, AboutSlot DEF TopOf
  <2>4. NothingAbove(p)'
    BY <1>1, <1>2, <2>3, EmptyTable, AboutSlot DEF NothingAbove, Spaces
  <2>. QED
    BY <2>1, <2>2, <2>4 DEF ProcRight
<1>8. OneParent'
  BY <1>3, AboutSlot DEF MemoryIInv, OneParent
<1>. QED
  BY <1>4, <1>5, <1>6, <1>7, <1>8 DEF MemoryIInv

LEMMA ExitKeeps ==
  ASSUME MemoryIInv, NEW p \in Slots, Exit(p)
  PROVE  MemoryIInv'
<1>1. /\ state[p] = "RUNNING" /\ job[p] = NoJob /\ state' = [state EXCEPT ![p] = "ZOMBIE"]
      /\ UNCHANGED <<free, kstack, sz, table, job>>
  BY DEF Exit, Idle
<1>2. /\ state' \in [Slots -> {"UNUSED", "EMBRYO", "RUNNING", "ZOMBIE"}]
      /\ state'[p] = "ZOMBIE" /\ \A q \in Slots : q # p => state'[q] = state[q]
  BY <1>1 DEF MemoryIInv, MemoryTypes
<1>3. MemoryTypes'
  BY <1>1, <1>2 DEF MemoryIInv, MemoryTypes
<1>4. Shared(HeldNow)'
  BY <1>1, NothingMoved DEF MemoryIInv
<1>5. ASSUME NEW q \in Slots, q # p PROVE ProcRight(q)'
  <2>1. job[q].op = "fork" => job[q].child \in Slots /\ job[q].child # p
    BY <1>1, AboutSlot DEF JobRight
  <2>. QED
    BY <1>1, <1>2, <1>5, <2>1, OthersKeep
<1>6. ProcRight(p)'
  BY <1>1, <1>2, AboutSlot DEF ProcRight, SlotRight, JobRight, NothingAbove, TopOf
<1>7. OneParent'
  BY <1>1 DEF MemoryIInv, OneParent
<1>. QED
  BY <1>3, <1>4, <1>5, <1>6, <1>7 DEF MemoryIInv

\* r is s with page x at address a, and with y as the table for it if there is none yet.
MappedAt(s, r, a, x, t, y) ==
  /\ r.dir = s.dir /\ r.kern = s.kern
  /\ r.mem[a] = x /\ \A c \in Addresses : c # a => r.mem[c] = s.mem[c]
  /\ r.tab[t] = IF s.tab[t] # NoPage THEN s.tab[t] ELSE y
  /\ \A u \in Tables : u # t => r.tab[u] = s.tab[u]

\* A page in a new place of the memory, and in the table that maps it if there is none yet.
LEMMA PageMapped ==
  ASSUME NEW s \in PageTable, NotTwice(s), NEW a \in Addresses, s.mem[a] = NoPage,
         NEW x \in Pages, x \notin PagesOf(s), NEW t \in Tables, NEW y,
         s.tab[t] = NoPage => y \in Pages /\ y # x /\ y \notin PagesOf(s),
         NEW r \in PageTable, MappedAt(s, r, a, x, t, y)
  PROVE  /\ NotTwice(r)
         /\ s.tab[t] # NoPage => PagesOf(r) = PagesOf(s) \cup {x}
         /\ s.tab[t] = NoPage => PagesOf(r) = PagesOf(s) \cup {y} \cup {x}
<1> USE DEF MappedAt
<1>1. CASE s.tab[t] # NoPage
  <2>1. r.tab = s.tab
    <3>1. \A u \in Tables : r.tab[u] = s.tab[u]
      BY <1>1
    <3>2. r.tab \in [Tables -> PageOrNone] /\ s.tab \in [Tables -> PageOrNone]
      BY DEF PageTable
    <3>. QED
      BY <3>1, <3>2
  <2>. QED
    BY <1>1, <2>1, MemSet
<1>2. CASE s.tab[t] = NoPage
  <2> DEFINE h == [s EXCEPT !.tab[t] = y]
  <2>1. /\ h \in PageTable /\ h.dir = s.dir /\ h.kern = s.kern /\ h.mem = s.mem
        /\ h.tab[t] = y /\ \A u \in Tables : u # t => h.tab[u] = s.tab[u]
    BY <1>2 DEF PageTable, PageOrNone
  <2> HIDE DEF h
  <2>2. PagesOf(h) = PagesOf(s) \cup {y} /\ NotTwice(h)
    BY <1>2, <2>1, TabSet
  <2>3. r.tab = h.tab
    <3>1. \A u \in Tables : r.tab[u] = h.tab[u]
      BY <1>2, <2>1
    <3>2. r.tab \in [Tables -> PageOrNone] /\ h.tab \in [Tables -> PageOrNone]
      BY <2>1 DEF PageTable
    <3>. QED
      BY <3>1, <3>2
  <2>4. x \notin PagesOf(h) /\ h.mem[a] = NoPage
    BY <1>2, <2>1, <2>2
  <2>5. PagesOf(r) = PagesOf(h) \cup {x} /\ NotTwice(r)
    BY <2>1, <2>2, <2>3, <2>4, MemSet
  <2>. QED
    BY <1>2, <2>2, <2>5
<1>. QED
  BY <1>1, <1>2

\* The page in hand is nowhere else.
LEMMA HandIsNowhere ==
  ASSUME MemoryIInv, NEW p \in Slots, job[p].mem # NoPage
  PROVE  /\ job[p].mem \in Pages /\ job[p].mem \notin free
         /\ \A w \in Spaces : job[p].mem \notin PagesOf(table[p][w])
<1>1. job[p].mem \in Pages
  BY AboutSlot DEF Job, PageOrNone
<1>2. job[p].mem \in HeldNow[<<p, "hand">>]
  <2>1. HeldNow[<<p, "hand">>] = Only(job[p].mem)
    BY HeldIs
  <2>2. job[p].mem \in Only(job[p].mem)
    BY DEF Only
  <2>. QED
    BY <2>1, <2>2
<1>3. \A k \in Locs : k # <<p, "hand">> => job[p].mem \notin HeldNow[k]
  BY <1>2, MemoryFacts DEF MemoryIInv, Shared, Parts
<1>4. job[p].mem \notin free
  BY <1>3, HeldIs, MemoryFacts DEF Parts
<1>5. \A w \in Spaces : job[p].mem \notin PagesOf(table[p][w])
  <2>1. /\ <<p, "cur">> \in Locs /\ <<p, "cur">> # <<p, "hand">>
        /\ <<p, "new">> \in Locs /\ <<p, "new">> # <<p, "hand">>
    BY MemoryFacts DEF Parts
  <2>2. job[p].mem \notin HeldNow[<<p, "cur">>] /\ job[p].mem \notin HeldNow[<<p, "new">>]
    BY <1>3, <2>1
  <2>. QED
    BY <2>2, HeldIs DEF Spaces
<1>. QED
  BY <1>1, <1>4, <1>5

LEMMA MapPageKeeps ==
  ASSUME MemoryIInv, NEW p \in Slots, job[p].pc = "map", MapPage(p),
         free = {} => table[p][W(p)].tab[job[p].at \div PerTable] # NoPage
  PROVE  MemoryIInv'
<1> DEFINE w == W(p)
           a == job[p].at
           t == job[p].at \div PerTable
           x == job[p].mem
           s == table[p][w]
           r == table'[p][w]
           there == s.tab[t] # NoPage
<1>1. /\ job[p] \in Job /\ job[p].op # "none" /\ a \in Nat /\ a < job[p].to /\ job[p].to < MaxSz
      /\ job[p].to \in Nat /\ x # NoPage
  BY AboutSlot DEF JobRight, Job
<1>2. a \in Addresses /\ t \in Tables /\ w \in Spaces
  BY <1>1, MemoryFacts DEF Addresses, W, Spaces
<1>3. s \in PageTable /\ NotTwice(s) /\ s.mem[a] = NoPage
  <2>1. TopOf(p, w) = a
    BY DEF TopOf, W
  <2>. QED
    BY <1>1, <1>2, <2>1, AboutSlot DEF NothingAbove
<1>4. x \in Pages /\ x \notin free /\ x \notin PagesOf(s)
  BY <1>1, <1>2, HandIsNowhere
<1>5. ~there => free # {} /\ Page \in Pages /\ Page \in free /\ Page # x /\ Page \notin PagesOf(s)
  BY <1>2, <1>4, FreeIsNowhere
<1>6. /\ free' = IF there THEN free ELSE free \ {Page}
      /\ table' = [table EXCEPT ![p][w] = [s EXCEPT !.mem[a] = x, !.tab[t] = IF there THEN @ ELSE Page]]
      /\ job' = [job EXCEPT ![p].pc = "page", ![p].at = @ + 1, ![p].mem = NoPage]
      /\ UNCHANGED <<state, kstack, sz>>
  BY <1>5 DEF MapPage
<1>7. /\ r \in PageTable /\ r.dir = s.dir /\ r.kern = s.kern
      /\ r.mem[a] = x /\ \A c \in Addresses : c # a => r.mem[c] = s.mem[c]
      /\ r.tab[t] = IF s.tab[t] # NoPage THEN s.tab[t] ELSE Page
      /\ \A u \in Tables : u # t => r.tab[u] = s.tab[u]
  <2>1. r = [s EXCEPT !.mem[a] = x, !.tab[t] = IF there THEN @ ELSE Page]
    BY <1>2, <1>6 DEF MemoryIInv, MemoryTypes
  <2> HIDE DEF s, r, x, t, a
  <2>2. s.tab[t] # NoPage => s.tab[t] \in Pages
    BY <1>2, <1>3 DEF PageTable, PageOrNone
  <2>. QED
    BY <1>2, <1>3, <1>4, <1>5, <2>1, <2>2 DEF PageTable, PageOrNone
<1>8. /\ \A v \in Spaces : v # w => table'[p][v] = table[p][v]
      /\ \A q \in Slots : q # p => table'[q] = table[q]
  BY <1>2, <1>6 DEF MemoryIInv, MemoryTypes
<1>9. table' \in [Slots -> [Spaces -> PageTable]]
  <2> DEFINE e == [s EXCEPT !.mem[a] = x, !.tab[t] = IF there THEN @ ELSE Page]
  <2>1. e = r
    BY <1>2, <1>6 DEF MemoryIInv, MemoryTypes
  <2>2. table' = [table EXCEPT ![p][w] = e]
    BY <1>6
  <2> HIDE DEF r, w, e
  <2>. QED
    BY <1>2, <1>7, <2>1, <2>2 DEF MemoryIInv, MemoryTypes
<1>10. /\ job'[p] = [job[p] EXCEPT !.pc = "page", !.at = a + 1, !.mem = NoPage]
       /\ \A q \in Slots : q # p => job'[q] = job[q]
       /\ job' \in [Slots -> Job]
  BY <1>1, <1>6 DEF MemoryIInv, MemoryTypes, Job, PageOrNone
<1>11. /\ job'[p].pc = "page" /\ job'[p].op = job[p].op /\ job'[p].mem = NoPage
       /\ job'[p].at = a + 1 /\ job'[p].to = job[p].to /\ job'[p].child = job[p].child
       /\ job'[p].from = job[p].from
  BY <1>1, <1>10 DEF Job
<1>12. /\ NotTwice(r)
       /\ there => PagesOf(r) = PagesOf(s) \cup {x}
       /\ ~there => PagesOf(r) = PagesOf(s) \cup {Page} \cup {x}
  <2> HIDE DEF r, s, x, t, a
  <2>1. MappedAt(s, r, a, x, t, Page) /\ r \in PageTable
    BY <1>7 DEF MappedAt
  <2>2. s.tab[t] = NoPage => Page \in Pages /\ Page # x /\ Page \notin PagesOf(s)
    BY <1>5
  <2>. QED
    BY <1>2, <1>3, <1>4, <2>1, <2>2, PageMapped
<1>13. MemoryTypes'
  BY <1>6, <1>9, <1>10 DEF MemoryIInv, MemoryTypes
<1>14. Shared(HeldNow)'
  <2> DEFINE H == [HeldNow EXCEPT ![Pool] = @ \ {Page}, ![<<p, w>>] = @ \cup {Page}]
             G == IF there THEN HeldNow ELSE H
  <2>1. /\ <<p, w>> \in Locs /\ <<p, w>> # Pool /\ Pool \in Locs /\ <<p, "hand">> \in Locs
        /\ <<p, "hand">> # Pool /\ <<p, "hand">> # <<p, w>>
    BY <1>2, MemoryFacts DEF Spaces, Parts
  <2>2. /\ HeldNow[Pool] = free /\ HeldNow'[Pool] = free'
        /\ HeldNow[<<p, w>>] = PagesOf(s) /\ HeldNow'[<<p, w>>] = PagesOf(r)
    BY <1>2, HeldIs, HeldIsThen DEF Spaces
  <2>3. HeldNow[<<p, "hand">>] = {x} /\ HeldNow'[<<p, "hand">>] = {}
    <3>1. Only(x) = {x} /\ Only(job'[p].mem) = {}
      BY <1>1, <1>11 DEF Only
    <3>2. HeldNow'[<<p, "hand">>] = Only(job'[p].mem) /\ HeldNow[<<p, "hand">>] = Only(x)
      BY HeldIs, HeldIsThen
    <3>. QED
      BY <3>1, <3>2
  <2>4. \A k \in Locs : k # Pool /\ k # <<p, w>> /\ k # <<p, "hand">> => HeldNow'[k] = HeldNow[k]
    <3> DEFINE X == {<<p, w>>, <<p, "hand">>}
    <3>1. /\ \A q \in Slots : <<q, "stack">> \notin X => kstack'[q] = kstack[q]
          /\ \A q \in Slots : <<q, "hand">> \notin X => job'[q].mem = job[q].mem
          /\ \A q \in Slots : <<q, "cur">> \notin X => table'[q]["cur"] = table[q]["cur"]
          /\ \A q \in Slots : <<q, "new">> \notin X => table'[q]["new"] = table[q]["new"]
      <4> HIDE DEF w
      <4>1. kstack' = kstack
        BY <1>6
      <4>. QED
        BY <1>8, <1>10, <4>1 DEF Spaces
    <3> HIDE DEF X
    <3>2. \A k \in Locs : k # Pool /\ k \notin X => HeldNow'[k] = HeldNow[k]
      BY <3>1, RestHeld
    <3>. QED
      BY <3>2 DEF X
  <2> HIDE DEF w, s, r, x, t, a
  <2>5. DOMAIN HeldNow = Locs /\ Shared(HeldNow)
    BY DEF HeldNow, MemoryIInv
  <2>6. Shared(G)
    <3>1. CASE there
      BY <2>5, <3>1
    <3>2. CASE ~there
      <4>1. /\ H[Pool] = HeldNow[Pool] \ {Page} /\ H[<<p, w>>] = HeldNow[<<p, w>>] \cup {Page}
            /\ \A k \in Locs : k # Pool /\ k # <<p, w>> => H[k] = HeldNow[k]
        BY <2>1, <2>5
      <4>2. {Page} \subseteq HeldNow[Pool]
        BY <1>5, <2>2, <3>2
      <4> HIDE DEF H
      <4>3. Shared(H)
        <5>1. Moves(HeldNow, H, Pool, <<p, w>>, {Page})
          BY <4>1, <4>2 DEF Moves
        <5>. QED
          BY <2>1, <2>5, <5>1, PagesMoved
      <4>. QED
        BY <3>2, <4>3
    <3>. QED
      BY <3>1, <3>2
  <2>7. /\ G[<<p, "hand">>] = {x} /\ HeldNow'[<<p, w>>] = G[<<p, w>>] \cup {x}
        /\ \A k \in Locs : k # <<p, "hand">> /\ k # <<p, w>> => HeldNow'[k] = G[k]
    <3>1. CASE there
      BY <1>6, <1>12, <2>2, <2>3, <2>4, <3>1
    <3>2. CASE ~there
      BY <1>6, <1>12, <2>1, <2>2, <2>3, <2>4, <2>5, <3>2
    <3>. QED
      BY <3>1, <3>2
  <2> HIDE DEF G
  <2>8. HeldNow'[<<p, "hand">>] = G[<<p, "hand">>] \ {x} /\ {x} \subseteq G[<<p, "hand">>]
    BY <2>3, <2>7
  <2>9. Shared(HeldNow')
    <3>1. Moves(G, HeldNow', <<p, "hand">>, <<p, w>>, {x})
      BY <2>7, <2>8 DEF Moves
    <3>. QED
      BY <2>1, <2>6, <3>1, PagesMoved
  <2>. QED
    BY <2>9 DEF Shared
<1>15. ASSUME NEW q \in Slots, q # p PROVE ProcRight(q)'
  BY <1>6, <1>8, <1>10, <1>15, OthersKeep
<1>16. ProcRight(p)'
  <2>1. SlotRight(p)'
    <3>1. state[p] = "RUNNING"
      BY <1>1, AboutSlot DEF SlotRight
    <3>2. UNCHANGED <<state, kstack>>
      BY <1>6
    <3>. QED
      BY <3>1, <3>2, AboutSlot DEF SlotRight
  <2>2. \A v \in Spaces : NotTwice(table[p][v])'
    BY <1>8, <1>12, AboutSlot
  <2>3. JobRight(p)'
    <3>1. table'[p]["new"] = table[p]["new"] \/ job[p].op \in {"exec", "fork"}
      BY <1>1, <1>8 DEF W, Spaces, Job
    <3>2. UNCHANGED <<state, kstack, sz>>
      BY <1>6
    <3>. QED
      BY <1>1, <1>11, <3>1, <3>2, AboutSlot DEF JobRight
  <2>4. NothingAbove(p)'
    <3>1. ASSUME NEW v \in Spaces, v # w
          PROVE  TopOf(p, v)' = TopOf(p, v) \/ table[p][v] = Empty
      <4>1. CASE job[p].op = "sbrk"
        BY <3>1, <4>1, AboutSlot DEF JobRight, W, Spaces
      <4>2. CASE job[p].op # "sbrk"
        <5>1. v = "cur" /\ sz' = sz
          BY <1>6, <3>1, <4>2 DEF W, Spaces
        <5>. QED
          BY <1>11, <4>2, <5>1 DEF TopOf
      <4>. QED
        BY <4>1, <4>2
    <3>2. \A v \in Spaces : v = w => TopOf(p, v)' = a + 1
      BY <1>11 DEF TopOf, W
    <3>3. TopOf(p, w) = a
      BY DEF TopOf, W
    <3> HIDE DEF w, a, x, t
    <3>4. \A c \in Addresses : c >= a + 1 => r.mem[c] = NoPage
      <4>1. \A c \in Addresses : c >= a => s.mem[c] = NoPage
        BY <1>2, <3>3, AboutSlot DEF NothingAbove
      <4>2. \A c \in Addresses : c >= a + 1 => c >= a /\ c # a
        BY <1>2, MemoryFacts DEF Addresses
      <4>. QED
        BY <1>7, <4>1, <4>2
    <3>5. \A v \in Spaces : v # w => \A c \in Addresses : c >= TopOf(p, v)' => table'[p][v].mem[c] = NoPage
      BY <1>8, <3>1, EmptyTable, AboutSlot DEF NothingAbove
    <3>6. \A v \in Spaces : \A c \in Addresses : c >= TopOf(p, v)' => table'[p][v].mem[c] = NoPage
      BY <3>2, <3>4, <3>5
    <3>. QED
      BY <3>6 DEF NothingAbove
  <2>. QED
    BY <2>1, <2>2, <2>3, <2>4 DEF ProcRight
<1>17. OneParent'
  <2>1. \A q \in Slots : job'[q].op = job[q].op /\ job'[q].child = job[q].child
    BY <1>10, <1>11
  <2>. QED
    BY <2>1 DEF MemoryIInv, OneParent
<1>. QED
  BY <1>13, <1>14, <1>15, <1>16, <1>17 DEF MemoryIInv

\* Some of the parts are given back whole.
LEMMA GivenBack ==
  ASSUME NEW H, NEW G, Shared(H), NEW T, T \subseteq Locs, Pool \notin T,
         \A x : x \in G[Pool] <=> x \in H[Pool] \/ \E k \in T : x \in H[k],
         \A k \in T : G[k] = {},
         \A k \in Locs : k # Pool /\ k \notin T => G[k] = H[k]
  PROVE  Shared(G)
<1>1. \A k \in Locs : G[k] \subseteq Pages
  <2>1. G[Pool] \subseteq Pages
    BY MemoryFacts DEF Shared
  <2>. QED
    BY <2>1 DEF Shared
<1>2. ASSUME NEW k \in Locs, NEW m \in Locs, k # m, NEW x, x \in G[k], x \in G[m] PROVE FALSE
  <2>1. \A n \in Locs : n # Pool /\ x \in G[n] => n \notin T /\ x \in H[n]
    OBVIOUS
  <2>2. \A n \in Locs : x \in H[n] => \A h \in Locs : x \in H[h] => h = n
    BY DEF Shared
  <2>3. \A n \in Locs : n # Pool /\ x \in G[n] => x \notin G[Pool]
    BY <2>1, <2>2, MemoryFacts
  <2>. QED
    BY <1>2, <2>1, <2>2, <2>3
<1>3. ASSUME NEW x \in Pages PROVE \E k \in Locs : x \in G[k]
  <2>1. PICK k \in Locs : x \in H[k]
    BY DEF Shared
  <2>. QED
    BY <2>1, MemoryFacts
<1>. QED
  BY <1>1, <1>2, <1>3 DEF Shared

LEMMA ShrinkKeeps ==
  ASSUME MemoryIInv, NEW p \in Slots, Shrink(p)
  PROVE  MemoryIInv'
<1>1. PICK n \in 1 .. sz[p] :
        /\ Idle(p)
        /\ free' = free \cup UserPages(table[p]["cur"], sz[p] - n .. sz[p] - 1)
        /\ table' = [table EXCEPT ![p]["cur"] = Without(@, sz[p] - n .. sz[p] - 1)]
        /\ sz' = [sz EXCEPT ![p] = IF n = @ THEN @ ELSE @ - n]
        /\ UNCHANGED <<state, kstack, job>>
  BY DEF Shrink
<1> DEFINE A == sz[p] - n .. sz[p] - 1
           s == table[p]["cur"]
           r == Without(s, A)
<1>2. /\ job[p] = NoJob /\ state[p] = "RUNNING" /\ table[p]["new"] = Empty
      /\ sz[p] \in Nat /\ sz[p] < MaxSz /\ n \in Nat /\ n >= 1 /\ n <= sz[p]
      /\ s \in PageTable /\ NotTwice(s)
  BY <1>1, AboutSlot DEF Idle, JobRight, Spaces
<1>3. A \subseteq Addresses
  BY <1>2, MemoryFacts DEF Addresses
<1>4. /\ r \in PageTable /\ NotTwice(r) /\ UserPages(s, A) \subseteq PagesOf(s)
      /\ PagesOf(r) = PagesOf(s) \ UserPages(s, A)
      /\ \A a \in Addresses : r.mem[a] = IF a \in A THEN NoPage ELSE s.mem[a]
  <2> HIDE DEF A, s
  <2>. QED
    BY <1>2, <1>3, MemCleared
<1>5. /\ table'[p]["cur"] = r /\ table'[p]["new"] = table[p]["new"]
      /\ \A q \in Slots : q # p => table'[q] = table[q]
      /\ table' \in [Slots -> [Spaces -> PageTable]]
  <2> HIDE DEF r
  <2>1. table' = [table EXCEPT ![p]["cur"] = r]
    BY <1>1 DEF r
  <2>. QED
    BY <1>4, <2>1 DEF MemoryIInv, MemoryTypes, Spaces
<1>6. /\ sz' \in [Slots -> Addresses] /\ sz'[p] = IF n = sz[p] THEN sz[p] ELSE sz[p] - n
      /\ \A q \in Slots : q # p => sz'[q] = sz[q]
  BY <1>1, <1>2, MemoryFacts DEF MemoryIInv, MemoryTypes, Addresses
<1>7. free' = free \cup UserPages(s, A)
  BY <1>1
<1> HIDE DEF A, s, r
<1>8. MemoryTypes'
  <2>1. PagesOf(s) \subseteq Pages
    BY <1>2, InPageTable
  <2>. QED
    BY <1>1, <1>4, <1>5, <1>6, <1>7, <2>1 DEF MemoryIInv, MemoryTypes
<1>9. Shared(HeldNow)'
  <2>1. /\ HeldNow[<<p, "cur">>] = PagesOf(s) /\ HeldNow[Pool] = free
        /\ HeldNow'[<<p, "cur">>] = PagesOf(r) /\ HeldNow'[Pool] = free'
    BY <1>5, HeldIs, HeldIsThen DEF s
  <2>2. \A k \in Locs : k # Pool /\ k # <<p, "cur">> => HeldNow'[k] = HeldNow[k]
    BY <1>1, <1>5, RestHeldBut DEF Parts
  <2>3. Moves(HeldNow, HeldNow', <<p, "cur">>, Pool, UserPages(s, A))
    BY <1>4, <1>7, <2>1, <2>2 DEF Moves
  <2>4. <<p, "cur">> \in Locs /\ Pool \in Locs /\ <<p, "cur">> # Pool
    BY MemoryFacts DEF Parts
  <2>5. Shared(HeldNow')
    BY <2>3, <2>4, PagesMoved DEF MemoryIInv
  <2>. QED
    BY <2>5 DEF Shared
<1>10. ASSUME NEW q \in Slots, q # p PROVE ProcRight(q)'
  BY <1>1, <1>5, <1>6, <1>10, OthersKeep
<1>11. ProcRight(p)'
  <2>1. UNCHANGED <<state, kstack, job>>
    BY <1>1
  <2>2. SlotRight(p)'
    BY <1>2, <2>1, AboutSlot DEF SlotRight
  <2>3. \A w \in Spaces : NotTwice(table[p][w])'
    BY <1>4, <1>5, AboutSlot DEF Spaces
  <2>4. JobRight(p)'
    BY <1>2, <1>5, <2>1, AboutSlot DEF JobRight
  <2>5. NothingAbove(p)'
    <3>1. TopOf(p, "cur") = sz[p] /\ TopOf(p, "cur")' = sz'[p]
      BY <1>2, <2>1, AboutSlot DEF TopOf
    <3>2. \A a \in Addresses : a >= sz'[p] => a \in A \/ a >= sz[p]
      BY <1>2, <1>6, MemoryFacts DEF A, Addresses
    <3>3. \A a \in Addresses : a >= sz[p] => s.mem[a] = NoPage
      BY <3>1, AboutSlot DEF NothingAbove, Spaces, s
    <3>4. \A a \in Addresses : a >= TopOf(p, "cur")' => table'[p]["cur"].mem[a] = NoPage
      BY <1>4, <1>5, <3>1, <3>2, <3>3
    <3>5. \A a \in Addresses : table'[p]["new"].mem[a] = NoPage
      BY <1>2, <1>5, EmptyTable
    <3>. QED
      BY <3>4, <3>5 DEF NothingAbove, Spaces
  <2>. QED
    BY <2>2, <2>3, <2>4, <2>5 DEF ProcRight
<1>12. OneParent'
  BY <1>1 DEF MemoryIInv, OneParent
<1>. QED
  BY <1>8, <1>9, <1>10, <1>11, <1>12 DEF MemoryIInv

LEMMA ForkKeeps ==
  ASSUME MemoryIInv, NEW p \in Slots, Fork(p)
  PROVE  MemoryIInv'
<1>1. PICK c \in Slots :
        /\ state[c] = "UNUSED"
        /\ state' = [state EXCEPT ![c] = "EMBRYO"] /\ kstack' = [kstack EXCEPT ![c] = Page]
        /\ job' = [job EXCEPT ![p] = [NoJob EXCEPT
             !.op = "fork", !.pc = "dir", !.to = sz[p], !.child = c]]
  BY DEF Fork
<1> DEFINE j == [NoJob EXCEPT !.op = "fork", !.pc = "dir", !.to = sz[p], !.child = c]
<1>2. /\ job[p] = NoJob /\ state[p] = "RUNNING" /\ free # {} /\ free' = free \ {Page}
      /\ sz' = sz /\ table' = table
  BY DEF Fork, Idle
<1>3. /\ sz[p] \in Nat /\ sz[p] < MaxSz /\ table[p]["new"] = Empty
      /\ c # p /\ job[c] = NoJob /\ kstack[c] = NoPage /\ table[c]["cur"] = Empty
      /\ Page \in Pages /\ Page # NoPage
  BY <1>1, <1>2, AboutSlot, FreeIsNowhere DEF JobRight, SlotRight
<1>4. /\ j \in Job /\ j.op = "fork" /\ j.pc = "dir" /\ j.at = 0 /\ j.mem = NoPage
      /\ j.to = sz[p] /\ j.child = c
  BY <1>3, MemoryFacts DEF NoJob, Job, PageOrNone, NoPage
<1> HIDE DEF j
<1>5. /\ job'[p] = j /\ \A q \in Slots : q # p => job'[q] = job[q]
      /\ job' \in [Slots -> Job]
  BY <1>1, <1>4 DEF MemoryIInv, MemoryTypes, j
<1>6. /\ state'[c] = "EMBRYO" /\ \A q \in Slots : q # c => state'[q] = state[q]
      /\ kstack'[c] = Page /\ \A q \in Slots : q # c => kstack'[q] = kstack[q]
      /\ state' \in [Slots -> {"UNUSED", "EMBRYO", "RUNNING", "ZOMBIE"}]
      /\ kstack' \in [Slots -> PageOrNone]
  BY <1>1, <1>3 DEF MemoryIInv, MemoryTypes, PageOrNone
<1>7. MemoryTypes'
  BY <1>2, <1>5, <1>6 DEF MemoryIInv, MemoryTypes
<1>8. Shared(HeldNow)'
  <2>1. HeldNow'[<<c, "stack">>] = HeldNow[<<c, "stack">>] \cup {Page}
    <3>1. Only(kstack[c]) = {} /\ Only(kstack'[c]) = {Page}
      BY <1>3, <1>6 DEF Only
    <3>2. HeldNow'[<<c, "stack">>] = Only(kstack'[c])
      BY HeldIsThen
    <3>3. HeldNow[<<c, "stack">>] = Only(kstack[c])
      BY HeldIs
    <3>. QED
      BY <3>1, <3>2, <3>3
  <2>2. \A k \in Locs : k # Pool /\ k # <<c, "stack">> => HeldNow'[k] = HeldNow[k]
    <3>1. \A q \in Slots : job'[q].mem = job[q].mem
      BY <1>2, <1>4, <1>5, AboutSlot
    <3>. QED
      BY <1>2, <1>6, <3>1, RestHeldBut DEF Parts
  <2>. QED
    BY <1>2, <2>1, <2>2, PageTaken DEF Parts
<1>9. ASSUME NEW q \in Slots, q # p, q # c PROVE ProcRight(q)'
  <2>1. job[q].op = "fork" => job[q].child \in Slots /\ job[q].child # c
    BY <1>1, AboutSlot DEF JobRight
  <2>. QED
    BY <1>2, <1>5, <1>6, <1>9, <2>1, OthersKeep
<1>10. ProcRight(p)'
  <2>1. SlotRight(p)' /\ \A w \in Spaces : NotTwice(table[p][w])'
    BY <1>2, <1>3, <1>6, AboutSlot DEF SlotRight
  <2>2. JobRight(p)'
    BY <1>2, <1>3, <1>4, <1>5, <1>6, EmptyTable DEF JobRight
  <2>3. TopOf(p, "cur")' = TopOf(p, "cur")
    BY <1>2, <1>4, <1>5, AboutSlot DEF TopOf
  <2>4. NothingAbove(p)'
    BY <1>2, <1>3, <2>3, EmptyTable, AboutSlot DEF NothingAbove, Spaces
  <2>. QED
    BY <2>1, <2>2, <2>4 DEF ProcRight
<1>11. ProcRight(c)'
  BY <1>2, <1>3, <1>5, <1>6, AboutSlot DEF ProcRight, SlotRight, JobRight, NothingAbove, TopOf
<1>12. OneParent'
  <2>1. \A q \in Slots : q # p => ~(job'[q].op = "fork" /\ job'[q].child = c)
    BY <1>1, <1>5, AboutSlot DEF JobRight
  <2>. QED
    BY <1>4, <1>5, <2>1 DEF MemoryIInv, OneParent
<1>. QED
  BY <1>7, <1>8, <1>9, <1>10, <1>11, <1>12 DEF MemoryIInv

LEMMA ReapKeeps ==
  ASSUME MemoryIInv, NEW p \in Slots, Reap(p)
  PROVE  MemoryIInv'
<1>1. /\ state[p] = "ZOMBIE" /\ free' = free \cup PagesOf(table[p]["cur"]) \cup {kstack[p]}
      /\ table' = [table EXCEPT ![p]["cur"] = Empty] /\ kstack' = [kstack EXCEPT ![p] = NoPage]
      /\ state' = [state EXCEPT ![p] = "UNUSED"] /\ UNCHANGED <<sz, job>>
  BY DEF Reap
<1>2. /\ job[p] = NoJob /\ kstack[p] \in Pages /\ table[p]["new"] = Empty
      /\ table[p]["cur"] \in PageTable
  BY <1>1, AboutSlot DEF SlotRight, JobRight, PageOrNone, Spaces
<1>3. /\ table'[p]["cur"] = Empty /\ table'[p]["new"] = table[p]["new"]
      /\ \A q \in Slots : q # p => table'[q] = table[q]
      /\ table' \in [Slots -> [Spaces -> PageTable]]
  BY <1>1, EmptyTable DEF MemoryIInv, MemoryTypes, Spaces
<1>4. /\ state'[p] = "UNUSED" /\ \A q \in Slots : q # p => state'[q] = state[q]
      /\ kstack'[p] = NoPage /\ \A q \in Slots : q # p => kstack'[q] = kstack[q]
      /\ state' \in [Slots -> {"UNUSED", "EMBRYO", "RUNNING", "ZOMBIE"}]
      /\ kstack' \in [Slots -> PageOrNone]
  BY <1>1 DEF MemoryIInv, MemoryTypes, PageOrNone
<1>5. MemoryTypes'
  <2>1. PagesOf(table[p]["cur"]) \subseteq Pages
    BY <1>2, InPageTable
  <2>. QED
    BY <1>1, <1>2, <1>3, <1>4, <2>1 DEF MemoryIInv, MemoryTypes
<1>6. Shared(HeldNow)'
  <2> DEFINE T == {<<p, "cur">>, <<p, "stack">>}
  <2>1. T \subseteq Locs /\ Pool \notin T
    BY MemoryFacts DEF Parts
  <2>2. /\ HeldNow[<<p, "cur">>] = PagesOf(table[p]["cur"]) /\ HeldNow[Pool] = free
        /\ HeldNow[<<p, "stack">>] = {kstack[p]}
    <3>1. Only(kstack[p]) = {kstack[p]}
      BY <1>2, MemoryFacts DEF Only
    <3>. QED
      BY <3>1, HeldIs
  <2>3. /\ HeldNow'[<<p, "cur">>] = {} /\ HeldNow'[Pool] = free'
        /\ HeldNow'[<<p, "stack">>] = {}
    <3>1. Only(kstack'[p]) = {}
      BY <1>4 DEF Only
    <3>2. HeldNow'[<<p, "stack">>] = Only(kstack'[p])
      BY HeldIsThen
    <3>3. HeldNow'[<<p, "cur">>] = {}
      BY <1>3, HeldIsThen, EmptyTable
    <3>. QED
      BY <3>1, <3>2, <3>3, HeldIsThen
  <2>4. \A k \in Locs : k # Pool /\ k \notin T => HeldNow'[k] = HeldNow[k]
    <3>1. /\ \A q \in Slots : <<q, "stack">> \notin T => kstack'[q] = kstack[q]
          /\ \A q \in Slots : <<q, "hand">> \notin T => job'[q].mem = job[q].mem
          /\ \A q \in Slots : <<q, "cur">> \notin T => table'[q]["cur"] = table[q]["cur"]
          /\ \A q \in Slots : <<q, "new">> \notin T => table'[q]["new"] = table[q]["new"]
      BY <1>1, <1>3, <1>4
    <3> HIDE DEF T
    <3>. QED
      BY <3>1, RestHeld
  <2>5. \A x : x \in HeldNow'[Pool] <=> x \in HeldNow[Pool] \/ \E k \in T : x \in HeldNow[k]
    BY <1>1, <2>2, <2>3
  <2>6. \A k \in T : HeldNow'[k] = {}
    BY <2>3
  <2> HIDE DEF T
  <2>7. Shared(HeldNow')
    BY <2>1, <2>4, <2>5, <2>6, GivenBack DEF MemoryIInv
  <2>. QED
    BY <2>7 DEF Shared
<1>7. ASSUME NEW q \in Slots, q # p PROVE ProcRight(q)'
  <2>1. job[q].op = "fork" => job[q].child \in Slots /\ job[q].child # p
    BY <1>1, AboutSlot DEF JobRight
  <2>. QED
    BY <1>1, <1>3, <1>4, <1>7, <2>1, OthersKeep
<1>8. ProcRight(p)'
  <2>1. UNCHANGED <<sz, job>>
    BY <1>1
  <2>2. SlotRight(p)' /\ JobRight(p)'
    BY <1>2, <1>3, <1>4, <2>1, AboutSlot DEF SlotRight, JobRight
  <2>3. NothingAbove(p)' /\ \A w \in Spaces : NotTwice(table[p][w])'
    BY <1>2, <1>3, EmptyTable DEF NothingAbove, Spaces
  <2>. QED
    BY <2>2, <2>3 DEF ProcRight
<1>9. OneParent'
  BY <1>1 DEF MemoryIInv, OneParent
<1>. QED
  BY <1>5, <1>6, <1>7, <1>8, <1>9 DEF MemoryIInv

LEMMA ExecDoneKeeps ==
  ASSUME MemoryIInv, NEW p \in Slots, ExecDone(p)
  PROVE  MemoryIInv'
<1>1. /\ job[p].op = "exec" /\ job[p].pc = "page" /\ job[p].at = job[p].to
      /\ free' = free \cup PagesOf(table[p]["cur"])
      /\ table' = [table EXCEPT ![p]["cur"] = table[p]["new"], ![p]["new"] = Empty]
      /\ sz' = [sz EXCEPT ![p] = job[p].to] /\ job' = [job EXCEPT ![p] = NoJob]
      /\ UNCHANGED <<state, kstack>>
  BY DEF ExecDone
<1>2. /\ job[p] \in Job /\ job[p].mem = NoPage /\ job[p].to < MaxSz /\ job[p].to \in Nat
      /\ table[p]["cur"] \in PageTable /\ table[p]["new"] \in PageTable
  BY <1>1, AboutSlot DEF JobRight, Job, Spaces
<1>3. /\ job' \in [Slots -> Job] /\ job'[p] = NoJob /\ sz'[p] = job[p].to
      /\ \A q \in Slots : q # p => job'[q] = job[q] /\ sz'[q] = sz[q]
      /\ sz' \in [Slots -> Addresses]
  BY <1>1, <1>2, AboutSlot, MemoryFacts DEF MemoryIInv, MemoryTypes, Addresses
<1>4. /\ table'[p]["cur"] = table[p]["new"] /\ table'[p]["new"] = Empty
      /\ \A q \in Slots : q # p => table'[q] = table[q]
      /\ table' \in [Slots -> [Spaces -> PageTable]]
  BY <1>1, <1>2, EmptyTable DEF MemoryIInv, MemoryTypes, Spaces
<1>5. MemoryTypes'
  <2>1. PagesOf(table[p]["cur"]) \subseteq Pages
    BY <1>2, InPageTable
  <2>. QED
    BY <1>1, <1>3, <1>4, <2>1 DEF MemoryIInv, MemoryTypes
<1>6. Shared(HeldNow)'
  <2> DEFINE C == PagesOf(table[p]["cur"])
             N == PagesOf(table[p]["new"])
             G == [HeldNow EXCEPT ![<<p, "cur">>] = {}, ![Pool] = @ \cup C]
  <2>1. /\ <<p, "cur">> \in Locs /\ <<p, "new">> \in Locs /\ Pool \in Locs
        /\ <<p, "cur">> # Pool /\ <<p, "new">> # Pool /\ <<p, "cur">> # <<p, "new">>
    BY MemoryFacts DEF Parts
  <2>2. DOMAIN HeldNow = Locs /\ Shared(HeldNow)
    BY DEF HeldNow, MemoryIInv
  <2>3. /\ HeldNow[<<p, "cur">>] = C /\ HeldNow[<<p, "new">>] = N /\ HeldNow[Pool] = free
        /\ HeldNow'[<<p, "cur">>] = N /\ HeldNow'[<<p, "new">>] = {} /\ HeldNow'[Pool] = free'
    BY <1>4, HeldIs, HeldIsThen, EmptyTable
  <2>4. \A k \in Locs : k # Pool /\ k # <<p, "cur">> /\ k # <<p, "new">> => HeldNow'[k] = HeldNow[k]
    <3> DEFINE X == {<<p, "cur">>, <<p, "new">>}
    <3>1. /\ \A q \in Slots : <<q, "stack">> \notin X => kstack'[q] = kstack[q]
          /\ \A q \in Slots : <<q, "hand">> \notin X => job'[q].mem = job[q].mem
          /\ \A q \in Slots : <<q, "cur">> \notin X => table'[q]["cur"] = table[q]["cur"]
          /\ \A q \in Slots : <<q, "new">> \notin X => table'[q]["new"] = table[q]["new"]
      BY <1>1, <1>2, <1>3, <1>4, AboutSlot
    <3> HIDE DEF X
    <3>2. \A k \in Locs : k # Pool /\ k \notin X => HeldNow'[k] = HeldNow[k]
      BY <3>1, RestHeld
    <3>. QED
      BY <3>2 DEF X
  <2>5. /\ G[<<p, "cur">>] = {} /\ G[Pool] = free \cup C
        /\ \A k \in Locs : k # Pool /\ k # <<p, "cur">> => G[k] = HeldNow[k]
    BY <2>1, <2>2, <2>3
  <2> HIDE DEF C, N, G
  <2>6. Shared(G)
    <3>1. Moves(HeldNow, G, <<p, "cur">>, Pool, C)
      BY <2>3, <2>5 DEF Moves
    <3>. QED
      BY <2>1, <2>2, <3>1, PagesMoved
  <2>7. Shared(HeldNow')
    <3>1. G[<<p, "new">>] = N /\ free' = free \cup C
      BY <1>1, <2>1, <2>3, <2>5 DEF C
    <3>2. Moves(G, HeldNow', <<p, "new">>, <<p, "cur">>, N)
      BY <2>1, <2>3, <2>4, <2>5, <3>1 DEF Moves
    <3>. QED
      BY <2>1, <2>6, <3>2, PagesMoved
  <2>. QED
    BY <2>7 DEF Shared
<1>7. ASSUME NEW q \in Slots, q # p PROVE ProcRight(q)'
  BY <1>1, <1>3, <1>4, <1>7, OthersKeep
<1>8. ProcRight(p)'
  <2>1. UNCHANGED <<state, kstack>>
    BY <1>1
  <2>2. SlotRight(p)'
    <3>1. state[p] = "RUNNING"
      BY <1>1, AboutSlot DEF SlotRight
    <3>. QED
      BY <2>1, <3>1, AboutSlot DEF SlotRight
  <2>3. JobRight(p)'
    BY <1>3, <1>4, AboutSlot DEF JobRight
  <2>4. NothingAbove(p)'
    <3>1. TopOf(p, "cur")' = job[p].to /\ TopOf(p, "new") = job[p].to
      BY <1>1, <1>3, AboutSlot DEF TopOf
    <3>. QED
      BY <1>4, <3>1, EmptyTable, AboutSlot DEF NothingAbove, Spaces
  <2>5. \A w \in Spaces : NotTwice(table[p][w])'
    BY <1>4, EmptyTable, AboutSlot DEF Spaces
  <2>. QED
    BY <2>2, <2>3, <2>4, <2>5 DEF ProcRight
<1>9. OneParent'
  BY <1>3, AboutSlot DEF MemoryIInv, OneParent
<1>. QED
  BY <1>5, <1>6, <1>7, <1>8, <1>9 DEF MemoryIInv

LEMMA ForkDoneKeeps ==
  ASSUME MemoryIInv, NEW p \in Slots, ForkDone(p)
  PROVE  MemoryIInv'
<1>0. PICK c \in Slots : c = job[p].child
  BY AboutSlot DEF ForkDone, JobRight
<1>1. /\ job[p].op = "fork" /\ job[p].pc = "page" /\ job[p].at = job[p].to
      /\ table' = [table EXCEPT ![c]["cur"] = table[p]["new"], ![p]["new"] = Empty]
      /\ sz' = [sz EXCEPT ![c] = job[p].to] /\ state' = [state EXCEPT ![c] = "RUNNING"]
      /\ job' = [job EXCEPT ![p] = NoJob] /\ UNCHANGED <<free, kstack>>
  BY <1>0 DEF ForkDone
<1>2. /\ job[p] \in Job /\ job[p].mem = NoPage /\ job[p].to < MaxSz /\ job[p].to \in Nat
      /\ table[p]["cur"] \in PageTable /\ table[p]["new"] \in PageTable
      /\ c \in Slots /\ state[c] = "EMBRYO" /\ state[p] = "RUNNING" /\ c # p
  BY <1>0, <1>1, AboutSlot DEF JobRight, SlotRight, Job, Spaces
<1>3. /\ job[c] = NoJob /\ kstack[c] # NoPage /\ table[c]["cur"] = Empty /\ table[c]["new"] = Empty
  BY <1>2, AboutSlot DEF JobRight, SlotRight
<1>4. /\ job' \in [Slots -> Job] /\ job'[p] = NoJob
      /\ \A q \in Slots : q # p => job'[q] = job[q]
  BY <1>1, <1>2, AboutSlot DEF MemoryIInv, MemoryTypes
<1>5. /\ sz'[c] = job[p].to /\ \A q \in Slots : q # c => sz'[q] = sz[q]
      /\ sz' \in [Slots -> Addresses]
  BY <1>1, <1>2, MemoryFacts DEF MemoryIInv, MemoryTypes, Addresses
<1>6. /\ table'[c]["cur"] = table[p]["new"] /\ table'[c]["new"] = Empty
      /\ table'[p]["new"] = Empty /\ table'[p]["cur"] = table[p]["cur"]
      /\ \A q \in Slots : q # p /\ q # c => table'[q] = table[q]
      /\ table' \in [Slots -> [Spaces -> PageTable]]
  BY <1>1, <1>2, <1>3, EmptyTable DEF MemoryIInv, MemoryTypes, Spaces
<1>7. /\ state'[c] = "RUNNING" /\ \A q \in Slots : q # c => state'[q] = state[q]
      /\ state' \in [Slots -> {"UNUSED", "EMBRYO", "RUNNING", "ZOMBIE"}]
  BY <1>1, <1>2 DEF MemoryIInv, MemoryTypes
<1>8. MemoryTypes'
  BY <1>1, <1>4, <1>5, <1>6, <1>7 DEF MemoryIInv, MemoryTypes
<1>9. Shared(HeldNow)'
  <2> DEFINE N == PagesOf(table[p]["new"])
  <2>1. /\ <<c, "cur">> \in Locs /\ <<p, "new">> \in Locs /\ <<c, "cur">> # <<p, "new">>
        /\ <<p, "new">> # Pool /\ <<c, "cur">> # Pool
    BY <1>2, MemoryFacts DEF Parts
  <2>2. /\ HeldNow[<<c, "cur">>] = {} /\ HeldNow[<<p, "new">>] = N
        /\ HeldNow'[<<c, "cur">>] = N /\ HeldNow'[<<p, "new">>] = {}
    BY <1>2, <1>3, <1>6, HeldIs, HeldIsThen, EmptyTable
  <2>3. \A k \in Locs : k # <<c, "cur">> /\ k # <<p, "new">> => HeldNow'[k] = HeldNow[k]
    <3> DEFINE X == {<<c, "cur">>, <<p, "new">>}
    <3>1. /\ \A q \in Slots : <<q, "stack">> \notin X => kstack'[q] = kstack[q]
          /\ \A q \in Slots : <<q, "hand">> \notin X => job'[q].mem = job[q].mem
          /\ \A q \in Slots : <<q, "cur">> \notin X => table'[q]["cur"] = table[q]["cur"]
          /\ \A q \in Slots : <<q, "new">> \notin X => table'[q]["new"] = table[q]["new"]
      <4>1. kstack' = kstack
        BY <1>1
      <4>. QED
        BY <1>2, <1>3, <1>4, <1>6, <4>1, AboutSlot
    <3> HIDE DEF X
    <3>2. \A k \in Locs : k # Pool /\ k \notin X => HeldNow'[k] = HeldNow[k]
      BY <3>1, RestHeld
    <3>3. HeldNow'[Pool] = HeldNow[Pool]
      BY <1>1, HeldIs, HeldIsThen
    <3>. QED
      BY <3>2, <3>3 DEF X
  <2> HIDE DEF N
  <2>4. Moves(HeldNow, HeldNow', <<p, "new">>, <<c, "cur">>, N)
    BY <2>2, <2>3 DEF Moves
  <2>5. Shared(HeldNow')
    BY <2>1, <2>4, PagesMoved DEF MemoryIInv
  <2>. QED
    BY <2>5 DEF Shared
<1>10. ASSUME NEW q \in Slots, q # p, q # c PROVE ProcRight(q)'
  <2>1. job[q].op = "fork" => job[q].child \in Slots /\ job[q].child # c
    BY <1>0, <1>1, <1>10, AboutSlot DEF JobRight, MemoryIInv, OneParent
  <2>. QED
    BY <1>1, <1>4, <1>5, <1>6, <1>7, <1>10, <2>1, OthersKeep
<1>11. ProcRight(p)'
  <2>1. kstack' = kstack /\ sz'[p] = sz[p] /\ state'[p] = state[p]
    BY <1>1, <1>2, <1>5, <1>7
  <2>2. SlotRight(p)'
    BY <1>2, <1>6, <2>1, AboutSlot DEF SlotRight
  <2>3. JobRight(p)'
    BY <1>4, <1>6, AboutSlot DEF JobRight
  <2>4. NothingAbove(p)'
    <3>1. TopOf(p, "cur")' = TopOf(p, "cur")
      BY <1>1, <1>4, <2>1, AboutSlot DEF TopOf
    <3>. QED
      BY <1>6, <3>1, EmptyTable, AboutSlot DEF NothingAbove, Spaces
  <2>5. \A w \in Spaces : NotTwice(table[p][w])'
    BY <1>6, EmptyTable, AboutSlot DEF Spaces
  <2>. QED
    BY <2>2, <2>3, <2>4, <2>5 DEF ProcRight
<1>12. ProcRight(c)'
  <2>1. kstack' = kstack /\ job'[c] = NoJob
    BY <1>1, <1>2, <1>3, <1>4
  <2>2. SlotRight(c)'
    BY <1>3, <1>7, <2>1 DEF SlotRight
  <2>3. JobRight(c)'
    BY <1>2, <1>6, <2>1, AboutSlot DEF JobRight
  <2>4. NothingAbove(c)'
    <3>1. TopOf(c, "cur")' = job[p].to /\ TopOf(p, "new") = job[p].to
      BY <1>1, <1>2, <1>5, <2>1, AboutSlot DEF TopOf
    <3>2. \A a \in Addresses : a >= job[p].to => table'[c]["cur"].mem[a] = NoPage
      BY <1>6, <3>1, AboutSlot DEF NothingAbove, Spaces
    <3>. QED
      BY <1>6, <3>1, <3>2, EmptyTable DEF NothingAbove, Spaces
  <2>5. \A w \in Spaces : NotTwice(table[c][w])'
    BY <1>6, EmptyTable, AboutSlot DEF Spaces
  <2>. QED
    BY <2>2, <2>3, <2>4, <2>5 DEF ProcRight
<1>13. OneParent'
  BY <1>4, AboutSlot DEF MemoryIInv, OneParent
<1>. QED
  BY <1>8, <1>9, <1>10, <1>11, <1>12, <1>13 DEF MemoryIInv

\* A call that fails gives back what it has taken: sbrk its pages of the user memory, ...
LEMMA SbrkFails ==
  ASSUME MemoryIInv, NEW p \in Slots, job[p].op = "sbrk", Fail(p, job[p].mem)
  PROVE  MemoryIInv'
<1> DEFINE A == job[p].from .. job[p].to - 1
           s == table[p]["cur"]
           r == Without(s, A)
           x == job[p].mem
<1>1. /\ free' = (free \cup UserPages(s, A) \cup {x}) \ {NoPage}
      /\ table' = [table EXCEPT ![p]["cur"] = r] /\ job' = [job EXCEPT ![p] = NoJob]
      /\ UNCHANGED <<state, kstack, sz>>
  BY DEF Fail, Drop
<1>2. /\ job[p] \in Job /\ table[p]["new"] = Empty /\ s \in PageTable /\ NotTwice(s)
      /\ job[p].from = sz[p] /\ job[p].to < MaxSz /\ job[p].at <= job[p].to
      /\ job[p].at \in Nat /\ job[p].to \in Nat /\ sz[p] \in Nat /\ state[p] = "RUNNING"
  BY AboutSlot DEF JobRight, SlotRight, Job, Spaces
<1>3. A \subseteq Addresses
  BY <1>2, MemoryFacts DEF Addresses
<1>4. /\ r \in PageTable /\ NotTwice(r) /\ UserPages(s, A) \subseteq PagesOf(s)
      /\ PagesOf(r) = PagesOf(s) \ UserPages(s, A)
      /\ \A a \in Addresses : r.mem[a] = IF a \in A THEN NoPage ELSE s.mem[a]
  <2> HIDE DEF A, s
  <2>. QED
    BY <1>2, <1>3, MemCleared
<1>5. /\ table'[p]["cur"] = r /\ table'[p]["new"] = table[p]["new"]
      /\ \A q \in Slots : q # p => table'[q] = table[q]
      /\ table' \in [Slots -> [Spaces -> PageTable]]
  <2> HIDE DEF r
  <2>. QED
    BY <1>1, <1>4 DEF MemoryIInv, MemoryTypes, Spaces
<1>6. /\ job' \in [Slots -> Job] /\ job'[p] = NoJob
      /\ \A q \in Slots : q # p => job'[q] = job[q]
  BY <1>1, AboutSlot DEF MemoryIInv, MemoryTypes
<1>7. x \in PageOrNone /\ PagesOf(s) \subseteq Pages
  BY <1>2, InPageTable DEF Job
<1> HIDE DEF A, s, r, x
<1>8. free \subseteq Pages /\ NoPage \notin Pages /\ free' \subseteq Pages
  BY <1>1, <1>4, <1>7, MemoryFacts DEF MemoryIInv, MemoryTypes, PageOrNone
<1>9. MemoryTypes'
  BY <1>1, <1>5, <1>6, <1>8 DEF MemoryIInv, MemoryTypes
<1>10. Shared(HeldNow)'
  <2> DEFINE U == UserPages(s, A)
             G == [HeldNow EXCEPT ![<<p, "cur">>] = @ \ U, ![Pool] = @ \cup U]
  <2>1. /\ <<p, "cur">> \in Locs /\ <<p, "hand">> \in Locs /\ Pool \in Locs
        /\ <<p, "cur">> # Pool /\ <<p, "hand">> # Pool /\ <<p, "cur">> # <<p, "hand">>
    BY MemoryFacts DEF Parts
  <2>2. DOMAIN HeldNow = Locs /\ Shared(HeldNow)
    BY DEF HeldNow, MemoryIInv
  <2>3. /\ HeldNow[<<p, "cur">>] = PagesOf(s) /\ HeldNow[<<p, "hand">>] = Only(x)
        /\ HeldNow[Pool] = free /\ HeldNow'[<<p, "cur">>] = PagesOf(r)
        /\ HeldNow'[Pool] = free'
    BY <1>5, HeldIs, HeldIsThen DEF s, x
  <2>4. HeldNow'[<<p, "hand">>] = {}
    <3>1. HeldNow'[<<p, "hand">>] = Only(job'[p].mem)
      BY HeldIsThen
    <3>2. Only(job'[p].mem) = {}
      BY <1>6, AboutSlot DEF Only
    <3>. QED
      BY <3>1, <3>2
  <2>5. \A k \in Locs : k # Pool /\ k # <<p, "cur">> /\ k # <<p, "hand">> => HeldNow'[k] = HeldNow[k]
    <3> DEFINE X == {<<p, "cur">>, <<p, "hand">>}
    <3>1. /\ \A q \in Slots : <<q, "stack">> \notin X => kstack'[q] = kstack[q]
          /\ \A q \in Slots : <<q, "hand">> \notin X => job'[q].mem = job[q].mem
          /\ \A q \in Slots : <<q, "cur">> \notin X => table'[q]["cur"] = table[q]["cur"]
          /\ \A q \in Slots : <<q, "new">> \notin X => table'[q]["new"] = table[q]["new"]
      <4>1. kstack' = kstack
        BY <1>1
      <4>. QED
        BY <1>5, <1>6, <4>1
    <3> HIDE DEF X
    <3>2. \A k \in Locs : k # Pool /\ k \notin X => HeldNow'[k] = HeldNow[k]
      BY <3>1, RestHeld
    <3>. QED
      BY <3>2 DEF X
  <2>6. /\ G[<<p, "cur">>] = PagesOf(r) /\ G[Pool] = free \cup U
        /\ \A k \in Locs : k # Pool /\ k # <<p, "cur">> => G[k] = HeldNow[k]
    BY <1>4, <2>1, <2>2, <2>3
  <2> HIDE DEF U, G
  <2>7. Shared(G)
    <3>1. Moves(HeldNow, G, <<p, "cur">>, Pool, U)
      BY <1>4, <2>3, <2>6 DEF Moves, U
    <3>. QED
      BY <2>1, <2>2, <3>1, PagesMoved
  <2>8. Shared(HeldNow')
    <3>1. free' = (free \cup U) \cup Only(x)
      BY <1>1, <1>4, <1>7, <1>8 DEF U, Only
    <3>2. G[<<p, "hand">>] = Only(x)
      BY <2>1, <2>3, <2>6
    <3>3. Moves(G, HeldNow', <<p, "hand">>, Pool, Only(x))
      BY <2>1, <2>3, <2>4, <2>5, <2>6, <3>1, <3>2 DEF Moves
    <3>. QED
      BY <2>1, <2>7, <3>3, PagesMoved
  <2>. QED
    BY <2>8 DEF Shared
<1>11. ASSUME NEW q \in Slots, q # p PROVE ProcRight(q)'
  BY <1>1, <1>5, <1>6, <1>11, OthersKeep
<1>12. ProcRight(p)'
  <2>1. UNCHANGED <<state, kstack, sz>>
    BY <1>1
  <2>2. SlotRight(p)'
    BY <1>2, <2>1, AboutSlot DEF SlotRight
  <2>3. JobRight(p)'
    BY <1>2, <1>5, <1>6, AboutSlot DEF JobRight
  <2>4. NothingAbove(p)'
    <3>1. TopOf(p, "cur") = job[p].at /\ TopOf(p, "cur")' = sz[p]
      BY <1>6, <2>1, AboutSlot DEF TopOf
    <3>2. \A a \in Addresses : a >= sz[p] => a \in A \/ a >= job[p].at
      BY <1>2, MemoryFacts DEF A, Addresses
    <3>3. \A a \in Addresses : a >= job[p].at => s.mem[a] = NoPage
      BY <3>1, AboutSlot DEF NothingAbove, Spaces, s
    <3>4. \A a \in Addresses : a >= TopOf(p, "cur")' => table'[p]["cur"].mem[a] = NoPage
      BY <1>4, <1>5, <3>1, <3>2, <3>3
    <3>5. \A a \in Addresses : table'[p]["new"].mem[a] = NoPage
      BY <1>2, <1>5, EmptyTable
    <3>. QED
      BY <3>4, <3>5 DEF NothingAbove, Spaces
  <2>5. \A w \in Spaces : NotTwice(table[p][w])'
    BY <1>4, <1>5, AboutSlot DEF Spaces
  <2>. QED
    BY <2>2, <2>3, <2>4, <2>5 DEF ProcRight
<1>13. OneParent'
  BY <1>6, AboutSlot DEF MemoryIInv, OneParent
<1>. QED
  BY <1>9, <1>10, <1>11, <1>12, <1>13 DEF MemoryIInv

\* ... exec and fork the page table they build, and fork the process it has made.
LEMMA BuildFails ==
  ASSUME MemoryIInv, NEW p \in Slots, job[p].op \in {"exec", "fork"}, Fail(p, job[p].mem)
  PROVE  MemoryIInv'
<1>0. PICK c : c = job[p].child
  OBVIOUS
<1> DEFINE N == PagesOf(table[p]["new"])
           x == job[p].mem
           K == IF job[p].op = "fork" THEN {kstack[c]} ELSE {}
<1>1. /\ free' = (free \cup N \cup {x} \cup K) \ {NoPage}
      /\ table' = [table EXCEPT ![p]["new"] = Empty] /\ job' = [job EXCEPT ![p] = NoJob]
      /\ state' = [q \in Slots |-> IF q = c THEN "UNUSED" ELSE state[q]]
      /\ kstack' = [q \in Slots |-> IF q = c THEN NoPage ELSE kstack[q]]
      /\ sz' = sz
  BY <1>0 DEF Fail, Drop
<1>2. /\ job[p] \in Job /\ state[p] = "RUNNING" /\ table[p]["new"] \in PageTable
      /\ job[p].op # "sbrk" /\ job[p].op # "none"
      /\ job[p].op # "fork" => c \notin Slots
      /\ job[p].op = "fork" => /\ c \in Slots /\ state[c] = "EMBRYO" /\ c # p
                               /\ kstack[c] \in Pages
  <2>1. job[p] \in Job /\ state[p] = "RUNNING" /\ table[p]["new"] \in PageTable
    BY AboutSlot DEF SlotRight, Spaces
  <2>2. job[p].op # "fork" => c \notin Slots
    BY <1>0, AboutSlot, MemoryFacts DEF JobRight, NoPage
  <2>3. job[p].op = "fork" => c \in Slots /\ state[c] = "EMBRYO"
    BY <1>0, AboutSlot DEF JobRight
  <2>4. job[p].op = "fork" => kstack[c] \in Pages
    BY <2>3, AboutSlot DEF SlotRight, PageOrNone
  <2>. QED
    BY <2>1, <2>2, <2>3, <2>4
<1>3. /\ job' \in [Slots -> Job] /\ job'[p] = NoJob
      /\ \A q \in Slots : q # p => job'[q] = job[q]
  BY <1>1, AboutSlot DEF MemoryIInv, MemoryTypes
<1>4. /\ table'[p]["new"] = Empty /\ table'[p]["cur"] = table[p]["cur"]
      /\ \A q \in Slots : q # p => table'[q] = table[q]
      /\ table' \in [Slots -> [Spaces -> PageTable]]
  BY <1>1, EmptyTable DEF MemoryIInv, MemoryTypes, Spaces
<1>5. /\ \A q \in Slots : /\ state'[q] = IF q = c THEN "UNUSED" ELSE state[q]
                          /\ kstack'[q] = IF q = c THEN NoPage ELSE kstack[q]
      /\ state' \in [Slots -> {"UNUSED", "EMBRYO", "RUNNING", "ZOMBIE"}]
      /\ kstack' \in [Slots -> PageOrNone]
  BY <1>1 DEF MemoryIInv, MemoryTypes, PageOrNone
<1>6. x \in PageOrNone /\ N \subseteq Pages /\ K \subseteq Pages
  BY <1>2, InPageTable DEF Job
<1> HIDE DEF N, x, K
<1>7. free \subseteq Pages /\ NoPage \notin Pages /\ free' \subseteq Pages
  BY <1>1, <1>6, MemoryFacts DEF MemoryIInv, MemoryTypes, PageOrNone
<1>8. MemoryTypes'
  BY <1>1, <1>3, <1>4, <1>5, <1>7 DEF MemoryIInv, MemoryTypes
<1>9. Shared(HeldNow)'
  <2> DEFINE T == {<<p, "new">>, <<p, "hand">>} \cup
                  (IF job[p].op = "fork" THEN {<<c, "stack">>} ELSE {})
  <2>1. T \subseteq Locs /\ Pool \notin T
    BY <1>2, MemoryFacts DEF Parts
  <2>2. /\ HeldNow[<<p, "new">>] = N /\ HeldNow[Pool] = free /\ HeldNow'[Pool] = free'
        /\ HeldNow[<<p, "hand">>] = Only(x)
        /\ job[p].op = "fork" => HeldNow[<<c, "stack">>] = K
    <3>1. job[p].op = "fork" => Only(kstack[c]) = K
      BY <1>2, MemoryFacts DEF Only, K
    <3>. QED
      BY <1>2, <3>1, HeldIs, HeldIsThen DEF N, x
  <2>3. \A k \in T : HeldNow'[k] = {}
    <3>1. HeldNow'[<<p, "new">>] = {}
      BY <1>4, HeldIsThen, EmptyTable
    <3>2. Only(job'[p].mem) = {} /\ HeldNow'[<<p, "hand">>] = Only(job'[p].mem)
      BY <1>3, AboutSlot, HeldIsThen DEF Only
    <3>3. job[p].op = "fork" => HeldNow'[<<c, "stack">>] = Only(kstack'[c]) /\ kstack'[c] = NoPage
      BY <1>2, <1>5, HeldIsThen
    <3>. QED
      BY <3>1, <3>2, <3>3 DEF Only
  <2>4. \A k \in Locs : k # Pool /\ k \notin T => HeldNow'[k] = HeldNow[k]
    <3>1. /\ \A q \in Slots : <<q, "stack">> \notin T => kstack'[q] = kstack[q]
          /\ \A q \in Slots : <<q, "hand">> \notin T => job'[q].mem = job[q].mem
          /\ \A q \in Slots : <<q, "cur">> \notin T => table'[q]["cur"] = table[q]["cur"]
          /\ \A q \in Slots : <<q, "new">> \notin T => table'[q]["new"] = table[q]["new"]
      BY <1>2, <1>3, <1>4, <1>5
    <3> HIDE DEF T
    <3>. QED
      BY <3>1, RestHeld
  <2>5. \A y : y \in HeldNow'[Pool] <=> y \in HeldNow[Pool] \/ \E k \in T : y \in HeldNow[k]
    <3>1. \A y : y \in free' <=> y \in free \/ y \in N \/ y \in Only(x) \/ y \in K
      BY <1>1, <1>6, <1>7 DEF Only
    <3>2. job[p].op # "fork" => K = {}
      BY DEF K
    <3>. QED
      BY <2>2, <3>1, <3>2
  <2> HIDE DEF T
  <2>6. Shared(HeldNow')
    BY <2>1, <2>3, <2>4, <2>5, GivenBack DEF MemoryIInv
  <2>. QED
    BY <2>6 DEF Shared
<1>10. ASSUME NEW q \in Slots, q # p, q # c PROVE ProcRight(q)'
  <2>1. job[q].op = "fork" => job[q].child \in Slots /\ job[q].child # c
    BY <1>0, <1>2, <1>10, AboutSlot DEF JobRight, MemoryIInv, OneParent
  <2>. QED
    BY <1>1, <1>3, <1>4, <1>5, <1>10, <2>1, OthersKeep
<1>11. ProcRight(p)'
  <2>1. c # p /\ kstack'[p] = kstack[p] /\ state'[p] = state[p] /\ sz' = sz
    BY <1>1, <1>2, <1>5
  <2>2. SlotRight(p)'
    BY <1>2, <1>4, <2>1, AboutSlot DEF SlotRight
  <2>3. JobRight(p)'
    BY <1>3, <1>4, AboutSlot DEF JobRight
  <2>4. NothingAbove(p)'
    <3>1. TopOf(p, "cur")' = TopOf(p, "cur")
      BY <1>2, <1>3, <2>1, AboutSlot DEF TopOf
    <3>. QED
      BY <1>4, <3>1, EmptyTable, AboutSlot DEF NothingAbove, Spaces
  <2>5. \A w \in Spaces : NotTwice(table[p][w])'
    BY <1>4, EmptyTable, AboutSlot DEF Spaces
  <2>. QED
    BY <2>2, <2>3, <2>4, <2>5 DEF ProcRight
<1>12. ASSUME c \in Slots, c # p PROVE ProcRight(c)'
  <2>1. /\ state[c] = "EMBRYO" /\ job'[c] = job[c] /\ job[c] = NoJob /\ table'[c] = table[c]
        /\ table[c]["cur"] = Empty /\ table[c]["new"] = Empty
        /\ state'[c] = "UNUSED" /\ kstack'[c] = NoPage /\ sz' = sz
    BY <1>1, <1>2, <1>3, <1>4, <1>5, <1>12, AboutSlot DEF SlotRight, JobRight
  <2>2. SlotRight(c)' /\ JobRight(c)'
    BY <1>12, <2>1, AboutSlot DEF SlotRight, JobRight
  <2>3. NothingAbove(c)' /\ \A w \in Spaces : NotTwice(table[c][w])'
    BY <2>1, EmptyTable DEF NothingAbove, Spaces
  <2>. QED
    BY <2>2, <2>3 DEF ProcRight
<1>13. OneParent'
  BY <1>3, AboutSlot DEF MemoryIInv, OneParent
<1>. QED
  BY <1>8, <1>9, <1>10, <1>11, <1>12, <1>13 DEF MemoryIInv

-----------------------------------------------------------------------------
(* The invariant *)

LEMMA MemoryInvInit ==
  ASSUME MemoryInit
  PROVE  MemoryIInv
<1> DEFINE s == [Empty EXCEPT !.dir = 2, !.kern = 3, !.tab[0] = 4, !.mem[0] = 5]
<1>1. /\ free = 6 .. NPages /\ state = [p \in Slots |-> IF p = Init0 THEN "RUNNING" ELSE "UNUSED"]
      /\ kstack = [p \in Slots |-> IF p = Init0 THEN 1 ELSE NoPage]
      /\ sz = [p \in Slots |-> IF p = Init0 THEN 1 ELSE 0]
      /\ table = [p \in Slots |-> [w \in Spaces |-> IF p = Init0 /\ w = "cur" THEN s ELSE Empty]]
      /\ job = [p \in Slots |-> NoJob]
  BY DEF MemoryInit
<1>2. /\ s \in PageTable /\ s.dir = 2 /\ s.kern = 3
      /\ s.tab[0] = 4 /\ \A t \in Tables : t # 0 => s.tab[t] = NoPage
      /\ s.mem[0] = 5 /\ \A a \in Addresses : a # 0 => s.mem[a] = NoPage
  <2>1. /\ s.dir = 2 /\ s.kern = 3
        /\ s.tab = [t \in Tables |-> IF t = 0 THEN 4 ELSE NoPage]
        /\ s.mem = [a \in Addresses |-> IF a = 0 THEN 5 ELSE NoPage]
        /\ s \in [dir : {2}, kern : {3}, tab : [Tables -> {4, NoPage}],
                 mem : [Addresses -> {5, NoPage}]]
    <3>1. /\ Empty.tab = [t \in Tables |-> NoPage] /\ Empty.mem = [a \in Addresses |-> NoPage]
          /\ Empty \in [dir : {NoPage}, kern : {NoPage}, tab : [Tables -> {NoPage}],
                        mem : [Addresses -> {NoPage}]]
      BY DEF Empty, Addresses
    <3>2. /\ s.dir = 2 /\ s.kern = 3 /\ s.tab = [Empty.tab EXCEPT ![0] = 4]
          /\ s.mem = [Empty.mem EXCEPT ![0] = 5]
          /\ s \in [dir : {2}, kern : {3}, tab : [Tables -> {4, NoPage}],
                   mem : [Addresses -> {5, NoPage}]]
      <4>1. s.dir = 2 /\ s.kern = 3
        BY <3>1
      <4>2. s.tab = [Empty.tab EXCEPT ![0] = 4]
        BY <3>1
      <4>3. s.mem = [Empty.mem EXCEPT ![0] = 5]
        BY <3>1
      <4>4. s \in [dir : {2}, kern : {3}, tab : [Tables -> {4, NoPage}],
                   mem : [Addresses -> {5, NoPage}]]
        BY <3>1
      <4>. QED
        BY <4>1, <4>2, <4>3, <4>4
    <3>3. [Empty.tab EXCEPT ![0] = 4] = [t \in Tables |-> IF t = 0 THEN 4 ELSE NoPage]
      BY <3>1
    <3>4. [Empty.mem EXCEPT ![0] = 5] = [a \in Addresses |-> IF a = 0 THEN 5 ELSE NoPage]
      BY <3>1
    <3> HIDE DEF s
    <3>. QED
      BY <3>2, <3>3, <3>4
  <2>2. {2, 3, 4, 5, NoPage} \subseteq PageOrNone
    BY MemoryFacts DEF PageOrNone, Pages
  <2> HIDE DEF s
  <2>3. s \in PageTable
    BY <2>1, <2>2 DEF PageTable
  <2>. QED
    BY <2>1, <2>3, MemoryFacts
<1> HIDE DEF s
<1>3. /\ NoJob \in Job /\ NoJob.op = "none" /\ NoJob.mem = NoPage /\ NoJob.pc = "run"
      /\ NoJob.child = NoPage
  BY DEF NoJob, Job, PageOrNone, NoPage
<1>4. PagesOf(s) = 2 .. 5
  <2>1. \A x : x \in PagesOf(s) <=> x # NoPage /\ (x = 2 \/ x = 3 \/ x = 4 \/ x = 5)
    BY <1>2, InPageTable, MemoryFacts DEF NoPage
  <2>2. \A x : x \in 2 .. 5 <=> x = 2 \/ x = 3 \/ x = 4 \/ x = 5
    OBVIOUS
  <2>. QED
    BY <2>1, <2>2 DEF NoPage
<1>5. NotTwice(s)
  BY <1>2, MemoryFacts DEF NotTwice, NoPage
<1>6. MemoryTypes
  BY <1>1, <1>2, <1>3, EmptyTable, MemoryFacts DEF MemoryTypes, PageOrNone, Pages, Addresses
<1>7. Shared(HeldNow)
  <2>1. HeldNow[Pool] = 6 .. NPages
    BY <1>1, HeldIs
  <2>2. /\ HeldNow[<<Init0, "stack">>] = {1} /\ HeldNow[<<Init0, "cur">>] = 2 .. 5
        /\ HeldNow[<<Init0, "hand">>] = {} /\ HeldNow[<<Init0, "new">>] = {}
    <3>1. kstack[Init0] = 1 /\ job[Init0].mem = NoPage
      BY <1>1, <1>3, MemoryFacts
    <3>2. table[Init0]["cur"] = s /\ table[Init0]["new"] = Empty
      BY <1>1, MemoryFacts DEF Spaces
    <3>3. Only(1) = {1} /\ Only(NoPage) = {}
      BY DEF Only, NoPage
    <3>. QED
      BY <1>4, <3>1, <3>2, <3>3, HeldIs, EmptyTable, MemoryFacts
  <2>3. ASSUME NEW q \in Slots, q # Init0, NEW u \in Parts PROVE HeldNow[<<q, u>>] = {}
    <3>1. kstack[q] = NoPage /\ job[q].mem = NoPage
      BY <1>1, <1>3, <2>3
    <3>2. table[q]["cur"] = Empty /\ table[q]["new"] = Empty
      BY <1>1, <2>3 DEF Spaces
    <3>3. Only(NoPage) = {}
      BY DEF Only
    <3>4. /\ HeldNow[<<q, "stack">>] = {} /\ HeldNow[<<q, "hand">>] = {}
          /\ HeldNow[<<q, "cur">>] = {} /\ HeldNow[<<q, "new">>] = {}
      BY <3>1, <3>2, <3>3, HeldIs, EmptyTable
    <3>. QED
      BY <3>4 DEF Parts
  <2> DEFINE I(k) == IF k = Pool THEN 6 .. NPages ELSE IF k = <<Init0, "stack">> THEN {1}
                     ELSE IF k = <<Init0, "cur">> THEN 2 .. 5 ELSE {}
  <2>4. \A k \in Locs : HeldNow[k] = I(k)
    <3>1. <<Init0, "stack">> # Pool /\ <<Init0, "cur">> # Pool
      BY MemoryFacts DEF Parts
    <3>2. \A u \in Parts : HeldNow[<<Init0, u>>] = I(<<Init0, u>>)
      BY <2>2, MemoryFacts DEF Parts
    <3>3. \A q \in Slots, u \in Parts : q # Init0 => HeldNow[<<q, u>>] = I(<<q, u>>)
      BY <2>3, MemoryFacts
    <3>. QED
      BY <2>1, <3>2, <3>3, EveryLoc
  <2>5. /\ Pool \in Locs /\ <<Init0, "stack">> \in Locs /\ <<Init0, "cur">> \in Locs
        /\ Pool # <<Init0, "stack">> /\ Pool # <<Init0, "cur">>
        /\ <<Init0, "stack">> # <<Init0, "cur">>
    BY MemoryFacts DEF Parts
  <2>6. NPages \in Nat /\ NPages >= 5 /\ Pages = 1 .. NPages
    BY MemoryFacts DEF Pages
  <2>7. \A k \in Locs : I(k) \subseteq Pages
    BY <2>6
  <2>8. \A k, m \in Locs : k # m => I(k) \cap I(m) = {}
    BY <2>6
  <2>9. \A x \in Pages : \E k \in Locs : x \in I(k)
    BY <2>5, <2>6
  <2> HIDE DEF I
  <2>. QED
    BY <2>4, <2>7, <2>8, <2>9 DEF Shared
<1>8. ASSUME NEW p \in Slots PROVE ProcRight(p)
  <2>1. job[p] = NoJob /\ table[p]["new"] = Empty
    BY <1>1 DEF Spaces
  <2>2. SlotRight(p) /\ JobRight(p)
    BY <1>1, <1>3, <2>1 DEF SlotRight, JobRight, Spaces, NoPage
  <2>3. \A w \in Spaces : NotTwice(table[p][w])
    BY <1>1, <1>5, EmptyTable
  <2>4. NothingAbove(p)
    <3>1. TopOf(p, "cur") = sz[p]
      BY <1>3, <2>1 DEF TopOf
    <3>2. \A a \in Addresses : a >= 1 => a # 0
      BY MemoryFacts DEF Addresses
    <3>3. \A a \in Addresses : a >= sz[p] => table[p]["cur"].mem[a] = NoPage
      BY <1>1, <1>2, <3>2, EmptyTable DEF Spaces
    <3>. QED
      BY <2>1, <3>1, <3>3, EmptyTable DEF NothingAbove, Spaces
  <2>. QED
    BY <2>2, <2>3, <2>4 DEF ProcRight
<1>9. OneParent
  BY <1>1, <1>3 DEF OneParent
<1>. QED
  BY <1>6, <1>7, <1>8, <1>9 DEF MemoryIInv

LEMMA MemoryInvStep ==
  ASSUME MemoryIInv, [MemoryNext]_memoryVars
  PROVE  MemoryIInv'
<1>1. ASSUME NEW p \in Slots, SetupDir(p) PROVE MemoryIInv'
  <2>1. /\ job[p].pc = "dir"
        /\ \/ free = {} /\ Fail(p, NoPage)
           \/ /\ free # {} /\ free' = free \ {Page}
              /\ table' = [table EXCEPT ![p]["new"].dir = Page]
              /\ job' = [job EXCEPT ![p].pc = "kern"] /\ UNCHANGED <<state, kstack, sz>>
    BY <1>1 DEF SetupDir
  <2>2. job[p].mem = NoPage /\ job[p].op \in {"exec", "fork"}
    BY <2>1, AboutSlot DEF JobRight, Job
  <2>. QED
    BY <2>1, <2>2, SetupDirKeeps, BuildFails
<1>2. ASSUME NEW p \in Slots, SetupKern(p) PROVE MemoryIInv'
  <2>1. /\ job[p].pc = "kern"
        /\ \/ free = {} /\ Fail(p, NoPage)
           \/ /\ free # {} /\ free' = free \ {Page}
              /\ table' = [table EXCEPT ![p]["new"].kern = Page]
              /\ job' = [job EXCEPT ![p].pc = "page"] /\ UNCHANGED <<state, kstack, sz>>
    BY <1>2 DEF SetupKern
  <2>2. job[p].mem = NoPage /\ job[p].op \in {"exec", "fork"}
    BY <2>1, AboutSlot DEF JobRight, Job
  <2>. QED
    BY <2>1, <2>2, SetupKernKeeps, BuildFails
<1>3. ASSUME NEW p \in Slots, TakePage(p) PROVE MemoryIInv'
  <2>1. /\ job[p].pc = "page" /\ job[p].at < job[p].to
        /\ \/ free = {} /\ Fail(p, NoPage)
           \/ /\ free # {} /\ free' = free \ {Page}
              /\ job' = [job EXCEPT ![p].pc = "map", ![p].mem = Page]
              /\ UNCHANGED <<state, kstack, sz, table>>
    BY <1>3 DEF TakePage
  <2>2. job[p].mem = NoPage /\ job[p].op \in {"sbrk", "exec", "fork"}
    BY <2>1, AboutSlot DEF JobRight, Job
  <2>. QED
    BY <2>1, <2>2, TakePageKeeps, SbrkFails, BuildFails
<1>4. ASSUME NEW p \in Slots, MapPage(p) PROVE MemoryIInv'
  <2>1. job[p].pc = "map" /\ job[p].op \in {"sbrk", "exec", "fork"}
    BY <1>4, AboutSlot DEF MapPage, JobRight, Job
  <2>2. CASE free = {} /\ table[p][W(p)].tab[job[p].at \div PerTable] = NoPage
    BY <1>4, <2>1, <2>2, SbrkFails, BuildFails DEF MapPage
  <2>3. CASE free = {} => table[p][W(p)].tab[job[p].at \div PerTable] # NoPage
    BY <1>4, <2>1, <2>3, MapPageKeeps
  <2>. QED
    BY <2>2, <2>3
<1>5. ASSUME NEW p \in Slots, ExecBad(p) PROVE MemoryIInv'
  <2>1. job[p].op = "exec" /\ Fail(p, job[p].mem)
    BY <1>5, AboutSlot DEF ExecBad, JobRight
  <2>. QED
    BY <2>1, BuildFails
<1>6. CASE UNCHANGED memoryVars
  <2>1. UNCHANGED <<free, state, kstack, sz, table, job>>
    BY <1>6 DEF memoryVars
  <2>2. Shared(HeldNow)'
    BY <2>1, NothingMoved DEF MemoryIInv
  <2>3. \A q \in Slots : ProcRight(q)'
    BY <2>1, OthersKeep
  <2>. QED
    BY <2>1, <2>2, <2>3 DEF MemoryIInv, MemoryTypes, OneParent
<1>. QED
  BY <1>1, <1>2, <1>3, <1>4, <1>5, <1>6, GrowKeeps, ShrinkKeeps, ExecKeeps, ForkKeeps,
     GrowDoneKeeps, ExecDoneKeeps, ForkDoneKeeps, ExitKeeps, ReapKeeps DEF MemoryNext

\* The pages of every call are accounted for (kalloc.c, vm.c, exec.c, proc.c): the invariant is
\* inductive.
THEOREM MemoryInductive == MemorySpec => []MemoryIInv
<1>1. MemoryInit => MemoryIInv
  BY MemoryInvInit
<1>2. MemoryIInv /\ [MemoryNext]_memoryVars => MemoryIInv'
  BY MemoryInvStep
<1>. QED
  BY <1>1, <1>2, PTL DEF MemorySpec

-----------------------------------------------------------------------------
(* Every page has one owner *)

\* Page x is at the place y of page table w of process p.
AtPlace(y, p, w, x) ==
  \/ y = <<"dir", p, w>> /\ table[p][w].dir = x
  \/ y = <<"kern", p, w>> /\ table[p][w].kern = x
  \/ \E t \in Tables : y = <<"tab", p, w, t>> /\ table[p][w].tab[t] = x
  \/ \E a \in Addresses : y = <<"mem", p, w, a>> /\ table[p][w].mem[a] = x

LEMMA OwnerIs ==
  ASSUME NEW x, NEW y
  PROVE  y \in Owners(x) <=> \E p \in Slots :
           \/ y = <<"stack", p>> /\ kstack[p] = x
           \/ y = <<"hand", p>> /\ job[p].mem = x
           \/ \E w \in Spaces : AtPlace(y, p, w, x)
<1>1. y \in {<<"stack", p>> : p \in {q \in Slots : kstack[q] = x}}
        <=> \E p \in Slots : y = <<"stack", p>> /\ kstack[p] = x
  OBVIOUS
<1>2. y \in {<<"hand", p>> : p \in {q \in Slots : job[q].mem = x}}
        <=> \E p \in Slots : y = <<"hand", p>> /\ job[p].mem = x
  OBVIOUS
<1>3. y \in {z \in {"dir"} \X Slots \X Spaces : table[z[2]][z[3]].dir = x}
        <=> \E p \in Slots, w \in Spaces : y = <<"dir", p, w>> /\ table[p][w].dir = x
  OBVIOUS
<1>4. y \in {z \in {"kern"} \X Slots \X Spaces : table[z[2]][z[3]].kern = x}
        <=> \E p \in Slots, w \in Spaces : y = <<"kern", p, w>> /\ table[p][w].kern = x
  OBVIOUS
<1>5. y \in {z \in {"tab"} \X Slots \X Spaces \X Tables : table[z[2]][z[3]].tab[z[4]] = x}
        <=> \E p \in Slots, w \in Spaces, t \in Tables :
              y = <<"tab", p, w, t>> /\ table[p][w].tab[t] = x
  OBVIOUS
<1>6. y \in {z \in {"mem"} \X Slots \X Spaces \X Addresses : table[z[2]][z[3]].mem[z[4]] = x}
        <=> \E p \in Slots, w \in Spaces, a \in Addresses :
              y = <<"mem", p, w, a>> /\ table[p][w].mem[a] = x
  OBVIOUS
<1>7. y \in Owners(x) <=>
        \/ y \in {<<"stack", p>> : p \in {q \in Slots : kstack[q] = x}}
        \/ y \in {<<"hand", p>> : p \in {q \in Slots : job[q].mem = x}}
        \/ y \in {z \in {"dir"} \X Slots \X Spaces : table[z[2]][z[3]].dir = x}
        \/ y \in {z \in {"kern"} \X Slots \X Spaces : table[z[2]][z[3]].kern = x}
        \/ y \in {z \in {"tab"} \X Slots \X Spaces \X Tables : table[z[2]][z[3]].tab[z[4]] = x}
        \/ y \in {z \in {"mem"} \X Slots \X Spaces \X Addresses : table[z[2]][z[3]].mem[z[4]] = x}
  BY DEF Owners, Addresses
<1>. QED
  BY <1>1, <1>2, <1>3, <1>4, <1>5, <1>6, <1>7 DEF AtPlace

LEMMA OneOwner ==
  ASSUME MemoryIInv, NEW x \in Pages
  PROVE  Cardinality(Owners(x)) = IF x \in free THEN 0 ELSE 1
<1>1. x # NoPage
  BY MemoryFacts
<1>2. ASSUME NEW p \in Slots
      PROVE  /\ kstack[p] = x <=> x \in HeldNow[<<p, "stack">>]
             /\ job[p].mem = x <=> x \in HeldNow[<<p, "hand">>]
  BY <1>1, HeldIs DEF Only
<1>3. ASSUME NEW p \in Slots, NEW w \in Spaces
      PROVE  x \in HeldNow[<<p, w>>] <=> \E y : AtPlace(y, p, w, x)
  <2>1. HeldNow[<<p, w>>] = PagesOf(table[p][w])
    BY HeldIs DEF Spaces
  <2>2. x \in PagesOf(table[p][w]) <=>
          \/ x = table[p][w].dir \/ x = table[p][w].kern
          \/ \E t \in Tables : x = table[p][w].tab[t]
          \/ \E a \in Addresses : x = table[p][w].mem[a]
    BY <1>1, AboutSlot, InPageTable
  <2>. QED
    BY <2>1, <2>2 DEF AtPlace
<1>4. ASSUME NEW p \in Slots, NEW w \in Spaces, NEW y, NEW z,
             AtPlace(y, p, w, x), AtPlace(z, p, w, x)
      PROVE  y = z
  BY <1>1, <1>4, AboutSlot DEF AtPlace, NotTwice
<1>5. \A k, m \in Locs : x \in HeldNow[k] /\ x \in HeldNow[m] => k = m
  BY DEF MemoryIInv, Shared
<1>6. \A p \in Slots : <<p, "stack">> \in Locs /\ <<p, "hand">> \in Locs
                       /\ \A w \in Spaces : <<p, w>> \in Locs
  BY MemoryFacts DEF Parts, Spaces
<1>7. CASE x \in free
  <2>1. \A p \in Slots : /\ x \notin HeldNow[<<p, "stack">>] /\ x \notin HeldNow[<<p, "hand">>]
                         /\ \A w \in Spaces : x \notin HeldNow[<<p, w>>]
    BY <1>5, <1>7, HeldIs, MemoryFacts DEF Parts, Spaces
  <2>2. \A y : y \notin Owners(x)
    BY <1>2, <1>3, <2>1, OwnerIs
  <2>3. Owners(x) = {}
    BY <2>2
  <2>. QED
    BY <1>7, <2>3, FS_EmptySet
<1>8. CASE x \notin free
  <2>1. PICK k \in Locs : x \in HeldNow[k]
    BY DEF MemoryIInv, Shared
  <2>2. PICK p \in Slots, u \in Parts : k = <<p, u>>
    BY <1>8, <2>1, HeldIs, EveryLoc
  <2>3. \E y : \/ u = "stack" /\ y = <<"stack", p>>
               \/ u = "hand" /\ y = <<"hand", p>>
               \/ u \in Spaces /\ AtPlace(y, p, u, x)
    BY <1>3, <2>1, <2>2 DEF Parts, Spaces
  <2>4. PICK y : \/ u = "stack" /\ y = <<"stack", p>>
                 \/ u = "hand" /\ y = <<"hand", p>>
                 \/ u \in Spaces /\ AtPlace(y, p, u, x)
    BY <2>3
  <2>5. y \in Owners(x)
    BY <1>2, <2>1, <2>2, <2>4, OwnerIs
  <2>6. ASSUME NEW z \in Owners(x) PROVE z = y
    <3>1. PICK q \in Slots :
            \/ z = <<"stack", q>> /\ kstack[q] = x
            \/ z = <<"hand", q>> /\ job[q].mem = x
            \/ \E w \in Spaces : AtPlace(z, q, w, x)
      BY OwnerIs
    <3>2. CASE z = <<"stack", q>> /\ kstack[q] = x
      <4>1. <<q, "stack">> = <<p, u>>
        BY <1>2, <1>5, <1>6, <2>1, <2>2, <3>2
      <4>. QED
        BY <2>4, <3>2, <4>1 DEF Spaces
    <3>3. CASE z = <<"hand", q>> /\ job[q].mem = x
      <4>1. <<q, "hand">> = <<p, u>>
        BY <1>2, <1>5, <1>6, <2>1, <2>2, <3>3
      <4>. QED
        BY <2>4, <3>3, <4>1 DEF Spaces
    <3>4. CASE \E w \in Spaces : AtPlace(z, q, w, x)
      <4>1. PICK w \in Spaces : AtPlace(z, q, w, x)
        BY <3>4
      <4>2. <<q, w>> = <<p, u>>
        BY <1>3, <1>5, <1>6, <2>1, <2>2, <4>1
      <4>. QED
        BY <1>4, <2>4, <4>1, <4>2 DEF Spaces
    <3>. QED
      BY <3>1, <3>2, <3>3, <3>4
  <2>7. Owners(x) = {y}
    BY <2>5, <2>6
  <2>. QED
    BY <1>8, <2>7, FS_Singleton
<1>. QED
  BY <1>7, <1>8

\* Whatever kalloc() fails in which call, and however the calls of processes interleave: every
\* page is on the free list or has one owner (kfree() and kalloc() in kalloc.c, deallocuvm() and
\* freevm() in vm.c).
THEOREM EveryPageHasOneOwner == MemorySpec => []MemoryInv
<1>1. MemoryIInv => MemoryInv
  <2>1. MemoryIInv => MemoryTypeOK
    BY MemoryFacts DEF MemoryIInv, MemoryTypes, MemoryTypeOK, PageOrNone, Addresses
  <2>. QED
    BY <2>1, OneOwner DEF MemoryInv
<1>. QED
  BY <1>1, MemoryInductive, PTL

-----------------------------------------------------------------------------
(* The memory of a process has no holes *)

\* Without the step that gives back everything, memory stays whole from its start on.
LEMMA WholeStep ==
  ASSUME ~ShrinkToZero, MemoryIInv, Whole, [MemoryNext]_memoryVars
  PROVE  Whole'
<1>1. ASSUME NEW q \in Slots, job'[q] = job[q], table'[q] = table[q], sz'[q] = sz[q],
             state'[q] = state[q]
      PROVE  WholeAt(q)'
  BY <1>1 DEF Whole, WholeAt, TopOf
<1>2. ASSUME NEW p \in Slots PROVE WholeAt(p)
  BY DEF Whole
<1>3. ASSUME NEW p \in Slots, Grow(p) PROVE Whole'
  <2>1. PICK n \in 1 .. MaxSz :
          job' = [job EXCEPT ![p] = [NoJob EXCEPT !.op = "sbrk", !.pc = "page",
                                       !.from = sz[p], !.at = sz[p], !.to = sz[p] + n]]
    BY <1>3 DEF Grow
  <2>2. job[p] = NoJob /\ UNCHANGED <<state, sz, table>>
    BY <1>3 DEF Grow, Idle
  <2>3. /\ job'[p].op = "sbrk" /\ job'[p].at = sz[p]
        /\ \A q \in Slots : q # p => job'[q] = job[q]
    BY <2>1 DEF MemoryIInv, MemoryTypes, NoJob
  <2>4. TopOf(p, "cur") = sz[p] /\ TopOf(p, "cur")' = sz[p]
    BY <2>2, <2>3, AboutSlot DEF TopOf
  <2>5. WholeAt(p)'
    BY <1>2, <2>2, <2>3, <2>4 DEF WholeAt
  <2>. QED
    BY <1>1, <2>2, <2>3, <2>5 DEF Whole
<1>4. ASSUME NEW p \in Slots, Shrink(p) PROVE Whole'
  <2>1. PICK n \in 1 .. sz[p] :
          /\ Idle(p) /\ n # sz[p]
          /\ table' = [table EXCEPT ![p]["cur"] = Without(@, sz[p] - n .. sz[p] - 1)]
          /\ sz' = [sz EXCEPT ![p] = IF n = @ THEN @ ELSE @ - n]
          /\ UNCHANGED <<state, job>>
    BY <1>4 DEF Shrink
  <2> DEFINE A == sz[p] - n .. sz[p] - 1
             s == table[p]["cur"]
  <2>2. /\ job[p] = NoJob /\ sz[p] \in Nat /\ sz[p] < MaxSz /\ n \in Nat /\ n >= 1 /\ n < sz[p]
        /\ s \in PageTable /\ NotTwice(s)
    BY <2>1, AboutSlot DEF Idle, Spaces
  <2>3. A \subseteq Addresses
    BY <2>2, MemoryFacts DEF Addresses
  <2>4. \A a \in Addresses : Without(s, A).mem[a] = IF a \in A THEN NoPage ELSE s.mem[a]
    <3> HIDE DEF A, s
    <3>. QED
      BY <2>2, <2>3, MemCleared
  <2>5. /\ table'[p]["cur"] = Without(s, A) /\ sz'[p] = sz[p] - n
        /\ \A q \in Slots : q # p => table'[q] = table[q] /\ sz'[q] = sz[q]
    BY <2>1 DEF MemoryIInv, MemoryTypes, Spaces
  <2>6. TopOf(p, "cur") = sz[p] /\ TopOf(p, "cur")' = sz[p] - n
    BY <2>1, <2>2, <2>5, AboutSlot DEF TopOf
  <2>7. \A a \in Addresses : a < sz[p] - n => a \notin A /\ a < sz[p]
    BY <2>2, MemoryFacts DEF Addresses
  <2> HIDE DEF A, s
  <2>8. \A a \in Addresses : state[p] = "RUNNING" /\ a < sz[p] - n => table'[p]["cur"].mem[a] # NoPage
    BY <1>2, <2>4, <2>5, <2>6, <2>7 DEF WholeAt, s
  <2>9. UNCHANGED <<state, job>> /\ job'[p].op = "none"
    BY <2>1, <2>2, AboutSlot
  <2>10. WholeAt(p)'
    BY <2>6, <2>8, <2>9 DEF WholeAt
  <2>. QED
    BY <1>1, <2>5, <2>9, <2>10 DEF Whole
<1>5. ASSUME NEW p \in Slots, Exec(p) \/ Fork(p) PROVE Whole'
  <2>1. /\ job'[p].at = 0 /\ job'[p].op # "sbrk" /\ job[p] = NoJob
        /\ sz' = sz /\ table' = table
        /\ \A q \in Slots : q # p => job'[q] = job[q]
        /\ \A q \in Slots : state'[q] = "RUNNING" => state[q] = "RUNNING"
    <3>1. /\ state \in [Slots -> {"UNUSED", "EMBRYO", "RUNNING", "ZOMBIE"}]
          /\ job \in [Slots -> Job]
      BY DEF MemoryIInv, MemoryTypes
    <3>2. CASE Exec(p)
      <4>1. PICK n \in Programs :
              job' = [job EXCEPT ![p] = [NoJob EXCEPT !.op = "exec", !.pc = "dir", !.to = n]]
        BY <3>2 DEF Exec
      <4>2. job[p] = NoJob /\ UNCHANGED <<state, sz, table>>
        BY <3>2 DEF Exec, Idle
      <4>3. job'[p].at = 0 /\ job'[p].op = "exec" /\ \A q \in Slots : q # p => job'[q] = job[q]
        BY <3>1, <4>1 DEF NoJob
      <4>. QED
        BY <4>2, <4>3
    <3>3. CASE Fork(p)
      <4>1. PICK c \in Slots :
              /\ state[c] = "UNUSED" /\ state' = [state EXCEPT ![c] = "EMBRYO"]
              /\ job' = [job EXCEPT ![p] = [NoJob EXCEPT
                   !.op = "fork", !.pc = "dir", !.to = sz[p], !.child = c]]
        BY <3>3 DEF Fork
      <4>2. job[p] = NoJob /\ UNCHANGED <<sz, table>>
        BY <3>3 DEF Fork, Idle
      <4>3. job'[p].at = 0 /\ job'[p].op = "fork" /\ \A q \in Slots : q # p => job'[q] = job[q]
        BY <3>1, <4>1 DEF NoJob
      <4>4. \A q \in Slots : state'[q] = "RUNNING" => state[q] = "RUNNING"
        BY <3>1, <4>1
      <4>. QED
        BY <4>2, <4>3, <4>4
    <3>. QED
      BY <1>5, <3>2, <3>3
  <2>2. TopOf(p, "cur")' = TopOf(p, "cur")
    BY <2>1, AboutSlot DEF TopOf
  <2>3. WholeAt(p)'
    BY <1>2, <2>1, <2>2, MemoryFacts DEF WholeAt, Addresses
  <2>4. ASSUME NEW q \in Slots, q # p PROVE WholeAt(q)'
    <3>1. TopOf(q, "cur")' = TopOf(q, "cur")
      BY <2>1, <2>4 DEF TopOf
    <3>. QED
      BY <1>2, <2>1, <2>4, <3>1 DEF WholeAt
  <2>. QED
    BY <2>3, <2>4 DEF Whole
<1>6. ASSUME NEW p \in Slots, SetupDir(p) \/ SetupKern(p) \/ TakePage(p) \/ ExecBad(p) \/ MapPage(p),
             Fail(p, job[p].mem)
      PROVE  Whole'
  <2>1. CASE job[p].op = "sbrk"
    <3> DEFINE A == job[p].from .. job[p].to - 1
               s == table[p]["cur"]
    <3>1. /\ table' = [table EXCEPT ![p]["cur"] = Without(s, A)]
          /\ job' = [job EXCEPT ![p] = NoJob] /\ UNCHANGED <<state, sz>>
      BY <1>6, <2>1 DEF Fail, Drop
    <3>2. /\ s \in PageTable /\ NotTwice(s) /\ job[p].from = sz[p] /\ job[p].to < MaxSz
          /\ job[p].from <= job[p].at /\ job[p].from \in Nat /\ job[p].to \in Nat
          /\ job[p].at \in Nat
      BY <2>1, AboutSlot DEF JobRight, Job, Spaces
    <3>3. A \subseteq Addresses
      BY <3>2, MemoryFacts DEF Addresses
    <3>4. \A a \in Addresses : Without(s, A).mem[a] = IF a \in A THEN NoPage ELSE s.mem[a]
      <4> HIDE DEF A, s
      <4>. QED
        BY <3>2, <3>3, MemCleared
    <3>5. /\ table'[p]["cur"] = Without(s, A) /\ job'[p] = NoJob
          /\ \A q \in Slots : q # p => table'[q] = table[q] /\ job'[q] = job[q]
      BY <3>1 DEF MemoryIInv, MemoryTypes, Spaces
    <3>6. TopOf(p, "cur") = job[p].at /\ TopOf(p, "cur")' = sz[p] /\ job'[p].op = "none"
      BY <2>1, <3>1, <3>5, AboutSlot DEF TopOf
    <3>7. \A a \in Addresses : a < sz[p] => a \notin A /\ a < job[p].at
      BY <3>2, MemoryFacts DEF Addresses
    <3> HIDE DEF A, s
    <3>8. \A a \in Addresses : state[p] = "RUNNING" /\ a < sz[p] => table'[p]["cur"].mem[a] # NoPage
      BY <1>2, <3>4, <3>5, <3>6, <3>7 DEF WholeAt, s
    <3>9. UNCHANGED <<state, sz>>
      BY <3>1
    <3>10. WholeAt(p)'
      BY <3>6, <3>8, <3>9 DEF WholeAt
    <3>. QED
      BY <1>1, <3>5, <3>9, <3>10 DEF Whole
  <2>2. CASE job[p].op \in {"exec", "fork"}
    <3>1. /\ table' = [table EXCEPT ![p]["new"] = Empty] /\ job' = [job EXCEPT ![p] = NoJob]
          /\ state' = [q \in Slots |-> IF q = job[p].child THEN "UNUSED" ELSE state[q]]
          /\ sz' = sz
      BY <1>6, <2>2 DEF Fail, Drop
    <3>2. /\ table'[p]["cur"] = table[p]["cur"] /\ job'[p] = NoJob
          /\ \A q \in Slots : q # p => table'[q] = table[q] /\ job'[q] = job[q]
      BY <3>1 DEF MemoryIInv, MemoryTypes, Spaces
    <3>3. \A q \in Slots : state'[q] = "RUNNING" => state[q] = "RUNNING"
      BY <3>1
    <3>4. TopOf(p, "cur")' = TopOf(p, "cur") /\ job'[p].op = "none"
      BY <2>2, <3>1, <3>2, AboutSlot DEF TopOf
    <3>5. WholeAt(p)'
      BY <1>2, <3>2, <3>3, <3>4 DEF WholeAt
    <3>6. ASSUME NEW q \in Slots, q # p PROVE WholeAt(q)'
      <4>1. TopOf(q, "cur")' = TopOf(q, "cur")
        BY <3>1, <3>2, <3>6 DEF TopOf
      <4>. QED
        BY <1>2, <3>2, <3>3, <3>6, <4>1 DEF WholeAt
    <3>. QED
      BY <3>5, <3>6 DEF Whole
  <2>3. job[p].op \in {"sbrk", "exec", "fork"}
    BY <1>6, AboutSlot DEF SetupDir, SetupKern, TakePage, ExecBad, MapPage, JobRight, Job
  <2>. QED
    BY <2>1, <2>2, <2>3
<1>7. ASSUME NEW p \in Slots, \/ SetupDir(p) /\ free # {}
                              \/ SetupKern(p) /\ free # {}
                              \/ TakePage(p) /\ free # {}
      PROVE  Whole'
  <2>1. /\ table'[p]["cur"] = table[p]["cur"] /\ table'[p]["new"].mem = table[p]["new"].mem
        /\ job'[p].op = job[p].op /\ job'[p].at = job[p].at
        /\ \A q \in Slots : q # p => table'[q] = table[q] /\ job'[q] = job[q]
        /\ UNCHANGED <<state, sz>>
    <3>1. table \in [Slots -> [Spaces -> PageTable]] /\ job \in [Slots -> Job]
      BY DEF MemoryIInv, MemoryTypes
    <3>2. CASE SetupDir(p) /\ free # {}
      <4>1. /\ table' = [table EXCEPT ![p]["new"].dir = Page]
            /\ job' = [job EXCEPT ![p].pc = "kern"] /\ UNCHANGED <<state, sz>>
        BY <3>2 DEF SetupDir
      <4>2. /\ table'[p]["cur"] = table[p]["cur"] /\ table'[p]["new"].mem = table[p]["new"].mem
            /\ \A q \in Slots : q # p => table'[q] = table[q]
        BY <3>1, <4>1 DEF Spaces, PageTable
      <4>3. /\ job'[p].op = job[p].op /\ job'[p].at = job[p].at
            /\ \A q \in Slots : q # p => job'[q] = job[q]
        BY <3>1, <4>1 DEF Job
      <4>. QED
        BY <4>1, <4>2, <4>3
    <3>3. CASE SetupKern(p) /\ free # {}
      <4>1. /\ table' = [table EXCEPT ![p]["new"].kern = Page]
            /\ job' = [job EXCEPT ![p].pc = "page"] /\ UNCHANGED <<state, sz>>
        BY <3>3 DEF SetupKern
      <4>2. /\ table'[p]["cur"] = table[p]["cur"] /\ table'[p]["new"].mem = table[p]["new"].mem
            /\ \A q \in Slots : q # p => table'[q] = table[q]
        BY <3>1, <4>1 DEF Spaces, PageTable
      <4>3. /\ job'[p].op = job[p].op /\ job'[p].at = job[p].at
            /\ \A q \in Slots : q # p => job'[q] = job[q]
        BY <3>1, <4>1 DEF Job
      <4>. QED
        BY <4>1, <4>2, <4>3
    <3>4. CASE TakePage(p) /\ free # {}
      BY <3>1, <3>4 DEF TakePage, Job
    <3>. QED
      BY <1>7, <3>2, <3>3, <3>4
  <2>2. TopOf(p, "cur")' = TopOf(p, "cur")
    BY <2>1 DEF TopOf
  <2>3. WholeAt(p)'
    BY <1>2, <2>1, <2>2 DEF WholeAt
  <2>. QED
    BY <1>1, <2>1, <2>3 DEF Whole
<1>8. ASSUME NEW p \in Slots, MapPage(p), job[p].pc = "map",
             free = {} => table[p][W(p)].tab[job[p].at \div PerTable] # NoPage
      PROVE  Whole'
  <2>0. PICK w \in Spaces, a \in Nat : w = W(p) /\ a = job[p].at
    BY AboutSlot DEF W, Spaces, Job
  <2> DEFINE there == table[p][w].tab[a \div PerTable] # NoPage
             s == table[p][w]
             r == table'[p][w]
             x == job[p].mem
  <2>1. /\ table' = [table EXCEPT ![p][w] = [s EXCEPT !.mem[a] = x,
                                       !.tab[a \div PerTable] = IF there THEN @ ELSE Page]]
        /\ job' = [job EXCEPT ![p].pc = "page", ![p].at = @ + 1, ![p].mem = NoPage]
        /\ UNCHANGED <<state, kstack, sz>>
    BY <1>8, <2>0 DEF MapPage
  <2>2. /\ x # NoPage /\ s \in PageTable /\ a < MaxSz /\ a \in Addresses
        /\ job[p].op \in {"sbrk", "exec", "fork"}
    BY <1>8, <2>0, AboutSlot, MemoryFacts DEF JobRight, Job, Addresses
  <2>3. /\ r.mem[a] = x /\ \A c \in Addresses : c # a => r.mem[c] = s.mem[c]
        /\ \A v \in Spaces : v # w => table'[p][v] = table[p][v]
        /\ \A q \in Slots : q # p => table'[q] = table[q]
    <3>1. r = [s EXCEPT !.mem[a] = x, !.tab[a \div PerTable] = IF there THEN @ ELSE Page]
      BY <2>1 DEF MemoryIInv, MemoryTypes
    <3>2. /\ \A v \in Spaces : v # w => table'[p][v] = table[p][v]
          /\ \A q \in Slots : q # p => table'[q] = table[q]
      BY <2>1 DEF MemoryIInv, MemoryTypes
    <3> HIDE DEF s, r, x
    <3>. QED
      BY <2>2, <3>1, <3>2 DEF PageTable
  <2>4. /\ job'[p].op = job[p].op /\ job'[p].at = a + 1
        /\ \A q \in Slots : q # p => job'[q] = job[q]
    BY <2>0, <2>1, AboutSlot DEF MemoryIInv, MemoryTypes, Job
  <2>5. UNCHANGED <<state, sz>>
    BY <2>1
  <2> HIDE DEF s, r, x
  <2>6. \A c \in Addresses : c < a + 1 => c < a \/ c = a
    BY <2>2, MemoryFacts DEF Addresses
  <2>7. WholeAt(p)'
    <3>1. CASE job[p].op = "sbrk"
      <4>1. w = "cur" /\ TopOf(p, "cur") = a /\ TopOf(p, "cur")' = a + 1
        BY <2>0, <2>4, <3>1 DEF W, TopOf
      <4>2. \A c \in Addresses : state[p] = "RUNNING" /\ c < a + 1 => r.mem[c] # NoPage
        BY <1>2, <2>2, <2>3, <2>6, <4>1 DEF WholeAt, s
      <4>. QED
        BY <2>4, <2>5, <3>1, <4>1, <4>2 DEF WholeAt, r
    <3>2. CASE job[p].op \in {"exec", "fork"}
      <4>1. w = "new" /\ TopOf(p, "cur")' = TopOf(p, "cur")
        BY <2>0, <2>4, <2>5, <3>2 DEF W, TopOf
      <4>2. \A c \in Addresses : c < a + 1 => r.mem[c] # NoPage
        BY <1>2, <2>0, <2>2, <2>3, <2>6, <3>2, <4>1 DEF WholeAt, s
      <4>3. table'[p]["cur"] = table[p]["cur"]
        BY <2>3, <4>1 DEF Spaces
      <4>. QED
        BY <1>2, <2>4, <2>5, <4>1, <4>2, <4>3 DEF WholeAt, r
    <3>. QED
      BY <2>2, <3>1, <3>2
  <2>. QED
    BY <1>1, <2>3, <2>4, <2>5, <2>7 DEF Whole
<1>9. ASSUME NEW p \in Slots, GrowDone(p) PROVE Whole'
  <2>1. /\ job[p].op = "sbrk" /\ job[p].at = job[p].to /\ UNCHANGED <<state, table>>
        /\ job'[p] = NoJob /\ sz'[p] = job[p].to
        /\ \A q \in Slots : q # p => job'[q] = job[q] /\ sz'[q] = sz[q]
    BY <1>9 DEF GrowDone, MemoryIInv, MemoryTypes
  <2>2. TopOf(p, "cur")' = TopOf(p, "cur") /\ job'[p].op = "none"
    BY <2>1, AboutSlot DEF TopOf
  <2>3. WholeAt(p)'
    BY <1>2, <2>1, <2>2 DEF WholeAt
  <2>. QED
    BY <1>1, <2>1, <2>3 DEF Whole
<1>10. ASSUME NEW p \in Slots, ExecDone(p) PROVE Whole'
  <2>1. /\ job[p].op = "exec" /\ job[p].at = job[p].to /\ state' = state
        /\ job'[p] = NoJob /\ sz'[p] = job[p].to /\ table'[p]["cur"] = table[p]["new"]
        /\ \A q \in Slots : q # p => job'[q] = job[q] /\ sz'[q] = sz[q] /\ table'[q] = table[q]
    BY <1>10 DEF ExecDone, MemoryIInv, MemoryTypes, Spaces
  <2>2. TopOf(p, "cur")' = job[p].at /\ job'[p].op = "none"
    BY <2>1, AboutSlot DEF TopOf
  <2>3. WholeAt(p)'
    BY <1>2, <2>1, <2>2 DEF WholeAt
  <2>. QED
    BY <1>1, <2>1, <2>3 DEF Whole
<1>11. ASSUME NEW p \in Slots, ForkDone(p) PROVE Whole'
  <2>1. PICK c \in Slots : c = job[p].child /\ state[c] = "EMBRYO"
    BY <1>11, AboutSlot DEF ForkDone, JobRight
  <2>2. state[p] = "RUNNING" /\ c # p /\ job[c] = NoJob
    BY <1>11, <2>1, AboutSlot DEF ForkDone, SlotRight
  <2>3. /\ job[p].op = "fork" /\ job[p].at = job[p].to
        /\ table' = [table EXCEPT ![c]["cur"] = table[p]["new"], ![p]["new"] = Empty]
        /\ sz' = [sz EXCEPT ![c] = job[p].to] /\ state' = [state EXCEPT ![c] = "RUNNING"]
        /\ job' = [job EXCEPT ![p] = NoJob]
    BY <1>11, <2>1 DEF ForkDone
  <2>4. /\ job'[p] = NoJob /\ table'[p]["cur"] = table[p]["cur"] /\ sz'[p] = sz[p]
        /\ job'[c] = NoJob /\ table'[c]["cur"] = table[p]["new"] /\ sz'[c] = job[p].to
        /\ \A q \in Slots : q # p /\ q # c =>
             job'[q] = job[q] /\ sz'[q] = sz[q] /\ table'[q] = table[q] /\ state'[q] = state[q]
        /\ state'[p] = state[p]
    BY <2>2, <2>3 DEF MemoryIInv, MemoryTypes, Spaces
  <2>5. WholeAt(p)'
    <3>1. TopOf(p, "cur")' = TopOf(p, "cur") /\ job'[p].op = "none"
      BY <2>3, <2>4, AboutSlot DEF TopOf
    <3>. QED
      BY <1>2, <2>4, <3>1 DEF WholeAt
  <2>6. WholeAt(c)'
    <3>1. TopOf(c, "cur")' = job[p].at /\ job'[c].op = "none"
      BY <2>3, <2>4, AboutSlot DEF TopOf
    <3>. QED
      BY <1>2, <2>3, <2>4, <3>1 DEF WholeAt
  <2>. QED
    BY <1>1, <2>4, <2>5, <2>6 DEF Whole
<1>12. ASSUME NEW p \in Slots, Exit(p) \/ Reap(p) PROVE Whole'
  <2>1. /\ state'[p] # "RUNNING" /\ job[p] = NoJob /\ UNCHANGED <<sz, job>>
        /\ \A q \in Slots : q # p => state'[q] = state[q] /\ table'[q] = table[q]
    BY <1>12, AboutSlot DEF Exit, Reap, Idle, SlotRight, MemoryIInv, MemoryTypes
  <2>2. WholeAt(p)'
    BY <2>1, AboutSlot DEF WholeAt
  <2>. QED
    BY <1>1, <2>1, <2>2 DEF Whole
<1>13. CASE UNCHANGED memoryVars
  <2>1. UNCHANGED <<state, sz, table, job>>
    BY <1>13 DEF memoryVars
  <2>. QED
    BY <1>1, <2>1 DEF Whole
<1>14. ASSUME NEW p \in Slots, SetupDir(p) \/ SetupKern(p) \/ TakePage(p) PROVE Whole'
  <2>1. job[p].mem = NoPage
    BY <1>14, AboutSlot DEF SetupDir, SetupKern, TakePage, JobRight
  <2>2. CASE free = {}
    <3>1. Fail(p, job[p].mem)
      BY <1>14, <2>1, <2>2 DEF SetupDir, SetupKern, TakePage
    <3>. QED
      BY <1>6, <1>14, <3>1
  <2>3. CASE free # {}
    BY <1>7, <1>14, <2>3
  <2>. QED
    BY <2>2, <2>3
<1>15. ASSUME NEW p \in Slots, MapPage(p) PROVE Whole'
  <2>1. job[p].pc = "map"
    BY <1>15 DEF MapPage
  <2>2. CASE free = {} /\ table[p][W(p)].tab[job[p].at \div PerTable] = NoPage
    <3>1. Fail(p, job[p].mem)
      BY <1>15, <2>2 DEF MapPage
    <3>. QED
      BY <1>6, <1>15, <3>1
  <2>3. CASE free = {} => table[p][W(p)].tab[job[p].at \div PerTable] # NoPage
    BY <1>8, <1>15, <2>1, <2>3
  <2>. QED
    BY <2>2, <2>3
<1>16. ASSUME NEW p \in Slots, ExecBad(p) PROVE Whole'
  <2>1. Fail(p, job[p].mem)
    BY <1>16, AboutSlot DEF ExecBad, JobRight
  <2>. QED
    BY <1>6, <1>16, <2>1
<1>. QED
  BY <1>3, <1>4, <1>5, <1>9, <1>10, <1>11, <1>12, <1>13, <1>14, <1>15, <1>16 DEF MemoryNext

\* Between its calls a process has exactly the memory its size says, after every failed sbrk(),
\* exec() and fork() too (growproc() in proc.c, exec.c), unless it may give back all of it.
THEOREM SizeRight == ~ShrinkToZero => (MemorySpec => []SizeIsMapped)
<1>1. MemoryInit => Whole
  <2> SUFFICES ASSUME MemoryInit, NEW p \in Slots PROVE WholeAt(p)
    BY DEF Whole
  <2>1. job[p].op = "none"
    BY DEF MemoryInit, NoJob
  <2>2. CASE p = Init0
    <3>1. TopOf(p, "cur") = 1
      BY <2>1, <2>2 DEF MemoryInit, TopOf
    <3>2. \A a \in Addresses : a < 1 => a = 0
      BY MemoryFacts DEF Addresses
    <3>3. table[p]["cur"].mem[0] # NoPage
      <4> DEFINE s == [Empty EXCEPT !.dir = 2, !.kern = 3, !.tab[0] = 4, !.mem[0] = 5]
      <4>1. table[p]["cur"] = s
        BY <2>2 DEF MemoryInit, Spaces
      <4>2. /\ Empty \in [dir : {NoPage}, kern : {NoPage}, tab : [Tables -> {NoPage}],
                          mem : [Addresses -> {NoPage}]]
            /\ 0 \in Addresses
        BY MemoryFacts DEF Empty, Addresses
      <4>3. s.mem = [Empty.mem EXCEPT ![0] = 5]
        BY <4>2
      <4>4. s.mem[0] = 5
        BY <4>2, <4>3
      <4>. QED
        BY <4>1, <4>4 DEF NoPage
    <3>. QED
      BY <2>1, <3>1, <3>2, <3>3 DEF WholeAt
  <2>3. CASE p # Init0
    BY <2>1, <2>3 DEF MemoryInit, WholeAt
  <2>. QED
    BY <2>2, <2>3
<1>2. ~ShrinkToZero /\ MemoryIInv /\ Whole /\ [MemoryNext]_memoryVars => Whole'
  BY WholeStep
<1>3. MemoryIInv /\ Whole => SizeIsMapped
  <2> SUFFICES ASSUME MemoryIInv, Whole, NEW p \in Slots, Idle(p), NEW a \in 0 .. MaxSz - 1
               PROVE  table[p]["cur"].mem[a] # NoPage <=> a < sz[p]
    BY DEF SizeIsMapped
  <2>1. TopOf(p, "cur") = sz[p] /\ state[p] = "RUNNING"
    BY AboutSlot DEF TopOf, Idle
  <2>2. a \in Addresses /\ (a < sz[p] \/ a >= sz[p])
    BY AboutSlot, MemoryFacts DEF Addresses
  <2>3. a >= sz[p] => table[p]["cur"].mem[a] = NoPage
    BY <2>1, <2>2, AboutSlot DEF NothingAbove, Spaces
  <2>4. a < sz[p] => table[p]["cur"].mem[a] # NoPage
    BY <2>1, <2>2 DEF Whole, WholeAt
  <2>. QED
    BY <2>2, <2>3, <2>4
<1>4. ASSUME ~ShrinkToZero PROVE MemorySpec => []SizeIsMapped
  <2>1. MemoryIInv /\ Whole /\ [MemoryNext]_memoryVars => Whole'
    BY <1>2, <1>4
  <2>. QED
    BY <1>1, <1>3, <2>1, MemoryInductive, PTL DEF MemorySpec
<1>. QED
  BY <1>4

-----------------------------------------------------------------------------
(* Console input *)

CONSTANTS INPUT_BUF, ReadSizes, MaxKeys
VARIABLES buf, rd, wr, ed, clock, cpc, target, wanted, ckilled, keys, owed

Console == INSTANCE Console WITH
  Sizes <- ReadSizes, lock <- clock, pc <- cpc, n <- wanted, killed <- ckilled

\* Types that TypeOK of Console leaves out.
ConsoleTypes ==
  /\ buf \in [0 .. INPUT_BUF - 1 -> Console!Chars]
  /\ {rd, wr, ed} \subseteq Nat
  /\ cpc \in [Readers -> {"out", "enter", "loop", "asleep"}]

ConsoleIInv == Console!Inv /\ ConsoleTypes

\* Characters less than the size of the buffer apart are in different places.
LEMMA PlacesDiffer ==
  ASSUME NEW b \in Nat \ {0}, NEW x \in Nat, NEW y \in Nat, x < y, y < x + b
  PROVE  x % b # y % b
<1> SUFFICES ASSUME x % b = y % b PROVE FALSE
  OBVIOUS
<1> DEFINE d == (y \div b) - (x \div b)
<1>1. /\ x \div b \in Int /\ y \div b \in Int /\ x % b \in 0 .. b - 1 /\ y % b \in 0 .. b - 1
      /\ x = b * (x \div b) + (x % b) /\ y = b * (y \div b) + (y % b)
  BY DivMod
<1>2. d \in Int /\ b * d = b * (y \div b) - b * (x \div b)
  BY <1>1
<1>3. b * d = y - x
  BY <1>1, <1>2
<1> HIDE DEF d
<1>4. d >= 1 => b * d >= b
  BY <1>2, MultipleAtLeast
<1>5. d <= -1 => b * d <= -b
  BY <1>2, MultipleAtMost
<1>6. d = 0 => b * d = 0
  OBVIOUS
<1>. QED
  BY <1>2, <1>3, <1>4, <1>5, <1>6

\* What is taken from a larger number leaves a number.
LEMMA Difference ==
  ASSUME NEW x \in Nat, NEW y \in Nat, y <= x PROVE x - y \in Nat
OBVIOUS

\* Every place is one of the buffer's.
LEMMA PlaceType ==
  ASSUME Console!ConsoleAssumption, NEW x \in Nat
  PROVE  x % INPUT_BUF \in 0 .. INPUT_BUF - 1
BY DivMod DEF Console!ConsoleAssumption

\* What is in the buffer between two places.
LEMMA BetweenIs ==
  ASSUME Console!ConsoleAssumption, ConsoleTypes, NEW x \in Nat, NEW y \in Nat, x <= y
  PROVE  /\ Console!Between(x, y) \in Seq(Console!Chars) /\ Len(Console!Between(x, y)) = y - x
         /\ \A k \in 1 .. y - x : Console!Between(x, y)[k] = buf[(x + k - 1) % INPUT_BUF]
<1>1. \A k \in 1 .. y - x : buf[(x + k - 1) % INPUT_BUF] \in Console!Chars
  <2> SUFFICES ASSUME NEW k \in 1 .. y - x PROVE buf[(x + k - 1) % INPUT_BUF] \in Console!Chars
    OBVIOUS
  <2>1. x + k - 1 \in Nat
    OBVIOUS
  <2>2. (x + k - 1) % INPUT_BUF \in 0 .. INPUT_BUF - 1
    BY <2>1, PlaceType
  <2>. QED
    BY <2>2 DEF ConsoleTypes
<1>2. y - x \in Nat
  OBVIOUS
<1>. QED
  BY <1>1, <1>2 DEF Console!Between

\* What the invariant says, in numbers.
LEMMA ConsoleIs ==
  ASSUME Console!ConsoleAssumption, ConsoleIInv
  PROVE  /\ rd \in Nat /\ wr \in Nat /\ ed \in Nat /\ INPUT_BUF \in Nat /\ INPUT_BUF > 0
         /\ rd <= wr /\ wr <= ed /\ ed <= rd + INPUT_BUF
         /\ buf \in [0 .. INPUT_BUF - 1 -> Console!Chars]
         /\ cpc \in [Readers -> {"out", "enter", "loop", "asleep"}]
         /\ clock \in Readers \cup {None} /\ None \notin Readers
         /\ \A p \in Readers : cpc[p] = "loop" <=> clock = p
         /\ ed = rd + INPUT_BUF => wr = ed
         /\ \A p \in Readers : cpc[p] = "asleep" => rd = wr
         /\ owed = Console!Between(rd, wr)
BY DEF Console!ConsoleAssumption, ConsoleIInv, ConsoleTypes, Console!Inv, Console!TypeOK

\* A character that is typed destroys none of those that are not yet read.
LEMMA Typed ==
  ASSUME Console!ConsoleAssumption, ConsoleIInv, NEW c \in Console!Chars, ed - rd < INPUT_BUF,
         buf' = [buf EXCEPT ![ed % INPUT_BUF] = c], rd' = rd
  PROVE  /\ buf' \in [0 .. INPUT_BUF - 1 -> Console!Chars]
         /\ buf'[ed % INPUT_BUF] = c
         /\ \A x \in Nat : rd <= x /\ x < ed => buf'[x % INPUT_BUF] = buf[x % INPUT_BUF]
<1>1. ed % INPUT_BUF \in 0 .. INPUT_BUF - 1
  BY ConsoleIs, PlaceType
<1>2. ASSUME NEW x \in Nat, rd <= x, x < ed PROVE x % INPUT_BUF # ed % INPUT_BUF
  BY <1>2, ConsoleIs, PlacesDiffer
<1>3. ASSUME NEW x \in Nat PROVE x % INPUT_BUF \in 0 .. INPUT_BUF - 1
  BY PlaceType
<1>. QED
  BY <1>1, <1>2, <1>3, ConsoleIs

\* A key that finishes nothing, and one that finishes what was typed since the last that did.
LEMMA TypeKeeps ==
  ASSUME Console!ConsoleAssumption, ConsoleIInv, Console!Type
  PROVE  ConsoleIInv'
<1>1. PICK c \in Console!Chars :
        /\ clock = None /\ ed - rd < INPUT_BUF
        /\ buf' = [buf EXCEPT ![ed % INPUT_BUF] = c] /\ ed' = ed + 1
        /\ IF Console!Finishes(c)
           THEN /\ wr' = ed + 1 /\ cpc' = Console!Woken
                /\ owed' = owed \o Append(Console!Between(wr, ed), c)
           ELSE wr' = wr /\ cpc' = cpc /\ owed' = owed
        /\ rd' = rd /\ clock' = clock
  BY DEF Console!Type, Console!Key
<1>2. /\ buf' \in [0 .. INPUT_BUF - 1 -> Console!Chars]
      /\ buf'[ed % INPUT_BUF] = c
      /\ \A x \in Nat : rd <= x /\ x < ed => buf'[x % INPUT_BUF] = buf[x % INPUT_BUF]
  BY <1>1, Typed
<1>3. /\ cpc' \in [Readers -> {"out", "enter", "loop", "asleep"}]
      /\ \A p \in Readers : cpc'[p] = "loop" <=> cpc[p] = "loop"
      /\ wr' # wr => \A p \in Readers : cpc'[p] # "asleep"
  BY <1>1, ConsoleIs DEF Console!Woken
<1>4. /\ wr' \in Nat /\ ed' \in Nat /\ rd' \in Nat /\ rd' <= wr' /\ wr' <= ed'
      /\ ed' <= rd' + INPUT_BUF /\ (ed' = rd' + INPUT_BUF => wr' = ed')
  BY <1>1, ConsoleIs DEF Console!Finishes
<1>5. ConsoleTypes'
  BY <1>2, <1>3, <1>4 DEF ConsoleTypes
<1>6. Console!TypeOK'
  BY <1>1, <1>3, <1>4, ConsoleIs DEF Console!TypeOK
<1>7. owed' = Console!Between(rd, wr)'
  <2> DEFINE new == Console!Between(rd, wr)'
             old == Console!Between(rd, wr)
  <2>1. /\ new \in Seq(Console!Chars) /\ Len(new) = wr' - rd
        /\ \A k \in 1 .. wr' - rd : new[k] = buf'[(rd + k - 1) % INPUT_BUF]
    <3>1. /\ new = [k \in 1 .. wr' - rd |-> buf'[(rd + k - 1) % INPUT_BUF]] /\ wr' - rd \in Nat
      <4>1. rd' = rd
        BY <1>1
      <4>2. wr' - rd' \in Nat
        <5>1. wr' \in Nat /\ rd' \in Nat /\ rd' <= wr'
          BY <1>4
        <5>. QED
          BY <5>1, Difference
      <4>. QED
        BY <4>1, <4>2 DEF Console!Between
    <3>2. \A k \in 1 .. wr' - rd : buf'[(rd + k - 1) % INPUT_BUF] \in Console!Chars
      <4> SUFFICES ASSUME NEW k \in 1 .. wr' - rd
                   PROVE  buf'[(rd + k - 1) % INPUT_BUF] \in Console!Chars
        OBVIOUS
      <4>1. rd + k - 1 \in Nat
        BY <1>1, <1>4
      <4>2. (rd + k - 1) % INPUT_BUF \in 0 .. INPUT_BUF - 1
        BY <4>1, PlaceType
      <4>. QED
        BY <1>2, <4>2
    <3>. QED
      BY <3>1, <3>2
  <2>2. /\ old \in Seq(Console!Chars) /\ Len(old) = wr - rd
        /\ \A k \in 1 .. wr - rd : old[k] = buf[(rd + k - 1) % INPUT_BUF]
    BY ConsoleIs, BetweenIs DEF ConsoleIInv
  <2> DEFINE line == Console!Between(wr, ed)
  <2>3. /\ line \in Seq(Console!Chars) /\ Len(line) = ed - wr
        /\ \A k \in 1 .. ed - wr : line[k] = buf[(wr + k - 1) % INPUT_BUF]
    BY ConsoleIs, BetweenIs DEF ConsoleIInv
  <2>4. owed = old
    BY ConsoleIs
  <2>5. ASSUME NEW k \in Int, 1 <= k, k <= ed - rd
        PROVE  buf'[(rd + k - 1) % INPUT_BUF] = buf[(rd + k - 1) % INPUT_BUF]
    <3>1. rd + k - 1 \in Nat /\ rd <= rd + k - 1 /\ rd + k - 1 < ed
      BY <2>5, ConsoleIs
    <3>. QED
      BY <1>2, <3>1
  <2>0. wr - rd \in Nat /\ ed - wr \in Nat /\ rd \in Nat /\ wr \in Nat /\ ed \in Nat
    BY ConsoleIs
  <2> HIDE DEF new, old, line
  <2>6. CASE wr' = wr /\ owed' = owed
    <3>1. ASSUME NEW k \in 1 .. wr - rd PROVE new[k] = old[k]
      <4>1. k \in Int /\ 1 <= k /\ k <= ed - rd
        BY ConsoleIs
      <4>. QED
        BY <2>1, <2>2, <2>5, <2>6, <4>1
    <3>2. new = old
      BY <2>1, <2>2, <2>6, <3>1, SeqEqual
    <3>. QED
      BY <2>4, <2>6, <3>2 DEF new
  <2>7. CASE wr' = ed + 1 /\ owed' = owed \o Append(Console!Between(wr, ed), c)
    <3> DEFINE more == Append(line, c)
               all == old \o more
    <3>1. /\ more \in Seq(Console!Chars) /\ Len(more) = ed - wr + 1 /\ more[ed - wr + 1] = c
          /\ \A k \in 1 .. ed - wr : more[k] = line[k]
      BY <2>3, ConsoleIs
    <3> HIDE DEF more
    <3>2. /\ all \in Seq(Console!Chars) /\ Len(all) = wr' - rd
          /\ \A k \in 1 .. wr - rd : all[k] = old[k]
          /\ \A k \in 1 .. ed - wr + 1 : all[(wr - rd) + k] = more[k]
      <4>1. /\ all \in Seq(Console!Chars) /\ Len(all) = Len(old) + Len(more)
            /\ \A k \in 1 .. Len(old) : all[k] = old[k]
            /\ \A k \in 1 .. Len(more) : all[Len(old) + k] = more[k]
        BY <2>2, <3>1
      <4>2. Len(old) + Len(more) = wr' - rd
        <5>1. Len(old) = wr - rd /\ Len(more) = ed - wr + 1 /\ wr' = ed + 1
          BY <2>2, <2>7, <3>1
        <5>2. (wr - rd) + (ed - wr + 1) = (ed + 1) - rd
          BY <2>0
        <5>3. Len(old) + Len(more) = (wr - rd) + (ed - wr + 1)
          BY <5>1, Zenon
        <5>4. wr' - rd = (ed + 1) - rd
          BY <5>1, Zenon
        <5>5. QED
          BY <5>2, <5>3, <5>4, Zenon
      <4>. QED
        BY <2>2, <3>1, <4>1, <4>2
    <3> HIDE DEF all
    <3>3. ASSUME NEW k \in 1 .. wr' - rd PROVE all[k] = buf'[(rd + k - 1) % INPUT_BUF]
      <4>0. k \in Nat /\ 1 <= k /\ k <= ed - rd + 1
        BY <2>7, ConsoleIs
      <4>1. CASE k <= wr - rd
        <5>1. k \in 1 .. wr - rd /\ all[k] = old[k]
          BY <2>0, <3>2, <4>0, <4>1
        <5>2. k <= ed - rd
          BY <4>1, ConsoleIs
        <5>. QED
          BY <2>2, <2>5, <5>1, <5>2
      <4>2. CASE k > wr - rd /\ k <= ed - rd
        <5> DEFINE m == k - (wr - rd)
        <5>0. m \in 1 .. ed - wr /\ m \in 1 .. ed - wr + 1 /\ (wr - rd) + m = k
          BY <2>0, <4>0, <4>2
        <5>1. m \in 1 .. ed - wr /\ all[k] = more[m]
          BY <3>2, <5>0
        <5>2. wr + m - 1 = rd + k - 1
          BY ConsoleIs
        <5>3. all[k] = buf[(wr + m - 1) % INPUT_BUF]
          BY <2>3, <3>1, <5>1
        <5>. QED
          BY <2>5, <4>2, <5>2, <5>3
      <4>3. CASE k > ed - rd
        <5>1. k = ed - rd + 1 /\ rd + k - 1 = ed
          BY <4>0, <4>3, ConsoleIs
        <5>2. all[k] = more[ed - wr + 1]
          <6>1. ed - wr + 1 \in 1 .. ed - wr + 1 /\ (wr - rd) + (ed - wr + 1) = k
            BY <2>0, <5>1
          <6>. QED
            BY <3>2, <6>1
        <5>. QED
          BY <1>2, <3>1, <5>1, <5>2
      <4>. QED
        BY <2>0, <4>0, <4>1, <4>2, <4>3
    <3>4. new = all
      BY <2>1, <3>2, <3>3, SeqEqual
    <3>. QED
      BY <2>4, <2>7, <3>4 DEF new, all, more, line
  <2>. QED
    BY <1>1, <2>6, <2>7
<1>8. \A p \in Readers : cpc'[p] = "asleep" => rd' = wr'
  BY <1>1, <1>3, ConsoleIs
<1>. QED
  BY <1>4, <1>5, <1>6, <1>7, <1>8, <1>1 DEF ConsoleIInv, Console!Inv

\* Editing moves the end of the line, not before the last one finished.
LEMMA EditKeeps ==
  ASSUME Console!ConsoleAssumption, ConsoleIInv, ed' \in wr .. ed,
         UNCHANGED <<buf, rd, wr, clock, cpc, owed>>
  PROVE  ConsoleIInv'
<1>1. ed' \in Nat /\ wr <= ed' /\ ed' <= ed
  BY ConsoleIs
<1>2. Console!Between(rd, wr)' = Console!Between(rd, wr)
  BY DEF Console!Between
<1>. QED
  BY <1>1, <1>2, ConsoleIs DEF ConsoleIInv, ConsoleTypes, Console!Inv, Console!TypeOK

\* Back to the end of the line before: there is such a place.
LEMMA KillLineMoves ==
  ASSUME Console!ConsoleAssumption, ConsoleIInv, Console!KillLine
  PROVE  ed' \in wr .. ed
<1> DEFINE NoLine(x) == \A k \in x .. ed - 1 : buf[k % INPUT_BUF] # "NL"
           T == {x \in wr .. ed : NoLine(x)}
<1>1. T \subseteq Nat /\ ed \in T
  BY ConsoleIs
<1>2. PICK e \in T : \A x \in T : e <= x
  BY <1>1, LeastNumber
<1>3. e \in wr .. ed /\ \A x \in wr .. ed : NoLine(x) => e <= x
  BY <1>2
<1>. QED
  BY <1>3 DEF Console!KillLine

\* A reader takes a character that is owed.
LEMMA TakesOne ==
  ASSUME Console!ConsoleAssumption, ConsoleIInv, rd # wr
  PROVE  Tail(owed) = Console!Between(rd + 1, wr) /\ rd + 1 <= wr
<1>1. rd + 1 <= wr /\ rd + 1 \in Nat
  BY ConsoleIs
<1> DEFINE old == Console!Between(rd, wr)
           new == Console!Between(rd + 1, wr)
<1>2. /\ old \in Seq(Console!Chars) /\ Len(old) = wr - rd
      /\ \A k \in 1 .. wr - rd : old[k] = buf[(rd + k - 1) % INPUT_BUF]
  BY ConsoleIs, BetweenIs DEF ConsoleIInv
<1>3. /\ new \in Seq(Console!Chars) /\ Len(new) = wr - (rd + 1)
      /\ \A k \in 1 .. wr - (rd + 1) : new[k] = buf[((rd + 1) + k - 1) % INPUT_BUF]
  BY <1>1, ConsoleIs, BetweenIs DEF ConsoleIInv
<1>4. owed = old
  BY ConsoleIs
<1> HIDE DEF old, new
<1>5. /\ Tail(old) \in Seq(Console!Chars) /\ Len(Tail(old)) = wr - (rd + 1)
      /\ \A k \in 1 .. wr - (rd + 1) : Tail(old)[k] = old[k + 1]
  BY <1>1, <1>2, ConsoleIs
<1>6. ASSUME NEW k \in 1 .. wr - (rd + 1) PROVE Tail(old)[k] = new[k]
  <2>1. k + 1 \in 1 .. wr - rd /\ rd + (k + 1) - 1 = (rd + 1) + k - 1
    BY ConsoleIs
  <2>. QED
    BY <1>2, <1>3, <1>5, <2>1
<1>7. Tail(old) = new
  BY <1>3, <1>5, <1>6, SeqEqual
<1>. QED
  BY <1>1, <1>4, <1>7 DEF new

\* A reader with the lock goes on or out, and may have taken a character.
LEMMA ReaderKeeps ==
  ASSUME Console!ConsoleAssumption, ConsoleIInv, NEW p \in Readers, cpc[p] = "loop",
         \/ cpc' = [cpc EXCEPT ![p] = "out"] /\ clock' = None
         \/ cpc' = [cpc EXCEPT ![p] = "asleep"] /\ clock' = None /\ rd' = wr
         \/ cpc' = cpc /\ clock' = clock,
         \/ rd' = rd /\ owed' = owed
         \/ rd # wr /\ rd' = rd + 1 /\ owed' = Tail(owed),
         UNCHANGED <<buf, wr, ed>>
  PROVE  ConsoleIInv'
<1>1. rd' \in Nat /\ rd' <= wr /\ rd <= rd'
  BY ConsoleIs, TakesOne
<1>2. Console!Between(rd, wr)' = Console!Between(rd', wr)
  BY DEF Console!Between
<1>3. owed' = Console!Between(rd', wr)
  BY ConsoleIs, TakesOne
<1>4. cpc' \in [Readers -> {"out", "enter", "loop", "asleep"}]
  BY ConsoleIs
<1>5. clock' \in Readers \cup {None} /\ \A q \in Readers : cpc'[q] = "loop" <=> clock' = q
  BY ConsoleIs
<1>6. \A q \in Readers : cpc'[q] = "asleep" => rd' = wr
  BY ConsoleIs
<1>. QED
  BY <1>1, <1>2, <1>3, <1>4, <1>5, <1>6, ConsoleIs DEF ConsoleIInv, ConsoleTypes, Console!Inv, Console!TypeOK

\* A reader comes, gets the lock or is killed.
LEMMA ReaderComes ==
  ASSUME Console!ConsoleAssumption, ConsoleIInv, NEW p \in Readers,
         \/ /\ cpc[p] \notin {"loop"} /\ clock' = clock
            /\ cpc' = [cpc EXCEPT ![p] = "enter"]
         \/ cpc' = [cpc EXCEPT ![p] = "loop"] /\ clock = None /\ clock' = p
         \/ cpc' = cpc /\ clock' = clock,
         UNCHANGED <<buf, rd, wr, ed, owed>>
  PROVE  ConsoleIInv'
<1>1. Console!Between(rd, wr)' = Console!Between(rd, wr)
  BY DEF Console!Between
<1>2. cpc' \in [Readers -> {"out", "enter", "loop", "asleep"}]
  BY ConsoleIs
<1>3. clock' \in Readers \cup {None} /\ \A q \in Readers : cpc'[q] = "loop" <=> clock' = q
  BY ConsoleIs
<1>4. \A q \in Readers : cpc'[q] = "asleep" => rd = wr
  BY ConsoleIs
<1>. QED
  BY <1>1, <1>2, <1>3, <1>4, ConsoleIs DEF ConsoleIInv, ConsoleTypes, Console!Inv, Console!TypeOK

\* Every step keeps the invariant.
LEMMA ConsoleStep ==
  ASSUME Console!ConsoleAssumption, ConsoleIInv, [Console!Next]_Console!vars
  PROVE  ConsoleIInv'
<1> USE DEF Console!input, Console!reader
<1>1. CASE Console!Type
  BY <1>1, TypeKeeps
<1>2. CASE Console!TypeWhenFull
  BY <1>2, EditKeeps, ConsoleIs DEF Console!TypeWhenFull
<1>3. CASE Console!Backspace
  <2>1. ed' \in wr .. ed /\ UNCHANGED <<buf, rd, wr, clock, cpc, owed>>
    BY <1>3, ConsoleIs DEF Console!Backspace
  <2>. QED
    BY <2>1, EditKeeps
<1>4. CASE Console!KillLine
  <2>1. UNCHANGED <<buf, rd, wr, clock, cpc, owed>>
    BY <1>4 DEF Console!KillLine
  <2>. QED
    BY <1>4, <2>1, KillLineMoves, EditKeeps
<1>5. ASSUME NEW p \in Readers, Console!Read(p) PROVE ConsoleIInv'
  BY <1>5, ReaderComes DEF Console!Read
<1>6. ASSUME NEW p \in Readers, Console!Acquire(p) PROVE ConsoleIInv'
  BY <1>6, ReaderComes DEF Console!Acquire
<1>7. ASSUME NEW p \in Readers, Console!Kill(p) PROVE ConsoleIInv'
  <2>1. /\ clock' = clock /\ UNCHANGED <<buf, rd, wr, ed, owed>>
        /\ cpc' = [cpc EXCEPT ![p] = IF @ = "asleep" THEN "enter" ELSE @]
    BY <1>7 DEF Console!Kill
  <2>2. cpc[p] # "asleep" => cpc' = cpc
    BY <2>1, ConsoleIs
  <2>. QED
    BY <2>1, <2>2, ReaderComes
<1>8. ASSUME NEW p \in Readers, Console!Sleep(p) PROVE ConsoleIInv'
  BY <1>8, ReaderKeeps DEF Console!Sleep
<1>9. ASSUME NEW p \in Readers, Console!GiveUp(p) PROVE ConsoleIInv'
  BY <1>9, ReaderKeeps DEF Console!GiveUp, Console!Out
<1>10. ASSUME NEW p \in Readers, Console!Eof(p) PROVE ConsoleIInv'
  BY <1>10, ReaderKeeps DEF Console!Eof, Console!Out
<1>11. ASSUME NEW p \in Readers, Console!Take(p) PROVE ConsoleIInv'
  BY <1>11, ReaderKeeps DEF Console!Take, Console!Out
<1>12. CASE UNCHANGED Console!vars
  <2>1. ed' \in wr .. ed /\ UNCHANGED <<buf, rd, wr, clock, cpc, owed>>
    BY <1>12, ConsoleIs DEF Console!vars
  <2>. QED
    BY <2>1, EditKeeps
<1>. QED
  BY <1>1, <1>2, <1>3, <1>4, <1>5, <1>6, <1>7, <1>8, <1>9, <1>10, <1>11, <1>12
     DEF Console!Next, Console!Reader

\* What has been entered is read once and in order, whatever is edited after it; the
\* buffer is never full of a line that nobody can read; no reader sleeps on input
\* (consoleintr() and consoleread() in console.c).
THEOREM ConsoleRight ==
  ASSUME Console!ConsoleAssumption
  PROVE  Console!Spec => []Console!Inv
<1>1. Console!Init => ConsoleIInv
  <2> SUFFICES ASSUME Console!Init PROVE ConsoleIInv
    OBVIOUS
  <2>1. ConsoleTypes
    BY DEF Console!Init, ConsoleTypes, Console!Chars
  <2>2. Console!Between(rd, wr) = <<>>
    <3>1. rd = 0 /\ wr = 0
      BY DEF Console!Init
    <3>2. Console!Between(0, 0) \in Seq(Console!Chars) /\ Len(Console!Between(0, 0)) = 0
      BY <2>1, BetweenIs
    <3>. QED
      BY <3>1, <3>2
  <2>3. INPUT_BUF \in Nat /\ INPUT_BUF > 0 /\ None \notin Readers
    BY DEF Console!ConsoleAssumption
  <2>. QED
    BY <2>1, <2>2, <2>3 DEF Console!Init, ConsoleIInv, Console!Inv, Console!TypeOK
<1>2. ConsoleIInv /\ [Console!Next]_Console!vars => ConsoleIInv'
  BY ConsoleStep
<1>3. ConsoleIInv => Console!Inv
  BY DEF ConsoleIInv
<1>. QED
  BY <1>1, <1>2, <1>3, PTL DEF Console!Spec

-----------------------------------------------------------------------------
(* The allocator of the user library *)

CONSTANTS HeapLimit, LeastIncrease, Requests
VARIABLES ptr, size, freep, brk, used, nunits, prevp

Alloc == INSTANCE Umalloc WITH MoreCore <- LeastIncrease

Free == Alloc!Free
Base == Alloc!Base
Heap == Alloc!Heap

HeapTypes ==
  /\ ptr \in [Alloc!Blocks -> Alloc!Blocks] /\ size \in [Alloc!Blocks -> Nat]
  /\ used \in [Heap -> Nat] /\ brk \in 0 .. HeapLimit
  /\ nunits \in Requests \cup {0} /\ prevp \in Alloc!Blocks
  /\ freep \in Alloc!Blocks \cup {Alloc!NoRing}
  /\ size[Base] = 0

\* A block is free or held; what lies in it, lies in no other, and all of the heap does.
OneHolder == \A b \in Heap : size[b] = 0 \/ used[b] = 0

Units(b) == size[b] + used[b]

InTheHeap == \A b \in Heap : Units(b) > 0 => b + Units(b) <= brk + 1

Apart == \A b, c \in Heap : b < c /\ Units(b) > 0 /\ Units(c) > 0 => b + Units(b) <= c

Covered == \A a \in 1 .. brk : \E b \in Heap : b <= a /\ a < b + Units(b)

\* Each free block leads to the next one above, and the last one to Base.
NextAbove ==
  \A b \in Free :
    \/ ptr[b] = Base /\ \A c \in Free : c <= b
    \/ ptr[b] \in Free /\ b < ptr[b] /\ \A c \in Free : c <= b \/ ptr[b] <= c

Joined == \A b \in Free \ {Base} : b + size[b] \notin Free

\* Who looks for memory looks at a free block.
InTheRing ==
  /\ freep = Alloc!NoRing => brk = 0 /\ nunits = 0
  /\ freep # Alloc!NoRing => freep \in Free
  /\ nunits > 0 => freep # Alloc!NoRing /\ prevp \in Free

HeapInv ==
  /\ HeapTypes /\ OneHolder /\ InTheHeap /\ Apart /\ Covered
  /\ NextAbove /\ Joined /\ InTheRing

\* What is known of addresses.
LEMMA FreeAddresses ==
  ASSUME Alloc!HeapAssumption, HeapTypes
  PROVE  /\ Free \subseteq Alloc!Blocks /\ Base \in Free /\ Base = 0
         /\ Alloc!Blocks = Heap \cup {Base} /\ Heap \subseteq Nat \ {0}
         /\ \A b \in Heap : b \in Free <=> size[b] > 0
BY DEF Free, Base, Heap, Alloc!Free, Alloc!Blocks, Alloc!Base, Alloc!Heap, Alloc!HeapAssumption,
       HeapTypes

\* A set of numbers that is not empty and has a bound has a greatest one.
LEMMA GreatestNumber ==
  ASSUME NEW S \in SUBSET Nat, S # {}, NEW n \in Nat, \A s \in S : s <= n
  PROVE  \E s \in S : \A t \in S : t <= s
<1> DEFINE D == {d \in Nat : n - d \in S}
<1>1. \A t \in S : n - t \in D /\ n - (n - t) = t
  OBVIOUS
<1>2. PICK d \in D : \A e \in D : d <= e
  <2>1. D # {} /\ D \in SUBSET Nat
    BY <1>1
  <2>2. QED
    BY <2>1, LeastNumber
<1>3. \A t \in S : t <= n - d
  BY <1>1, <1>2
<1>4. QED
  BY <1>2, <1>3

-----------------------------------------------------------------------------
(* free() and morecore() *)

\* The place of a block in the ring.
LEMMA PlaceFound ==
  ASSUME Alloc!HeapAssumption, HeapTypes, NextAbove, NEW bp \in Heap, size[bp] = 0
  PROVE  LET p == Alloc!Before(bp) IN
         /\ p \in Free /\ p < bp /\ \A c \in Free : c <= p \/ bp < c
         /\ ptr[p] = Base \/ (ptr[p] \in Free /\ bp < ptr[p])
<1> USE FreeAddresses
<1> DEFINE S == {c \in Free : c < bp}
           Here(q) == \/ q < bp /\ bp < ptr[q]
                      \/ ptr[q] <= q /\ (q < bp \/ bp < ptr[q])
<1>1. PICK p \in S : \A c \in S : c <= p
  <2>1. S \in SUBSET Nat
    OBVIOUS
  <2>2. Base \in S /\ bp \in Nat /\ \A c \in S : c <= bp
    OBVIOUS
  <2>3. QED
    BY <2>1, <2>2, GreatestNumber
<1>2. Here(p)
  <2>1. CASE ptr[p] = Base
    BY <2>1
  <2>2. CASE ptr[p] # Base
    <3>1. ptr[p] \in Free /\ p < ptr[p]
      BY <2>2 DEF NextAbove
    <3>2. ptr[p] # bp
      BY <3>1
    <3>3. bp <= ptr[p]
      BY <1>1, <3>1
    <3>4. QED
      BY <3>1, <3>2, <3>3
  <2>3. QED
    BY <2>1, <2>2
<1>3. /\ Alloc!Before(bp) \in Alloc!Free /\ Here(Alloc!Before(bp))
  <2>1. p \in Alloc!Free
    BY DEF Free
  <2>2. \E q \in Alloc!Free : Here(q)
    BY <1>2, <2>1
  <2>3. QED
    BY <2>2 DEF Alloc!Before
<1>4. ASSUME NEW q \in Free, Here(q)
      PROVE  /\ q < bp /\ \A c \in Free : c <= q \/ bp < c
             /\ ptr[q] = Base \/ (ptr[q] \in Free /\ bp < ptr[q])
  <2>1. bp \notin Free /\ bp \in Nat /\ Free \subseteq Nat
    OBVIOUS
  <2>2. CASE ptr[q] = Base /\ \A c \in Free : c <= q
    BY <1>4, <2>1, <2>2
  <2>3. CASE ptr[q] \in Free /\ q < ptr[q] /\ \A c \in Free : c <= q \/ ptr[q] <= c
    <3>1. q \in Nat /\ ptr[q] \in Nat /\ ~(ptr[q] <= q)
      <4>1. q \in Nat
        BY <2>1
      <4>2. ptr[q] \in Nat
        BY <2>1, <2>3
      <4>3. \A x, y \in Nat : x < y => ~(y <= x)
        OBVIOUS
      <4>4. QED
        BY <2>3, <4>1, <4>2, <4>3, Zenon
    <3>2. q < bp /\ bp < ptr[q]
      BY <1>4, <3>1
    <3>3. \A c \in Free : c <= q \/ bp < c
      BY <2>1, <2>3, <3>1, <3>2
    <3>4. QED
      BY <2>3, <3>2, <3>3
  <2>4. QED
    BY <2>2, <2>3 DEF NextAbove
<1>5. QED
  BY <1>3, <1>4 DEF Free

\* A piece of memory that is in no other block becomes free.
LEMMA JoinKeeps ==
  ASSUME Alloc!HeapAssumption, HeapTypes, OneHolder, InTheHeap, Apart, NextAbove, Joined,
         NEW bp \in Heap, NEW n \in Nat \ {0}, size[bp] = 0, Alloc!Join(bp, n),
         used' = [used EXCEPT ![bp] = 0], brk' \in brk .. HeapLimit, bp + n <= brk' + 1,
         \A c \in Heap \ {bp} : Units(c) > 0 => c + Units(c) <= bp \/ bp + n <= c,
         \A a \in 1 .. brk' : \/ bp <= a /\ a < bp + n
                              \/ \E b \in Heap \ {bp} : b <= a /\ a < b + Units(b)
  PROVE  /\ ptr' \in [Alloc!Blocks -> Alloc!Blocks] /\ size' \in [Alloc!Blocks -> Nat]
         /\ size'[Base] = 0 /\ freep' \in Free'
         /\ OneHolder' /\ InTheHeap' /\ Apart' /\ Covered' /\ NextAbove' /\ Joined'
<1> USE FreeAddresses
<1> DEFINE p == Alloc!Before(bp)
           next == ptr[p]
           up == bp + n = next
           down == p + size[p] = bp
           all == IF up THEN n + size[next] ELSE n
           after == IF up THEN ptr[next] ELSE next
           head == IF down THEN p ELSE bp
           total == IF down THEN size[p] + all ELSE all
<1>1. /\ p \in Free /\ p < bp /\ \A c \in Free : c <= p \/ bp < c
      /\ next = Base \/ (next \in Free /\ bp < next)
  BY PlaceFound
<1>2. /\ freep' = p
      /\ size' = [b \in Alloc!Blocks |->
           IF b = p /\ down THEN size[p] + all
           ELSE IF b = bp THEN IF down THEN 0 ELSE all
           ELSE IF b = next /\ up THEN 0 ELSE size[b]]
      /\ ptr' = [b \in Alloc!Blocks |->
           IF b = p THEN IF down THEN after ELSE bp
           ELSE IF b = bp THEN IF down THEN Base ELSE after
           ELSE IF b = next /\ up THEN Base ELSE ptr[b]]
  BY DEF Alloc!Join, Base
<1> HIDE DEF p
<1>3. /\ p \in Nat /\ next \in Alloc!Blocks /\ next \in Nat /\ bp \in Nat /\ n \in Nat
      /\ size[p] \in Nat /\ size[next] \in Nat /\ size[bp] = 0 /\ size[Base] = 0
  BY <1>1 DEF HeapTypes
<1>4. /\ down => p # Base
      /\ up => next # Base /\ next # p /\ next # bp /\ next \in Heap /\ next \in Free
      /\ p # bp
  BY <1>1, <1>3
<1>5. all \in Nat \ {0} /\ total \in Nat \ {0} /\ after \in Alloc!Blocks /\ head \in Heap
  BY <1>1, <1>3, <1>4 DEF HeapTypes
<1>6. /\ ptr' \in [Alloc!Blocks -> Alloc!Blocks] /\ size' \in [Alloc!Blocks -> Nat]
      /\ size'[Base] = 0
  BY <1>1, <1>2, <1>3, <1>4, <1>5 DEF HeapTypes
<1>7. /\ size'[head] = total /\ used'[head] = 0
      /\ down => size'[bp] = 0 /\ used'[bp] = 0
      /\ up => size'[next] = 0 /\ used'[next] = 0
      /\ \A b \in Heap : b # head /\ b # bp /\ (up => b # next) =>
           size'[b] = size[b] /\ used'[b] = used[b]
  BY <1>1, <1>2, <1>3, <1>4, <1>5 DEF HeapTypes, OneHolder
<1>8. /\ head <= bp /\ bp + n <= head + total
      /\ up => head + total = next + size[next]
      /\ ~up => head + total = bp + n
      /\ down => head = p
      /\ bp < head + total
  <2>1. CASE down /\ up
    BY <1>1, <1>3, <2>1
  <2>2. CASE down /\ ~up
    BY <1>1, <1>3, <2>2
  <2>3. CASE ~down
    BY <1>1, <1>3, <2>3
  <2>4. QED
    BY <2>1, <2>2, <2>3
<1>9. /\ \A b \in Heap : Units(b) \in Nat /\ Units(b) >= size[b]
      /\ \A b \in Free : b # Base => b \in Heap /\ Units(b) > 0
      /\ brk \in Nat /\ brk' \in Nat /\ brk <= brk'
      /\ \A b \in Heap : Units(b)' = size'[b] + used'[b]
      /\ \A b \in Heap : b = head => Units(b)' = total
  <2>1. \A b \in Heap : Units(b) \in Nat /\ Units(b) >= size[b] /\ size[b] \in Nat
    BY DEF HeapTypes, Units
  <2>2. \A b \in Free : b # Base => b \in Heap /\ Units(b) > 0
    BY <2>1
  <2>3. brk \in Nat /\ brk' \in Nat /\ brk <= brk'
    BY DEF HeapTypes, Alloc!HeapAssumption
  <2>4. \A b \in Heap : Units(b)' = size'[b] + used'[b]
    BY DEF Units
  <2>5. QED
    BY <1>5, <1>7, <2>1, <2>2, <2>3, <2>4
<1>10. head + total <= brk' + 1
  <2>1. up => next + Units(next) <= brk + 1
    BY <1>4, <1>9 DEF InTheHeap
  <2>2. up => Units(next) \in Nat /\ Units(next) >= size[next]
    BY <1>4, <1>9
  <2>3. QED
    BY <1>3, <1>4, <1>8, <1>9, <2>1, <2>2
<1>11. ASSUME NEW c \in Heap, c # head, Units(c)' > 0
       PROVE  /\ c # bp /\ (up => c # next) /\ Units(c)' = Units(c)
              /\ c + Units(c) <= head \/ head + total <= c
  <2>1. c # bp /\ (up => c # next) /\ Units(c)' = Units(c)
    BY <1>4, <1>7, <1>9, <1>11 DEF Units
  <2>2. CASE c + Units(c) <= bp
    <3>1. CASE down
      <4>1. p \in Heap /\ Units(p) > 0 /\ p # c
        BY <1>1, <1>4, <1>8, <1>9, <1>11, <3>1
      <4>2. c < p => c + Units(c) <= p
        BY <1>11, <2>1, <4>1 DEF Apart
      <4>3. p < c => p + Units(p) <= c
        BY <1>11, <2>1, <4>1 DEF Apart
      <4>4. Units(p) >= size[p] /\ Units(p) \in Nat /\ Units(c) \in Nat /\ c \in Nat
        BY <1>9, <4>1
      <4>5. QED
        BY <1>3, <1>8, <1>11, <2>1, <2>2, <3>1, <4>1, <4>2, <4>3, <4>4
    <3>2. CASE ~down
      BY <2>1, <2>2, <3>2
    <3>3. QED
      BY <3>1, <3>2
  <2>3. CASE bp + n <= c
    <3>1. CASE up
      <4>1. next < c => next + Units(next) <= c
        BY <1>4, <1>9, <1>11, <2>1, <3>1 DEF Apart
      <4>2. Units(next) >= size[next] /\ Units(next) \in Nat /\ c \in Nat
        BY <1>4, <1>9, <3>1
      <4>3. QED
        BY <1>3, <1>8, <2>1, <2>3, <3>1, <4>1, <4>2
    <3>2. CASE ~up
      BY <1>8, <2>1, <2>3, <3>2
    <3>3. QED
      BY <3>1, <3>2
  <2>4. QED
    BY <1>11, <2>1, <2>2, <2>3
<1>12. OneHolder'
  BY <1>5, <1>7 DEF OneHolder
<1>13. InTheHeap'
  <2>1. SUFFICES ASSUME NEW b \in Heap, Units(b)' > 0 PROVE b + Units(b)' <= brk' + 1
    BY DEF InTheHeap, Heap
  <2>2. CASE b = head
    BY <1>9, <1>10, <2>2
  <2>3. CASE b # head
    <3>1. Units(b)' = Units(b)
      BY <1>11, <2>1, <2>3
    <3>2. b + Units(b) <= brk + 1
      BY <2>1, <3>1 DEF InTheHeap
    <3>3. QED
      BY <1>9, <3>1, <3>2
  <2>4. QED
    BY <2>2, <2>3
<1>14. Apart'
  <2>1. SUFFICES ASSUME NEW b \in Heap, NEW c \in Heap, b < c, Units(b)' > 0, Units(c)' > 0
                 PROVE  b + Units(b)' <= c
    BY DEF Apart, Heap
  <2>2. CASE b = head
    BY <1>5, <1>9, <1>11, <2>1, <2>2
  <2>3. CASE c = head
    BY <1>5, <1>9, <1>11, <2>1, <2>3
  <2>4. CASE b # head /\ c # head
    BY <1>11, <2>1, <2>4 DEF Apart
  <2>5. QED
    BY <2>2, <2>3, <2>4
<1>15. Covered'
  <2>1. SUFFICES ASSUME NEW a \in 1 .. brk' PROVE \E b \in Heap : b <= a /\ a < b + Units(b)'
    BY DEF Covered, Heap
  <2>2. CASE head <= a /\ a < head + total
    BY <1>5, <1>9, <2>2
  <2>3. CASE ~(head <= a /\ a < head + total)
    <3>1. ~(bp <= a /\ a < bp + n)
      BY <1>3, <1>5, <1>8, <2>3
    <3>2. PICK b \in Heap \ {bp} : b <= a /\ a < b + Units(b)
      BY <3>1
    <3>3. b # head
      <4>1. SUFFICES ASSUME down, b = p PROVE FALSE
        BY <3>2
      <4>2. Units(p) = size[p]
        BY <1>1, <1>4, <1>9, <3>2, <4>1 DEF OneHolder, Units, HeapTypes
      <4>3. a < bp /\ p <= a
        BY <1>3, <3>2, <4>1, <4>2
      <4>4. QED
        BY <1>3, <1>5, <1>8, <2>3, <4>1, <4>3
    <3>4. up => b # next
      <4>1. SUFFICES ASSUME up, b = next PROVE FALSE
        OBVIOUS
      <4>2. Units(next) = size[next]
        BY <1>4, <1>9, <3>2, <4>1 DEF OneHolder, Units, HeapTypes
      <4>3. a < next + size[next] /\ next <= a
        BY <1>3, <3>2, <4>1, <4>2
      <4>4. QED
        BY <1>3, <1>5, <1>8, <2>3, <4>1, <4>3
    <3>5. Units(b)' = Units(b)
      BY <1>7, <1>9, <3>2, <3>3, <3>4 DEF Units
    <3>6. QED
      BY <3>2, <3>5
  <2>4. QED
    BY <2>2, <2>3
<1>16. \A b : b \in Free' <=> b = head \/ (b \in Free /\ (up => b # next))
  <2>1. \A b : b \in Free <=> b = Base \/ (b \in Heap /\ size[b] > 0)
    BY DEF Free, Alloc!Free, Base
  <2>2. \A b : b \in Free' <=> b = Base \/ (b \in Heap /\ size'[b] > 0)
    BY DEF Free, Alloc!Free, Base
  <2>3. head \in Heap /\ head # Base /\ size'[head] > 0
    BY <1>5, <1>7
  <2>4. up => next # Base /\ ~(size'[next] > 0)
    BY <1>4, <1>7
  <2>5. bp \notin Free /\ (bp # head => ~(size'[bp] > 0))
    BY <1>7
  <2>6. \A b \in Heap : b # head /\ b # bp /\ (up => b # next) => size'[b] = size[b]
    BY <1>7
  <2>7. up => next # head
    BY <1>4
  <2>8. QED
    BY <2>1, <2>2, <2>3, <2>4, <2>5, <2>6, <2>7
<1>17. /\ ptr'[head] = after
       /\ ~down => ptr'[p] = bp
       /\ \A b \in Free : b # head /\ b # p /\ (up => b # next) => ptr'[b] = ptr[b]
  <2>1. bp \notin Free /\ bp \in Alloc!Blocks /\ Free \subseteq Alloc!Blocks /\ p \in Alloc!Blocks
    BY <1>1
  <2>2. CASE down
    <3>1. ptr' = [b \in Alloc!Blocks |->
            IF b = p THEN after ELSE IF b = bp THEN Base
            ELSE IF b = next /\ up THEN Base ELSE ptr[b]]
      BY <1>2, <2>2
    <3>2. QED
      BY <2>1, <2>2, <3>1
  <2>3. CASE ~down
    <3>1. ptr' = [b \in Alloc!Blocks |->
            IF b = p THEN bp ELSE IF b = bp THEN after
            ELSE IF b = next /\ up THEN Base ELSE ptr[b]]
      BY <1>2, <2>3
    <3>2. QED
      BY <1>4, <2>1, <2>3, <3>1
  <2>4. QED
    BY <2>2, <2>3
<1>18. \/ after = Base /\ \A c \in Free : c <= head \/ (up /\ c = next)
       \/ /\ after \in Free /\ head < after /\ (up => after # next)
          /\ \A c \in Free : c <= head \/ (up /\ c = next) \/ after <= c
  <2>1. \A c \in Free : c \in Nat /\ (c <= p \/ next = Base \/ next <= c)
    BY <1>1 DEF NextAbove
  <2>2. p <= head
    BY <1>1, <1>3, <1>8
  <2>3. CASE up
    <3>1. \/ after = Base /\ \A c \in Free : c <= next
          \/ after \in Free /\ next < after /\ \A c \in Free : c <= next \/ after <= c
      BY <1>4, <2>3 DEF NextAbove
    <3>2. bp < next /\ head < next
      BY <1>1, <1>3, <1>4, <1>8, <2>3
    <3>3. \A c \in Free : c <= next => c <= head \/ c = next
      BY <1>3, <1>4, <1>5, <2>1, <2>2, <2>3
    <3>4. after \in Nat
      BY <1>5
    <3>5. QED
      BY <1>3, <1>5, <2>3, <3>1, <3>2, <3>3, <3>4
  <2>4. CASE ~up
    <3>1. CASE next = Base
      <4>1. \A c \in Free : c <= p
        BY <1>1, <1>3, <3>1 DEF NextAbove
      <4>2. QED
        BY <1>3, <1>5, <2>1, <2>2, <2>4, <3>1, <4>1
    <3>2. CASE next # Base
      <4>1. next \in Free /\ head < next
        BY <1>1, <1>3, <1>5, <1>8, <3>2
      <4>2. QED
        BY <1>3, <1>5, <2>1, <2>2, <2>4, <3>2, <4>1
    <3>3. QED
      BY <3>1, <3>2
  <2>5. QED
    BY <2>3, <2>4
<1>19. \A b : b \in Free' => b \in Nat
  BY <1>5, <1>16
<1>20. NextAbove'
  <2>1. SUFFICES ASSUME NEW b \in Free'
                 PROVE  \/ ptr'[b] = Base /\ \A c \in Free' : c <= b
                        \/ ptr'[b] \in Free' /\ b < ptr'[b] /\ \A c \in Free' : c <= b \/ ptr'[b] <= c
    BY DEF NextAbove, Base
  <2>2. CASE b = head
    BY <1>5, <1>16, <1>17, <1>18, <1>19, <2>2
  <2>3. CASE b # head /\ b = p
    <3>1. ~down /\ head = bp /\ ptr'[b] = bp
      BY <1>8, <1>17, <2>3
    <3>2. \A c \in Free' : c <= p \/ bp <= c
      <4>1. TAKE c \in Free'
      <4>2. c = bp \/ c \in Free
        BY <1>16, <3>1
      <4>3. c \in Nat
        BY <1>19
      <4>4. QED
        BY <1>1, <1>3, <4>2, <4>3
    <3>3. QED
      BY <1>1, <1>16, <2>3, <3>1, <3>2
  <2>4. CASE b # head /\ b # p
    <3>1. b \in Free /\ (up => b # next) /\ ptr'[b] = ptr[b] /\ b \in Nat
      BY <1>16, <1>17, <1>19, <2>4
    <3>2. b < p \/ bp < b
      BY <1>1, <1>3, <2>4, <3>1
    <3>3. CASE bp < b
      <4>1. head < b
        BY <1>3, <1>5, <1>8, <3>1, <3>3
      <4>2. up => next < b
        BY <1>1, <1>3, <1>4, <3>1, <3>3 DEF NextAbove
      <4>3. \A c \in Free' : c = head \/ c \in Free
        BY <1>16
      <4>4. ptr[b] \in Free /\ b < ptr[b] => ptr[b] \in Free'
        BY <1>3, <1>16, <3>1, <4>1, <4>2
      <4>5. QED
        BY <1>5, <3>1, <4>1, <4>3, <4>4 DEF NextAbove
    <3>4. CASE b < p
      <4>1. ptr[b] \in Free /\ b < ptr[b] /\ ptr[b] <= p /\ \A c \in Free : c <= b \/ ptr[b] <= c
        BY <1>1, <1>3, <3>1, <3>4 DEF NextAbove
      <4>2. ptr[b] \in Free' /\ ptr[b] \in Nat
        <5>1. ptr[b] \in Nat
          BY <4>1
        <5>2. up => ptr[b] # next
          BY <1>1, <1>3, <1>4, <4>1, <5>1
        <5>3. QED
          BY <1>16, <4>1, <5>1, <5>2
      <4>3. p <= head
        BY <1>1, <1>3, <1>8
      <4>4. \A c \in Free' : c = head \/ c \in Free
        BY <1>16
      <4>5. QED
        BY <1>3, <1>5, <3>1, <4>1, <4>2, <4>3, <4>4
    <3>5. QED
      BY <3>2, <3>3, <3>4
  <2>5. QED
    BY <2>2, <2>3, <2>4
<1>21. Joined'
  <2>1. SUFFICES ASSUME NEW b \in Free', b # Base PROVE b + size'[b] \notin Free'
    BY DEF Joined, Base
  <2>2. CASE b = head
    <3>1. b + size'[b] = head + total
      BY <1>7, <2>2
    <3>2. head + total \notin Free
      <4>1. CASE up
        BY <1>4, <1>8, <4>1 DEF Joined
      <4>2. CASE ~up
        <5>1. SUFFICES ASSUME bp + n \in Free PROVE FALSE
          BY <1>8, <4>2
        <5>2. next \in Free /\ bp < next /\ next <= bp + n
          BY <1>1, <1>3, <5>1 DEF NextAbove
        <5>3. next \in Heap \ {bp} /\ Units(next) > 0 /\ Units(next) \in Nat
          BY <1>1, <1>3, <1>9, <5>2
        <5>4. next + Units(next) <= bp \/ bp + n <= next
          BY <5>3
        <5>5. QED
          BY <1>3, <4>2, <5>2, <5>3, <5>4
      <4>3. QED
        BY <4>1, <4>2
    <3>3. head + total # head
      BY <1>5
    <3>4. QED
      BY <1>16, <3>1, <3>2, <3>3
  <2>3. CASE b # head
    <3>1. b \in Free /\ (up => b # next) /\ b \in Heap /\ b # bp
      BY <1>9, <1>16, <2>1, <2>3
    <3>2. size'[b] = size[b]
      BY <1>7, <2>3, <3>1
    <3>3. b + size[b] \notin Free
      BY <2>1, <3>1 DEF Joined
    <3>4. b + size[b] # head
      <4>1. CASE down
        BY <1>1, <1>8, <3>3, <4>1
      <4>2. CASE ~down
        <5>1. SUFFICES ASSUME b + size[b] = bp PROVE FALSE
          BY <4>2
        <5>2. b # p /\ b < p /\ p \in Heap /\ Units(p) > 0
          BY <1>1, <1>3, <1>9, <3>1, <4>2, <5>1 DEF HeapTypes
        <5>3. b + Units(b) <= p /\ Units(b) >= size[b] /\ Units(b) \in Nat /\ size[b] \in Nat
          BY <1>9, <3>1, <5>2 DEF Apart, HeapTypes
        <5>4. QED
          BY <1>1, <1>3, <3>1, <5>1, <5>3
      <4>3. QED
        BY <4>1, <4>2
    <3>5. QED
      BY <1>16, <3>2, <3>3, <3>4
  <2>4. QED
    BY <2>2, <2>3
<1>22. freep' \in Free'
  BY <1>1, <1>2, <1>4, <1>8, <1>16
<1>23. QED
  BY <1>6, <1>12, <1>13, <1>14, <1>15, <1>20, <1>21, <1>22

LEMMA FreeBlockKeeps ==
  ASSUME Alloc!HeapAssumption, HeapInv, Alloc!FreeBlock
  PROVE  HeapInv'
<1> USE FreeAddresses DEF HeapInv
<1>1. PICK bp \in Heap :
        /\ nunits = 0 /\ used[bp] > 0 /\ Alloc!Join(bp, used[bp])
        /\ used' = [used EXCEPT ![bp] = 0] /\ UNCHANGED <<brk, nunits, prevp>>
  BY DEF Alloc!FreeBlock, Heap
<1> DEFINE n == used[bp]
<1>2. n \in Nat \ {0} /\ size[bp] = 0 /\ Units(bp) = n
  BY <1>1 DEF HeapTypes, OneHolder, Units
<1>3. /\ brk \in Nat /\ brk' = brk /\ brk <= HeapLimit /\ HeapLimit \in Nat
      /\ bp \in Nat \ {0} /\ bp + n <= brk + 1
  BY <1>1, <1>2 DEF HeapTypes, InTheHeap, Alloc!HeapAssumption
<1>4. \A c \in Heap : Units(c) \in Nat /\ c \in Nat
  BY DEF HeapTypes, Units
<1>5. \A c \in Heap \ {bp} : Units(c) > 0 => c + Units(c) <= bp \/ bp + n <= c
  BY <1>2, <1>3, <1>4 DEF Apart
<1>6. \A a \in 1 .. brk' : \/ bp <= a /\ a < bp + n
                           \/ \E b \in Heap \ {bp} : b <= a /\ a < b + Units(b)
  BY <1>2, <1>3 DEF Covered
<1>7. brk' \in brk .. HeapLimit
  BY <1>3
<1>8. /\ ptr' \in [Alloc!Blocks -> Alloc!Blocks] /\ size' \in [Alloc!Blocks -> Nat]
      /\ size'[Base] = 0 /\ freep' \in Free'
      /\ OneHolder' /\ InTheHeap' /\ Apart' /\ Covered' /\ NextAbove' /\ Joined'
  <2> HIDE DEF n
  <2> QED
    BY <1>1, <1>2, <1>3, <1>5, <1>6, <1>7, JoinKeeps DEF n
<1>9. freep' \in Alloc!Blocks /\ freep' # Alloc!NoRing
  BY <1>3, <1>8 DEF Free, Alloc!Free, Alloc!Blocks, Alloc!Heap, Alloc!Base, Alloc!NoRing
<1>10. HeapTypes'
  BY <1>1, <1>7, <1>8, <1>9 DEF HeapTypes, Heap, Base
<1>11. InTheRing'
  BY <1>1, <1>8, <1>9 DEF InTheRing
<1>12. QED
  BY <1>8, <1>10, <1>11

LEMMA MoreMemoryKeeps ==
  ASSUME Alloc!HeapAssumption, HeapInv, Alloc!MoreMemory
  PROVE  HeapInv'
<1> USE FreeAddresses DEF HeapInv
<1> DEFINE nu == IF nunits < LeastIncrease THEN LeastIncrease ELSE nunits
           bp == brk + 1
<1>1. /\ nunits \in Nat \ {0} /\ nu \in Nat \ {0} /\ brk \in Nat /\ HeapLimit \in Nat
  BY DEF Alloc!MoreMemory, HeapTypes, Alloc!HeapAssumption
<1>2. CASE brk + nu <= HeapLimit
  <2>1. /\ Alloc!Join(bp, nu) /\ brk' = brk + nu /\ prevp' = freep'
        /\ used' = used /\ nunits' = nunits
    BY <1>2 DEF Alloc!MoreMemory
  <2>2. bp \in Heap /\ bp \in Nat
    BY <1>1, <1>2 DEF Heap, Alloc!Heap
  <2>3. \A c \in Heap : Units(c) \in Nat /\ c \in Nat /\ (Units(c) > 0 => c + Units(c) <= bp)
    BY DEF HeapTypes, Units, InTheHeap
  <2>4. size[bp] = 0 /\ used[bp] = 0
    BY <2>2, <2>3 DEF HeapTypes, Units
  <2>5. used' = [used EXCEPT ![bp] = 0]
    BY <2>1, <2>2, <2>4 DEF HeapTypes
  <2>6. \A c \in Heap \ {bp} : Units(c) > 0 => c + Units(c) <= bp \/ bp + nu <= c
    BY <2>3
  <2>7. brk' \in brk .. HeapLimit /\ bp + nu <= brk' + 1
    BY <1>1, <1>2, <2>1
  <2>8. \A a \in 1 .. brk' : \/ bp <= a /\ a < bp + nu
                             \/ \E b \in Heap \ {bp} : b <= a /\ a < b + Units(b)
    <3>1. TAKE a \in 1 .. brk'
    <3>2. CASE a <= brk
      <4>1. PICK b \in Heap : b <= a /\ a < b + Units(b)
        BY <1>1, <2>1, <3>2 DEF Covered
      <4>2. b # bp
        BY <1>1, <3>2, <4>1
      <4>3. QED
        BY <4>1, <4>2
    <3>3. CASE a > brk
      BY <1>1, <2>1, <3>3
    <3>4. QED
      BY <1>1, <2>1, <3>2, <3>3
  <2>9. /\ ptr' \in [Alloc!Blocks -> Alloc!Blocks] /\ size' \in [Alloc!Blocks -> Nat]
        /\ size'[Base] = 0 /\ freep' \in Free'
        /\ OneHolder' /\ InTheHeap' /\ Apart' /\ Covered' /\ NextAbove' /\ Joined'
    <3> HIDE DEF nu, bp
    <3> QED
      BY <1>1, <2>1, <2>2, <2>4, <2>5, <2>6, <2>7, <2>8, JoinKeeps
  <2>10. freep' \in Alloc!Blocks /\ freep' # Alloc!NoRing
    BY <1>1, <2>9 DEF Free, Alloc!Free, Alloc!Blocks, Alloc!Heap, Alloc!Base, Alloc!NoRing
  <2>11. HeapTypes'
    BY <1>1, <2>1, <2>7, <2>9, <2>10 DEF HeapTypes, Heap, Base
  <2>12. InTheRing'
    BY <2>1, <2>9, <2>10 DEF InTheRing
  <2>13. QED
    BY <2>9, <2>11, <2>12
<1>3. CASE ~(brk + nu <= HeapLimit)
  <2>1. nunits' = 0 /\ prevp' = Base /\ UNCHANGED <<ptr, size, freep, brk, used>>
    BY <1>3 DEF Alloc!MoreMemory, Base
  <2>2. HeapTypes'
    BY <2>1 DEF HeapTypes
  <2>3. QED
    BY <2>1, <2>2 DEF OneHolder, InTheHeap, Apart, Covered, NextAbove, Joined, InTheRing, Units, Free,
                      Alloc!Free, Heap, Base
<1>4. QED
  BY <1>2, <1>3

-----------------------------------------------------------------------------
(* malloc() *)

LEMMA CallKeeps ==
  ASSUME Alloc!HeapAssumption, HeapInv, Alloc!Call
  PROVE  HeapInv'
<1> USE FreeAddresses DEF HeapInv, Alloc!Call
<1>1. HeapTypes'
  BY DEF HeapTypes, Base
<1>2. InTheRing'
  BY DEF InTheRing, HeapTypes, Free, Alloc!Free, Base, Alloc!NoRing, Alloc!HeapAssumption
<1>3. QED
  BY <1>1, <1>2 DEF OneHolder, InTheHeap, Apart, Covered, NextAbove, Joined, Units, Free,
                    Alloc!Free, Heap, Base

LEMMA LookOnKeeps ==
  ASSUME Alloc!HeapAssumption, HeapInv, Alloc!LookOn
  PROVE  HeapInv'
<1> USE FreeAddresses DEF HeapInv, Alloc!LookOn
<1>1. ptr[prevp] \in Free
  BY DEF InTheRing, NextAbove
<1>2. HeapTypes'
  BY <1>1 DEF HeapTypes
<1>3. InTheRing'
  BY <1>1 DEF InTheRing, Free, Alloc!Free
<1>4. QED
  BY <1>2, <1>3 DEF OneHolder, InTheHeap, Apart, Covered, NextAbove, Joined, Units, Free,
                    Alloc!Free, Heap, Base

LEMMA MallocKeeps ==
  ASSUME Alloc!HeapAssumption, HeapInv, Alloc!Malloc
  PROVE  HeapInv'
<1> USE FreeAddresses DEF HeapInv
<1> DEFINE n == nunits
           p == ptr[prevp]
<1>1. /\ n \in Nat \ {0} /\ size[p] >= n /\ Alloc!Take(prevp, n)
      /\ freep' = prevp /\ nunits' = 0 /\ prevp' = Base /\ brk' = brk
  BY DEF Alloc!Malloc, Alloc!Fits, HeapTypes, Alloc!HeapAssumption, Base
<1>2. /\ prevp \in Free /\ p \in Free /\ prevp < p /\ p \in Heap
      /\ \A c \in Free : c <= prevp \/ p <= c
  BY <1>1 DEF InTheRing, NextAbove, HeapTypes
<1>3. /\ p \in Nat \ {0} /\ prevp \in Nat /\ size[p] \in Nat /\ used[p] = 0 /\ Units(p) = size[p]
      /\ p + size[p] <= brk + 1 /\ brk \in Nat /\ brk <= HeapLimit /\ HeapLimit \in Nat
      /\ \A c \in Heap : Units(c) \in Nat
  BY <1>1, <1>2 DEF HeapTypes, OneHolder, InTheHeap, Units, Alloc!HeapAssumption
<1> HIDE DEF n, p
<1>4. CASE size[p] = n
  <2>1. /\ ptr' = [ptr EXCEPT ![prevp] = ptr[p], ![p] = Base]
        /\ size' = [size EXCEPT ![p] = 0] /\ used' = [used EXCEPT ![p] = n]
    BY <1>1, <1>4 DEF Alloc!Take, p, Base
  <2>2. HeapTypes'
    BY <1>1, <1>2, <2>1 DEF HeapTypes, Heap, Base
  <2>3. \A b \in Heap : Units(b)' = Units(b)
    BY <1>2, <1>3, <1>4, <2>1 DEF HeapTypes, Units
  <2>4. OneHolder' /\ InTheHeap' /\ Apart' /\ Covered'
    BY <1>1, <1>2, <1>3, <2>1, <2>3 DEF HeapTypes, OneHolder, InTheHeap, Apart, Covered, Heap
  <2>5. Free' = Free \ {p}
    BY <1>2, <1>3, <2>1 DEF HeapTypes, Free, Alloc!Free, Heap, Base
  <2>6. /\ ptr'[prevp] = ptr[p]
        /\ \A b \in Free : b # prevp /\ b # p => ptr'[b] = ptr[b]
    BY <1>2, <1>3, <2>1 DEF HeapTypes
  <2>7. NextAbove'
    <3>1. SUFFICES ASSUME NEW b \in Free'
                   PROVE  \/ ptr'[b] = Base /\ \A c \in Free' : c <= b
                          \/ ptr'[b] \in Free' /\ b < ptr'[b] /\ \A c \in Free' : c <= b \/ ptr'[b] <= c
      BY DEF NextAbove, Base
    <3>2. b \in Free /\ b # p /\ b \in Nat /\ \A c \in Free : c \in Nat
      BY <2>5
    <3>3. CASE b = prevp
      <4>1. \/ ptr[p] = Base /\ \A c \in Free : c <= p
            \/ ptr[p] \in Free /\ p < ptr[p] /\ \A c \in Free : c <= p \/ ptr[p] <= c
        BY <1>2 DEF NextAbove
      <4>2. \A c \in Free \ {p} : c <= p => c <= prevp
        BY <1>2, <1>3, <3>2
      <4>3. QED
        <5>1. CASE ptr[p] = Base /\ \A c \in Free : c <= p
          BY <2>5, <2>6, <3>3, <4>2, <5>1
        <5>2. CASE ptr[p] \in Free /\ p < ptr[p] /\ \A c \in Free : c <= p \/ ptr[p] <= c
          <6>1. ptr[p] \in Nat /\ ptr[p] # p /\ prevp < ptr[p]
            <7>1. ptr[p] \in Nat
              BY <5>2
            <7>2. QED
              BY <1>2, <1>3, <5>2, <7>1
          <6>2. QED
            BY <2>5, <2>6, <3>3, <4>2, <5>2, <6>1
        <5>3. QED
          BY <4>1, <5>1, <5>2
    <3>4. CASE b # prevp
      <4>1. ptr[b] # p
        <5>1. SUFFICES ASSUME ptr[b] = p PROVE FALSE
          OBVIOUS
        <5>2. b < p /\ \A c \in Free : c <= b \/ p <= c
          BY <1>3, <3>2, <5>1 DEF NextAbove
        <5>3. QED
          BY <1>2, <1>3, <3>2, <3>4, <5>2
      <4>2. QED
        BY <2>5, <2>6, <3>2, <3>4, <4>1 DEF NextAbove
    <3>5. QED
      BY <3>3, <3>4
  <2>8. Joined'
    BY <1>2, <2>1, <2>5 DEF Joined, HeapTypes, Base
  <2>9. InTheRing'
    BY <1>1, <1>2, <1>3, <2>2, <2>5 DEF InTheRing, Alloc!NoRing, Alloc!Blocks, HeapTypes,
                                   Alloc!Heap, Alloc!Base
  <2>10. QED
    BY <2>2, <2>4, <2>7, <2>8, <2>9
<1>5. CASE size[p] # n
  <2> DEFINE t == p + size[p] - n
             m == size[p] - n
  <2>1. /\ ptr' = ptr /\ size' = [size EXCEPT ![p] = m] /\ used' = [used EXCEPT ![t] = n]
    BY <1>1, <1>2, <1>5 DEF Alloc!Take, p, HeapTypes
  <2>2. m \in Nat \ {0} /\ t = p + m /\ t \in Nat /\ p < t /\ t + n = p + size[p] /\ t <= brk
    BY <1>1, <1>3, <1>5
  <2>3. t \in Heap
    BY <1>3, <2>2 DEF Heap, Alloc!Heap
  <2> HIDE DEF t, m
  <2>4. Units(t) = 0
    BY <1>1, <1>2, <1>3, <2>2, <2>3 DEF Apart
  <2>5. size[t] = 0 /\ used[t] = 0
    BY <2>3, <2>4 DEF Units, HeapTypes
  <2>6. HeapTypes'
    BY <1>1, <1>2, <1>3, <2>1, <2>2, <2>3 DEF HeapTypes, Heap, Base
  <2>7. /\ \A b \in Heap : b = p => Units(b)' = m /\ used'[b] = 0
        /\ \A b \in Heap : b = t => Units(b)' = n /\ size'[b] = 0
        /\ \A b \in Heap : b # p /\ b # t =>
             Units(b)' = Units(b) /\ used'[b] = used[b] /\ size'[b] = size[b]
    <3>1. \A b \in Heap : Units(b)' = size'[b] + used'[b]
      BY DEF Units
    <3>2. QED
      BY <1>1, <1>2, <1>3, <2>1, <2>2, <2>3, <2>5, <3>1 DEF HeapTypes, Units
  <2>8. OneHolder'
    BY <2>7 DEF OneHolder, Heap
  <2>9. InTheHeap'
    BY <1>1, <1>3, <2>2, <2>7 DEF InTheHeap, Heap
  <2>10. \A b \in Heap : b # p /\ Units(b) > 0 => b # t /\ (b + Units(b) <= p \/ t + n <= b)
    BY <1>1, <1>2, <1>3, <2>2, <2>4 DEF Apart
  <2>11. Apart'
    <3>1. SUFFICES ASSUME NEW b \in Heap, NEW c \in Heap, b < c, Units(b)' > 0, Units(c)' > 0
                   PROVE  b + Units(b)' <= c
      BY DEF Apart, Heap
    <3>2. CASE b = p
      BY <1>1, <1>3, <2>2, <2>7, <2>10, <3>1, <3>2
    <3>3. CASE b = t
      BY <1>1, <1>3, <2>2, <2>7, <2>10, <3>1, <3>3
    <3>4. CASE b # p /\ b # t /\ c \in {p, t}
      BY <1>1, <1>3, <2>2, <2>7, <2>10, <3>1, <3>4
    <3>5. CASE b # p /\ b # t /\ c # p /\ c # t
      BY <2>7, <3>1, <3>5 DEF Apart
    <3>6. QED
      BY <3>2, <3>3, <3>4, <3>5
  <2>12. Covered'
    <3>1. SUFFICES ASSUME NEW a \in 1 .. brk PROVE \E b \in Heap : b <= a /\ a < b + Units(b)'
      BY <1>1 DEF Covered, Heap
    <3>2. PICK b \in Heap : b <= a /\ a < b + Units(b)
      BY DEF Covered
    <3>3. CASE b # p
      <4>1. b # t
        BY <2>4, <3>2, <3>3
      <4>2. QED
        BY <2>7, <3>2, <3>3, <4>1
    <3>4. CASE b = p /\ a < t
      BY <1>2, <2>2, <2>7, <3>2, <3>4
    <3>5. CASE b = p /\ t <= a
      BY <1>1, <1>3, <2>2, <2>3, <2>7, <3>2, <3>5
    <3>6. QED
      BY <2>2, <3>3, <3>4, <3>5
  <2>13. Free' = Free
    BY <1>2, <2>1, <2>2 DEF HeapTypes, Free, Alloc!Free, Heap, Base
  <2>14. NextAbove'
    BY <2>1, <2>13 DEF NextAbove, Base
  <2>15. Joined'
    <3>1. SUFFICES ASSUME NEW b \in Free, b # Base PROVE b + size'[b] \notin Free
      BY <2>13 DEF Joined, Base
    <3>2. CASE b = p
      BY <1>2, <2>1, <2>2, <2>3, <2>5, <3>2 DEF HeapTypes
    <3>3. CASE b # p
      BY <2>1, <3>1, <3>3 DEF Joined, HeapTypes
    <3>4. QED
      BY <3>2, <3>3
  <2>16. InTheRing'
    BY <1>1, <1>2, <1>3, <2>13 DEF InTheRing, Alloc!NoRing, Alloc!Blocks, HeapTypes,
                                   Alloc!Heap, Alloc!Base
  <2>17. QED
    BY <2>6, <2>8, <2>9, <2>11, <2>12, <2>14, <2>15, <2>16
<1>6. QED
  BY <1>4, <1>5

-----------------------------------------------------------------------------
LEMMA HeapStarts == ASSUME Alloc!HeapAssumption, Alloc!Init PROVE HeapInv
<1> USE DEF Alloc!Init
<1>1. HeapTypes
  BY DEF HeapTypes, Heap, Base, Alloc!Blocks, Alloc!Base, Alloc!Heap, Alloc!NoRing, Alloc!HeapAssumption
<1>2. Free = {Base}
  BY DEF Free, Alloc!Free, Base, Alloc!Base, Alloc!Blocks
<1>3. \A b \in Heap : size[b] = 0 /\ Units(b) = 0
  BY <1>1, FreeAddresses DEF Units, Heap
<1>4. OneHolder /\ InTheHeap /\ Apart /\ Covered
  BY <1>3 DEF OneHolder, InTheHeap, Apart, Covered
<1>5. NextAbove /\ Joined
  BY <1>1, <1>2, FreeAddresses DEF NextAbove, Joined, Base
<1>6. InTheRing
  BY DEF InTheRing
<1>7. QED
  BY <1>1, <1>4, <1>5, <1>6 DEF HeapInv

LEMMA HeapStep ==
  ASSUME Alloc!HeapAssumption, HeapInv, [Alloc!Next]_(Alloc!vars)
  PROVE  HeapInv'
<1>1. CASE UNCHANGED Alloc!vars
  BY <1>1 DEF Alloc!vars, HeapInv, HeapTypes, OneHolder, InTheHeap, Apart, Covered, NextAbove,
              Joined, InTheRing, Units, Free, Alloc!Free, Heap, Base
<1>2. CASE Alloc!Next
  BY <1>2, CallKeeps, MallocKeeps, LookOnKeeps, MoreMemoryKeeps, FreeBlockKeeps DEF Alloc!Next
<1>3. QED
  BY <1>1, <1>2

LEMMA SameCount == \A S : Alloc!Cardinality(S) = Cardinality(S)
BY Zenon DEF Cardinality, Alloc!Cardinality

\* Of the two sets of blocks one has one member and the other none.
LEMMA UnitsTiled == ASSUME Alloc!HeapAssumption, HeapInv PROVE Alloc!Tiled
<1> USE FreeAddresses DEF HeapInv
<1>1. \A b \in Heap : size[b] \in Nat /\ used[b] \in Nat /\ b \in Nat /\ brk \in Nat
  BY DEF HeapTypes
<1>2. ASSUME NEW a \in 1 .. brk
      PROVE  Cardinality({b \in Heap : a \in Alloc!Units(b, size[b])})
             + Cardinality({b \in Heap : a \in Alloc!Units(b, used[b])}) = 1
  <2> DEFINE S == {b \in Heap : a \in Alloc!Units(b, size[b])}
             U == {b \in Heap : a \in Alloc!Units(b, used[b])}
  <2>1. \A b \in Heap : /\ b \in S <=> b <= a /\ a < b + size[b]
                        /\ b \in U <=> b <= a /\ a < b + used[b]
    BY <1>1 DEF Alloc!Units
  <2>2. PICK b \in Heap : b <= a /\ a < b + Units(b)
    BY DEF Covered
  <2>3. ASSUME NEW c \in Heap, c <= a, a < c + Units(c) PROVE c = b
    BY <1>1, <2>2, <2>3 DEF Apart, Units
  <2>4. S \cup U \subseteq {b}
    <3>1. \A c \in Heap : c \in S \cup U => c <= a /\ a < c + Units(c)
      BY <1>1, <2>1 DEF Units
    <3>2. QED
      BY <2>3, <3>1
  <2>5. (b \in S /\ b \notin U) \/ (b \in U /\ b \notin S)
    <3> HIDE DEF S, U
    <3>1. CASE size[b] = 0
      BY <1>1, <2>1, <2>2, <3>1 DEF Units
    <3>2. CASE used[b] = 0
      <4>1. Units(b) = size[b] /\ b + used[b] = b
        BY <1>1, <3>2 DEF Units
      <4>2. a < b + size[b] /\ ~(a < b + used[b])
        BY <1>1, <2>2, <4>1
      <4>3. QED
        BY <2>1, <2>2, <4>2
    <3>3. QED
      BY <3>1, <3>2 DEF OneHolder
  <2>6. (S = {b} /\ U = {}) \/ (S = {} /\ U = {b})
    BY <2>4, <2>5
  <2>7. Cardinality({}) = 0 /\ Cardinality({b}) = 1
    BY FS_EmptySet, FS_Singleton
  <2> HIDE DEF S, U
  <2>8. Cardinality(S) + Cardinality(U) = 1
    <3>1. (Cardinality(S) = 1 /\ Cardinality(U) = 0) \/ (Cardinality(S) = 0 /\ Cardinality(U) = 1)
      BY <2>6, <2>7, Zenon
    <3>2. QED
      BY <3>1
  <2>9. QED
    BY <2>8 DEF S, U
<1>3. \A b \in Heap : size[b] + used[b] > 0 => b + size[b] + used[b] <= brk + 1
  BY <1>1 DEF InTheHeap, Units
<1>4. QED
  BY <1>2, <1>3, SameCount DEF Alloc!Tiled, Heap

LEMMA RingInOrder == ASSUME Alloc!HeapAssumption, HeapInv PROVE Alloc!Ring
<1> USE FreeAddresses DEF HeapInv
<1>1. ASSUME NEW b \in Free
      PROVE  LET above == {c \in Free : b < c} IN
             ptr[b] = IF above = {} THEN Base ELSE CHOOSE c \in above : \A d \in above : c <= d
  <2> DEFINE above == {c \in Free : b < c}
             least == CHOOSE c \in above : \A d \in above : c <= d
  <2>1. \A c \in Free : c \in Nat
    OBVIOUS
  <2>2. CASE ptr[b] = Base /\ \A c \in Free : c <= b
    BY <2>1, <2>2
  <2>3. CASE ptr[b] \in Free /\ b < ptr[b] /\ \A c \in Free : c <= b \/ ptr[b] <= c
    <3>1. ptr[b] \in above /\ \A d \in above : ptr[b] <= d
      BY <2>1, <2>3
    <3>2. least \in above /\ \A d \in above : least <= d
      BY <3>1
    <3>3. least = ptr[b]
      <4> HIDE DEF least
      <4>1. least \in Nat /\ ptr[b] \in Nat /\ least <= ptr[b] /\ ptr[b] <= least
        BY <2>1, <3>1, <3>2
      <4>2. QED
        BY <4>1
    <3>4. QED
      BY <3>1, <3>3
  <2>4. QED
    BY <2>2, <2>3 DEF NextAbove
<1>2. freep # Alloc!NoRing => freep \in Free
  BY DEF InTheRing
<1>3. \A b \in Free \ {Base} : b + size[b] \notin Free
  BY DEF Joined
<1>4. QED
  BY <1>1, <1>2, <1>3 DEF Alloc!Ring, Free, Base

\* Whatever is asked for and given back in whatever order, every unit of the heap is in one
\* block, and the ring has the free ones in order, none of them touching the next.
THEOREM HeapIsTiled == ASSUME Alloc!HeapAssumption PROVE Alloc!Spec => []Alloc!Inv
<1>1. Alloc!Init => HeapInv
  BY HeapStarts
<1>2. HeapInv /\ [Alloc!Next]_(Alloc!vars) => HeapInv'
  BY HeapStep
<1>3. HeapInv => Alloc!Inv
  BY UnitsTiled, RingInOrder DEF Alloc!Inv
<1>4. QED
  BY <1>1, <1>2, <1>3, PTL DEF Alloc!Spec

=============================================================================
