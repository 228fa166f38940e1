----------------------------- MODULE BufferCache -----------------------------
(***************************************************************************)
(* The buffer cache of the xv6 kernel (bio.c) over the disk driver with its *)
(* queue and interrupt (ide.c), the sleep-locks of the buffers              *)
(* (sleeplock.c), and the pinning of buffers by log_write() (log.c).        *)
(* What runs under bcache.lock, under a sleep-lock's spin-lock or under     *)
(* idelock is one action.                                                   *)
(***************************************************************************)
EXTENDS Naturals, Sequences, FiniteSets, SequencesExt

CONSTANTS
  DiskBlocks, Threads,
  Asked,         \* the blocks each process asks for
  Written,       \* blocks that processes write; the others are only read
  Changed,       \* what they write; at first a block holds what is named like it
  NBUF,
  MaxPinned,     \* blocks of the transactions in progress, at most
  None

Bufs == 1 .. NBUF
BlockValue == DiskBlocks \cup Changed

ASSUME BufferCacheAssumption ==
  /\ NBUF \in Nat \ {0} /\ MaxPinned \in Nat /\ IsFiniteSet(Threads)
  /\ None \notin DiskBlocks /\ None \notin Threads \cup Bufs
  /\ DiskBlocks # {} /\ Written \subseteq DiskBlocks /\ Asked \in [Threads -> SUBSET DiskBlocks]

VARIABLES
  blockno, refcnt, valid, dirty, data,    \* struct buf
  locked,                                 \* b->lock: its holder
  lru,                                    \* the list from bcache.head, most recently used first
  idequeue,
  medium,                                 \* the disk
  bpc, buf                                 \* processes: position, and the buffer they use

bufs == <<blockno, refcnt, valid, dirty, data>>
cacheVars == <<bufs, locked, lru, idequeue, medium, bpc, buf>>

BufGoto(p, l) == bpc' = [bpc EXCEPT ![p] = l]

CacheInit ==
  /\ blockno = [b \in Bufs |-> None]
  /\ refcnt = [b \in Bufs |-> 0]
  /\ valid = [b \in Bufs |-> FALSE] /\ dirty = [b \in Bufs |-> FALSE]
  /\ medium = [k \in DiskBlocks |-> k]
  /\ data = [b \in Bufs |-> CHOOSE v \in BlockValue : TRUE]
  /\ locked = [b \in Bufs |-> None]
  /\ lru = [n \in Bufs |-> NBUF + 1 - n]
  /\ idequeue = <<>>
  /\ bpc = [p \in Threads |-> "idle"]
  /\ buf = [p \in Threads |-> None]

-----------------------------------------------------------------------------
(* bread() *)

Cached(k) == {b \in Bufs : blockno[b] = k}

\* Mutant: a buffer the log has changed is taken, too.
Unused == {b \in Bufs : refcnt[b] = 0}

Recyclable == {b \in Bufs : refcnt[b] = 0 /\ ~dirty[b]}

\* The least recently used of them.
Victim == lru[CHOOSE n \in DOMAIN lru : lru[n] \in Recyclable
                /\ \A m \in DOMAIN lru : lru[m] \in Recyclable => m <= n]

BgetCached(p, k) ==
  /\ bpc[p] = "idle"
  /\ \E b \in Cached(k) :
       /\ refcnt' = [refcnt EXCEPT ![b] = @ + 1]
       /\ buf' = [buf EXCEPT ![p] = b]
  /\ BufGoto(p, "lock")
  /\ UNCHANGED <<blockno, valid, dirty, data, locked, lru, idequeue, medium>>

\* Without a victim the machine stops ("bget: no buffers").
BgetRecycle(p, k) ==
  /\ bpc[p] = "idle"
  /\ Cached(k) = {} /\ Recyclable # {}
  /\ LET b == Victim IN
       /\ blockno' = [blockno EXCEPT ![b] = k]
       /\ valid' = [valid EXCEPT ![b] = FALSE]
       /\ refcnt' = [refcnt EXCEPT ![b] = 1]
       /\ buf' = [buf EXCEPT ![p] = b]
  /\ BufGoto(p, "lock")
  /\ UNCHANGED <<dirty, data, locked, lru, idequeue, medium>>

\* Then the sleep-lock; a buffer that is not valid is read from disk.
AcquireSleep(p) ==
  /\ bpc[p] = "lock"
  /\ IF locked[buf[p]] # None
     THEN BufGoto(p, "asleep") /\ UNCHANGED locked
     ELSE /\ locked' = [locked EXCEPT ![buf[p]] = p]
          /\ BufGoto(p, IF valid[buf[p]] THEN "use" ELSE "iderw")
  /\ UNCHANGED <<bufs, lru, idequeue, medium, buf>>

-----------------------------------------------------------------------------
(* The disk *)

\* iderw(): b is queued, and its process sleeps on it.
Iderw(p) ==
  /\ bpc[p] = "iderw"
  /\ idequeue' = Append(idequeue, buf[p])
  /\ BufGoto(p, "disk")
  /\ UNCHANGED <<bufs, locked, lru, medium, buf>>

\* Mutant: the driver takes the last request for the active one.
Newest == idequeue[Len(idequeue)]

ActiveRequest == Head(idequeue)

\* The request at the head is done: its process goes on, the next one is started.
IdeIntr ==
  /\ idequeue # <<>>
  /\ LET b == ActiveRequest IN
       /\ IF dirty[b]
          THEN medium' = [medium EXCEPT ![blockno[b]] = data[b]] /\ UNCHANGED data
          ELSE data' = [data EXCEPT ![b] = medium[blockno[b]]] /\ UNCHANGED medium
       /\ valid' = [valid EXCEPT ![b] = TRUE]
       /\ dirty' = [dirty EXCEPT ![b] = FALSE]
       /\ bpc' = [p \in Threads |-> IF bpc[p] = "disk" /\ buf[p] = b THEN "use" ELSE bpc[p]]
  /\ idequeue' = Tail(idequeue)
  /\ UNCHANGED <<blockno, refcnt, locked, lru, buf>>

-----------------------------------------------------------------------------
(* What a process does with the buffer it has locked *)

Pinned == {b \in Bufs : dirty[b] /\ b \notin ToSet(idequeue)}

\* Changed and noted in the log: the buffer must stay in the cache.
WriteLogged(p, v) ==
  /\ bpc[p] = "use" /\ blockno[buf[p]] \in Written
  /\ dirty[buf[p]] \/ Cardinality(Pinned) < MaxPinned
  /\ data' = [data EXCEPT ![buf[p]] = v]
  /\ dirty' = [dirty EXCEPT ![buf[p]] = TRUE]
  /\ BufGoto(p, "release")
  /\ UNCHANGED <<blockno, refcnt, valid, locked, lru, idequeue, medium, buf>>

\* bwrite(): by the commit and the recovery.
Bwrite(p, v) ==
  /\ bpc[p] = "use" /\ blockno[buf[p]] \in Written
  /\ data' = [data EXCEPT ![buf[p]] = v]
  /\ dirty' = [dirty EXCEPT ![buf[p]] = TRUE]
  /\ BufGoto(p, "iderw")
  /\ UNCHANGED <<blockno, refcnt, valid, locked, lru, idequeue, medium, buf>>

\* Mutant: nobody is woken.
ReleaseSleepQuietly(p) ==
  /\ bpc[p] \in {"use", "release"}
  /\ locked' = [locked EXCEPT ![buf[p]] = None]
  /\ BufGoto(p, "brelse")
  /\ UNCHANGED <<bufs, lru, idequeue, medium, buf>>

ReleaseSleep(p) ==
  /\ bpc[p] \in {"use", "release"}
  /\ locked' = [locked EXCEPT ![buf[p]] = None]
  /\ bpc' = [q \in Threads |-> IF q = p THEN "brelse"
                            ELSE IF bpc[q] = "asleep" /\ buf[q] = buf[p] THEN "lock" ELSE bpc[q]]
  /\ UNCHANGED <<bufs, lru, idequeue, medium, buf>>

\* b is taken out of its place and put at the front.
MovedToFront(b) ==
  LET n == CHOOSE n \in DOMAIN lru : lru[n] = b IN <<b>> \o RemoveAt(lru, n)

\* Mutant: who is not the last returns before the count.
BrelseUncounted(p) ==
  /\ bpc[p] = "brelse"
  /\ IF refcnt[buf[p]] = 1
     THEN refcnt' = [refcnt EXCEPT ![buf[p]] = 0] /\ lru' = MovedToFront(buf[p])
     ELSE UNCHANGED <<refcnt, lru>>
  /\ buf' = [buf EXCEPT ![p] = None]
  /\ BufGoto(p, "idle")
  /\ UNCHANGED <<blockno, valid, dirty, data, locked, idequeue, medium>>

\* The rest of brelse(): the last user moves the buffer to the front.
Brelse(p) ==
  /\ bpc[p] = "brelse"
  /\ refcnt' = [refcnt EXCEPT ![buf[p]] = @ - 1]
  /\ lru' = IF refcnt[buf[p]] = 1 THEN MovedToFront(buf[p]) ELSE lru
  /\ buf' = [buf EXCEPT ![p] = None]
  /\ BufGoto(p, "idle")
  /\ UNCHANGED <<blockno, valid, dirty, data, locked, idequeue, medium>>

-----------------------------------------------------------------------------
CacheStep(p) == AcquireSleep(p) \/ Iderw(p) \/ ReleaseSleep(p) \/ Brelse(p)

CacheNext ==
  \/ \E p \in Threads : \/ CacheStep(p)
                      \/ \E k \in Asked[p] : BgetCached(p, k) \/ BgetRecycle(p, k)
                      \/ \E v \in Changed : WriteLogged(p, v) \/ Bwrite(p, v)
  \/ IdeIntr

CacheSpec == CacheInit /\ [][CacheNext]_cacheVars

\* The disk interrupts in the end, and every process gets a CPU.
CacheFairSpec == CacheSpec /\ WF_cacheVars(IdeIntr) /\ \A p \in Threads : WF_cacheVars(CacheStep(p))
-----------------------------------------------------------------------------
(* Properties *)

CacheTypeOK ==
  /\ blockno \in [Bufs -> DiskBlocks \cup {None}]
  /\ refcnt \in [Bufs -> Nat]
  /\ valid \in [Bufs -> BOOLEAN] /\ dirty \in [Bufs -> BOOLEAN]
  /\ data \in [Bufs -> BlockValue] /\ medium \in [DiskBlocks -> BlockValue]
  /\ locked \in [Bufs -> Threads \cup {None}]
  /\ lru \in Seq(Bufs) /\ idequeue \in Seq(Bufs)
  /\ bpc \in [Threads -> {"idle", "lock", "asleep", "iderw", "disk", "use", "release", "brelse"}]
  /\ buf \in [Threads -> Bufs \cup {None}]

\* A block is in one buffer only; every user of a buffer is counted, the list is whole, and
\* who waits for a buffer's lock has somebody to wait for.
CacheInv ==
  /\ CacheTypeOK
  /\ \A b, c \in Bufs : blockno[b] # None /\ blockno[b] = blockno[c] => b = c
  /\ \A b \in Bufs : refcnt[b] = Cardinality({p \in Threads : buf[p] = b})
  /\ ToSet(lru) = Bufs /\ Len(lru) = NBUF
  /\ \A p \in Threads : bpc[p] = "asleep" => locked[buf[p]] # None

\* One buffer for each process beside the pinned ones: the processes hold one at a time.
EnoughBuffers == MaxPinned + Cardinality(Threads) <= NBUF

\* If there are so many, there is always one to recycle: "bget: no buffers" is not reached.
BufferLeft == EnoughBuffers => \A p \in Threads : bpc[p] = "idle" => Recyclable # {}

\* Both: the buffers are consistent, and there are enough of them (bget(), brelse()).
CacheRight == CacheInv /\ BufferLeft

\* What a reader of block k would see.
Content(k) ==
  IF \E b \in Cached(k) : valid[b] THEN data[CHOOSE b \in Cached(k) : TRUE] ELSE medium[k]

Users(k) == {p \in Threads : bpc[p] \in {"iderw", "disk", "use", "release"} /\ blockno[buf[p]] = k}

Store == INSTANCE BlockStore WITH
  Blocks <- DiskBlocks, Procs <- Threads, Value <- BlockValue,
  content <- [k \in DiskBlocks |-> Content(k)],
  owner <- [k \in DiskBlocks |-> IF Users(k) = {} THEN None ELSE CHOOSE p \in Users(k) : TRUE]

\* Whatever is recycled, queued or pinned in between, a block keeps the content its last
\* user gave it, and has one user at a time.
ImplementsBlockStore == Store!Spec

\* Every request to the disk is answered.
DiskAnswers == \A p \in Threads : bpc[p] = "iderw" ~> bpc[p] = "use"
=============================================================================
