------------------------------- MODULE Blocks -------------------------------
(***************************************************************************)
(* The blocks of the files of xv6: allocation in the bitmap, direct and      *)
(* indirect blocks, write() by chunks that fit a log transaction (fs.c and   *)
(* filewrite() in file.c).  A word of a block holds data or, in an indirect   *)
(* block, a block number: nothing but its use tells them apart.              *)
(*                                                                          *)
(* A step is one round of writei(): its buffers are locked, and the bitmap   *)
(* is one block.  A full disk is a panic: the machine stops.                 *)
(***************************************************************************)
EXTENDS Naturals, Sequences, FiniteSets, FiniteSetsExt

CONSTANTS
  Writers, Inodes,
  NBLOCKS,            \* data blocks of the disk, numbered from 1
  BSIZE, NDIRECT,     \* words of a block; an indirect block has BSIZE numbers
  MAXOPBLOCKS,        \* param.h
  Values,             \* words that are written, block numbers among them
  Sizes,              \* the n of write()
  MaxWrites,          \* bound: calls of write()
  None

DataBlocks == 1 .. NBLOCKS
MAXFILE == NDIRECT + BSIZE

\* Mutant: nothing is kept for the inode, the indirect block and an unaligned end.
ChunkOfAll == (MAXOPBLOCKS \div 2) * BSIZE

\* The words that go into one transaction.
Chunk == ((MAXOPBLOCKS - 1 - 1 - 2) \div 2) * BSIZE

BlocksAssumption ==
  /\ NBLOCKS \in Nat /\ BSIZE \in Nat \ {0} /\ NDIRECT \in Nat
  /\ MAXOPBLOCKS \in Nat /\ MAXOPBLOCKS >= 6
  /\ Sizes \subseteq Nat \ {0}
  /\ None \notin Inodes /\ None \notin Writers

VARIABLES
  bitmap,                   \* the blocks in use
  data,                     \* their words
  addrs, size,              \* struct dinode
  lock,                     \* ilock()
  w,                        \* the call of filewrite() a writer is in
  logged,                   \* history: the blocks logged since begin_op(), 0 for the bitmap
  content,                  \* history: what the calls have put into the file
  writes, panic

disk == <<bitmap, data, addrs, size>>
vars == <<disk, lock, w, logged, content, writes, panic>>

Idle == [ino |-> None, off |-> 0, left |-> 0, v |-> 0, n |-> 0, tot |-> 0]

Init ==
  /\ bitmap = {} /\ data = [b \in DataBlocks |-> [k \in 0 .. BSIZE - 1 |-> 0]]
  /\ addrs = [i \in Inodes |-> [k \in 0 .. NDIRECT |-> 0]]
  /\ size = [i \in Inodes |-> 0]
  /\ lock = [i \in Inodes |-> None]
  /\ w = [x \in Writers |-> Idle]
  /\ logged = [x \in Writers |-> {}]
  /\ content = [i \in Inodes |-> <<>>]
  /\ writes = 0 /\ panic = FALSE

-----------------------------------------------------------------------------
(* bmap() and balloc() *)

\* The block of number bn of the file, 0 where there is none.
Indirect(i) == addrs[i][NDIRECT]
Mapped(i, bn) ==
  IF bn < NDIRECT THEN addrs[i][bn]
  ELSE IF Indirect(i) = 0 THEN 0 ELSE data[Indirect(i)][bn - NDIRECT]

\* The missing blocks on the way to number bn: the indirect block first.
Missing(i, bn) ==
  (IF bn >= NDIRECT /\ Indirect(i) = 0 THEN 1 ELSE 0) + (IF Mapped(i, bn) = 0 THEN 1 ELSE 0)

\* The k-th block that balloc() finds.
Free(k) == CHOOSE b \in DataBlocks \ bitmap : Cardinality({c \in DataBlocks \ bitmap : c <= b}) = k

Zeros == [k \in 0 .. BSIZE - 1 |-> 0]

\* Mutant: the words of the file that had the block before stay in it.
Stale(b) == data[b]

\* bzero()
Fresh(b) == Zeros

-----------------------------------------------------------------------------
(* filewrite() and writei() *)

Write(x) == \E i \in Inodes, v \in Values, n \in Sizes :
  /\ w[x] = Idle /\ writes < MaxWrites /\ writes' = writes + 1
  /\ \E off \in 0 .. size[i] :
       w' = [w EXCEPT ![x] = [Idle EXCEPT !.ino = i, !.off = off, !.left = n, !.v = v]]
  /\ UNCHANGED <<disk, lock, logged, content, panic>>

NextChunk(x) == IF w[x].left < Chunk THEN w[x].left ELSE Chunk

\* begin_op(), ilock() and the checks of writei().
BeginChunk(x) ==
  LET i == w[x].ino
      n == NextChunk(x) IN
  /\ i # None /\ w[x].n = 0 /\ lock[i] = None
  /\ IF w[x].off <= size[i] /\ w[x].off + n <= MAXFILE * BSIZE
     THEN lock' = [lock EXCEPT ![i] = x] /\ w' = [w EXCEPT ![x].n = n, ![x].tot = 0]
     ELSE w' = [w EXCEPT ![x] = Idle] /\ UNCHANGED lock
  /\ UNCHANGED <<disk, logged, content, writes, panic>>

\* The words of one block.
WriteBlock(x) ==
  LET i == w[x].ino
      off == w[x].off + w[x].tot
      bn == off \div BSIZE
      at == off % BSIZE
      m == Min({w[x].n - w[x].tot, BSIZE - at})
      new == IF Mapped(i, bn) = 0 THEN Free(Missing(i, bn)) ELSE Mapped(i, bn)
      ind == IF Indirect(i) = 0 THEN Free(1) ELSE Indirect(i)
      filled(old) == [k \in 0 .. BSIZE - 1 |->
        IF k \in at .. at + m - 1 THEN w[x].v ELSE old[k]]
      inds(old) == [old EXCEPT ![bn - NDIRECT] = new]
      got(b) == IF b \in bitmap THEN data[b] ELSE Fresh(b) IN
  /\ w[x].tot < w[x].n
  /\ IF Cardinality(DataBlocks \ bitmap) < Missing(i, bn)
     THEN panic' = TRUE /\ UNCHANGED <<disk, w, logged>>
     ELSE /\ IF bn < NDIRECT
             THEN /\ bitmap' = bitmap \cup {new}
                  /\ addrs' = [addrs EXCEPT ![i][bn] = new]
                  /\ data' = [data EXCEPT ![new] = filled(got(new))]
             ELSE /\ bitmap' = bitmap \cup {ind, new}
                  /\ addrs' = [addrs EXCEPT ![i][NDIRECT] = ind]
                  /\ data' = [data EXCEPT ![ind] = inds(got(ind)), ![new] = filled(got(new))]
          /\ logged' = [logged EXCEPT ![x] = @ \cup {new}
               \cup (IF bn >= NDIRECT /\ Mapped(i, bn) = 0 THEN {ind} ELSE {})
               \cup (IF Missing(i, bn) > 0 THEN {0} ELSE {})]
          /\ w' = [w EXCEPT ![x].tot = @ + m]
          /\ UNCHANGED <<size, panic>>
  /\ UNCHANGED <<lock, content, writes>>

Overwrite(s, off, n, v) ==
  [k \in 1 .. Max({Len(s), off + n}) |-> IF k \in off + 1 .. off + n THEN v ELSE s[k]]

\* The size, iunlock() and end_op(); the next chunk of the call or its end.
EndChunk(x) ==
  LET i == w[x].ino
      end == w[x].off + w[x].n IN
  /\ w[x].n > 0 /\ w[x].tot = w[x].n
  /\ size' = [size EXCEPT ![i] = IF end > @ THEN end ELSE @]
  /\ lock' = [lock EXCEPT ![i] = None]
  /\ content' = [content EXCEPT ![i] = Overwrite(@, w[x].off, w[x].n, w[x].v)]
  /\ w' = [w EXCEPT ![x] = IF w[x].left = w[x].n THEN Idle
             ELSE [w[x] EXCEPT !.off = end, !.left = w[x].left - w[x].n, !.n = 0]]
  /\ logged' = [logged EXCEPT ![x] = {}]
  /\ UNCHANGED <<bitmap, data, addrs, writes, panic>>

-----------------------------------------------------------------------------
(* itrunc(): the last iput() of a file without names, that nobody has open. *)

Owned(i) == ({Mapped(i, bn) : bn \in 0 .. MAXFILE - 1} \cup {Indirect(i)}) \ {0}

\* Mutant: the numbers in the indirect block are not followed.
Directly(i) == {addrs[i][k] : k \in 0 .. NDIRECT} \ {0}

\* What bfree() is called for.
Freed(i) == Owned(i)

Itrunc(i) ==
  /\ lock[i] = None /\ \A x \in Writers : w[x].ino # i
  /\ size[i] > 0
  /\ Freed(i) \subseteq bitmap
  /\ bitmap' = bitmap \ Freed(i)
  /\ addrs' = [addrs EXCEPT ![i] = [k \in 0 .. NDIRECT |-> 0]]
  /\ size' = [size EXCEPT ![i] = 0]
  /\ content' = [content EXCEPT ![i] = <<>>]
  /\ UNCHANGED <<data, lock, w, logged, writes, panic>>

Next ==
  /\ ~panic
  /\ \/ \E x \in Writers : Write(x) \/ BeginChunk(x) \/ WriteBlock(x) \/ EndChunk(x)
     \/ \E i \in Inodes : Itrunc(i)

Spec == Init /\ [][Next]_vars
-----------------------------------------------------------------------------
(* Properties *)

\* Every place that holds the number of a block of the file.
Places(i) == {<<i, bn>> : bn \in {b \in 0 .. MAXFILE - 1 : Mapped(i, b) # 0}}
  \cup (IF Indirect(i) = 0 THEN {} ELSE {<<i, MAXFILE>>})

\* A block in use has one place in one file; every other block is free.
Inv ==
  /\ \A i \in Inodes : Owned(i) \subseteq DataBlocks
  /\ bitmap = UNION {Owned(i) : i \in Inodes}
  /\ Cardinality(bitmap) = Cardinality(UNION {Places(i) : i \in Inodes})

\* readi()
Content(i) == [k \in 1 .. size[i] |->
  LET b == Mapped(i, (k - 1) \div BSIZE) IN
  IF b = 0 THEN None ELSE data[b][(k - 1) % BSIZE]]

\* A file nobody writes reads as what was written into it, whatever other files did.
ReadsBack == \A i \in Inodes : lock[i] = None => Content(i) = content[i]

\* A chunk with its inode never outgrows what begin_op() has reserved for it.
OpFits == \A x \in Writers : Cardinality(logged[x]) + 1 <= MAXOPBLOCKS
=============================================================================
