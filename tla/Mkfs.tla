-------------------------------- MODULE Mkfs --------------------------------
(***************************************************************************)
(* mkfs.c makes the disk that xv6 starts from: the root directory and the     *)
(* files of the command line, each block taken after the one before.  A unit  *)
(* of a block stands for a directory entry's length; what is read back is      *)
(* what the kernel finds by bmap() and dirlookup() (fs.c).                   *)
(***************************************************************************)
EXTENDS Naturals, FiniteSets, FiniteSetsExt, Sequences, SequencesExt

CONSTANTS
  FSSIZE, LOGSIZE, NINODES, IPB,          \* param.h, mkfs.c, fs.h
  BSIZE, NDIRECT, NINDIRECT, DIRSIZ,      \* fs.h, a block's length in units
  CommandLines,      \* what mkfs is called with: sequences of a name and the file's data
  None               \* a zero on the disk

MAXFILE == NDIRECT + NINDIRECT
ROOTINO == 1

nbitmap == FSSIZE \div (BSIZE * 8) + 1
ninodeblocks == NINODES \div IPB + 1
nmeta == 2 + LOGSIZE + ninodeblocks + nbitmap

\* The inodes are not counted by mkfs: there must be enough of them.
MkfsAssumption ==
  /\ BSIZE > 0 /\ NINDIRECT <= BSIZE /\ nmeta <= FSSIZE
  /\ \A argv \in CommandLines : Len(argv) + ROOTINO < NINODES

VARIABLES
  pc,            \* "root", "files", "size", "balloc", "done" or "failed", for exit(1) or an assertion
  argv,
  i,             \* the file that is copied
  rest,          \* what is left to read of it, None before it is opened
  inode,         \* dinodes by number
  disk,          \* the blocks
  bitmap,        \* the blocks marked in the bitmap
  freeinode, freeblock

vars == <<pc, argv, i, rest, inode, disk, bitmap, freeinode, freeblock>>

Zeroes == [k \in 0 .. BSIZE - 1 |-> None]

\* What iappend() changes, and whether it has come through.
Image == [inode |-> inode, disk |-> disk, freeblock |-> freeblock, ok |-> TRUE]

Ialloc(type) ==
  [inode EXCEPT ![freeinode] =
     [type |-> type, nlink |-> 1, size |-> 0, addrs |-> [k \in 0 .. NDIRECT |-> None]]]

\* Mutant: nothing looks whether there is a block left.
TakeBeyond(im) == [im EXCEPT !.freeblock = @ + 1]

\* The first free block is taken; rsect() fails beyond the end of the disk.
Take(im) == [im EXCEPT !.freeblock = @ + 1, !.ok = @ /\ im.freeblock < FSSIZE]

Addr(im, inum, k) ==
  IF im.inode[inum].addrs[k] # None THEN im
  ELSE [Take(im) EXCEPT !.inode[inum].addrs[k] = im.freeblock]

\* Mutant: the number is not written to the indirect block.
IndirectUnwritten(im, b, k) == IF ~im.ok \/ im.disk[b][k] # None THEN im ELSE Take(im)

Indirect(im, b, k) ==
  IF ~im.ok \/ im.disk[b][k] # None THEN im
  ELSE [Take(im) EXCEPT !.disk[b][k] = im.freeblock]

\* The file's block fbn has a block of the disk.
Mapped(im, inum, fbn) ==
  IF fbn < NDIRECT THEN Addr(im, inum, fbn)
  ELSE LET a == Addr(im, inum, NDIRECT) IN Indirect(a, a.inode[inum].addrs[NDIRECT], fbn - NDIRECT)

\* Where the kernel looks for block fbn of the file (bmap()).
Bmap(im, inum, fbn) ==
  IF fbn < NDIRECT THEN im.inode[inum].addrs[fbn]
  ELSE im.disk[im.inode[inum].addrs[NDIRECT]][fbn - NDIRECT]

\* One unit at the end of the file.
AppendUnit(im, inum, unit) ==
  LET off == im.inode[inum].size
      a == IF off \div BSIZE < MAXFILE THEN Mapped(im, inum, off \div BSIZE)
           ELSE [im EXCEPT !.ok = FALSE] IN
  IF ~im.ok THEN im
  ELSE IF ~a.ok THEN a
  ELSE [a EXCEPT !.disk[Bmap(a, inum, off \div BSIZE)][off % BSIZE] = unit,
                 !.inode[inum].size = off + 1]

Iappend(im, inum, units) == FoldLeft(LAMBDA a, unit : AppendUnit(a, inum, unit), im, units)

\* The image has changed to im and the work goes on, or the program has ended.
Becomes(im, next) ==
  IF im.ok
  THEN /\ inode' = im.inode /\ disk' = im.disk /\ freeblock' = im.freeblock
       /\ pc' = next
  ELSE pc' = "failed" /\ UNCHANGED <<inode, disk, freeblock>>

Init ==
  /\ pc = "root"
  /\ argv \in CommandLines
  /\ i = 1 /\ rest = None
  /\ inode = [n \in 1 .. NINODES - 1 |-> None]
  /\ disk = [b \in 0 .. FSSIZE - 1 |-> Zeroes]
  /\ bitmap = {}
  /\ freeinode = ROOTINO
  /\ freeblock = nmeta

RootDir ==
  /\ pc = "root"
  /\ Becomes(Iappend([Image EXCEPT !.inode = Ialloc("DIR")], ROOTINO,
                     << <<ROOTINO, <<".">> >>, <<ROOTINO, <<".", ".">> >> >>), "files")
  /\ freeinode' = freeinode + 1
  /\ UNCHANGED <<argv, i, rest, bitmap>>

\* A leading "_" is left out of the name, and all behind its DIRSIZ-th character.
Unmarked(name) == IF Head(name) = "_" THEN Tail(name) ELSE name
Truncated(name) == SubSeq(name, 1, Min({Len(name), DIRSIZ}))

\* Mutant: the name is cut first.
CutFirst(name) == Unmarked(Truncated(name))

EntryName(name) == Truncated(Unmarked(name))

OpenFile ==
  /\ pc = "files" /\ i <= Len(argv) /\ rest = None
  /\ Becomes(Iappend([Image EXCEPT !.inode = Ialloc("FILE")], ROOTINO,
                     << <<freeinode, EntryName(argv[i].name)>> >>), "files")
  /\ rest' = argv[i].data
  /\ freeinode' = freeinode + 1
  /\ UNCHANGED <<argv, i, bitmap>>

\* A read() of up to a block.
CopyBlock ==
  /\ pc = "files" /\ rest # None /\ rest # <<>>
  /\ LET cc == Min({BSIZE, Len(rest)}) IN
     /\ Becomes(Iappend(Image, freeinode - 1, SubSeq(rest, 1, cc)), "files")
     /\ rest' = SubSeq(rest, cc + 1, Len(rest))
  /\ UNCHANGED <<argv, i, bitmap, freeinode>>

CloseFile ==
  /\ pc = "files" /\ rest = <<>>
  /\ rest' = None /\ i' = i + 1
  /\ UNCHANGED <<pc, argv, inode, disk, bitmap, freeinode, freeblock>>

\* The root directory's length becomes whole blocks.
FixSize ==
  /\ pc = "files" /\ i > Len(argv)
  /\ inode' = [inode EXCEPT ![ROOTINO].size = (@ \div BSIZE + 1) * BSIZE]
  /\ pc' = "balloc"
  /\ UNCHANGED <<argv, i, rest, disk, bitmap, freeinode, freeblock>>

\* Mutant: only the files' blocks.
MarkedData == nmeta .. freeblock - 1

\* balloc(): the blocks in front of the first free one.
Marked == 0 .. freeblock - 1

Balloc ==
  /\ pc = "balloc"
  /\ IF freeblock < BSIZE * 8 THEN bitmap' = Marked /\ pc' = "done"
     ELSE pc' = "failed" /\ UNCHANGED bitmap
  /\ UNCHANGED <<argv, i, rest, inode, disk, freeinode, freeblock>>

Next == RootDir \/ OpenFile \/ CopyBlock \/ CloseFile \/ FixSize \/ Balloc

Spec == Init /\ [][Next]_vars

-----------------------------------------------------------------------------
(* What the kernel finds *)

Inodes == {n \in DOMAIN inode : inode[n] # None}

\* The blocks a file's addresses name, its indirect block among them, by place.
Places(n) ==
  {<<n, k>> : k \in {k \in 0 .. NDIRECT : inode[n].addrs[k] # None}}
  \cup IF inode[n].addrs[NDIRECT] = None THEN {}
       ELSE {<<n, NDIRECT + 1 + k>> :
               k \in {k \in 0 .. NINDIRECT - 1 : disk[inode[n].addrs[NDIRECT]][k] # None}}
BlockAt(n, k) ==
  IF k <= NDIRECT THEN inode[n].addrs[k] ELSE disk[inode[n].addrs[NDIRECT]][k - NDIRECT - 1]

AllPlaces == UNION {Places(n) : n \in Inodes}

\* readi() of len units
Contents(n, len) ==
  [k \in 1 .. len |-> disk[Bmap(Image, n, (k - 1) \div BSIZE)][(k - 1) % BSIZE]]

\* The root directory's entries, and the inode the first of this name leads to.
Entries == Contents(ROOTINO, Len(argv) + 2)
Lookup(name) ==
  LET k == SelectInSeq(Entries, LAMBDA de : de[2] = name) IN IF k = 0 THEN None ELSE Entries[k][1]

TypeOK ==
  /\ pc \in {"root", "files", "balloc", "done", "failed"}
  /\ argv \in CommandLines /\ i \in 1 .. Len(argv) + 1
  /\ freeinode \in 1 .. NINODES /\ freeblock \in nmeta .. FSSIZE
  /\ DOMAIN disk = 0 .. FSSIZE - 1 /\ bitmap \subseteq DOMAIN disk

\* At every step each block behind the metadata belongs to one place of one file, or is free
\* and full of zeros: none is shared, lost or dirty (iappend()).
BlocksOnce ==
  /\ \A x, y \in AllPlaces : x # y => BlockAt(x[1], x[2]) # BlockAt(y[1], y[2])
  /\ {BlockAt(x[1], x[2]) : x \in AllPlaces} = nmeta .. freeblock - 1
  /\ \A b \in freeblock .. FSSIZE - 1 : disk[b] = Zeroes

\* What namei() compares with, of the name the user knows the program by.
Name(k) == Truncated(Unmarked(argv[k].name))
NamesDiffer == \A k, l \in 1 .. Len(argv) : k # l => Name(k) # Name(l)

\* The kernel finds each file under its name with the data it had, the bitmap marks what is
\* used, and the directory's length is that of its blocks, or one block more when its entries
\* fill them.
ImageRight == pc = "done" =>
  /\ NamesDiffer => \A k \in 1 .. Len(argv) :
       LET n == Lookup(Name(k)) IN
       /\ n # None /\ inode[n].type = "FILE"
       /\ Contents(n, inode[n].size) = argv[k].data
  /\ Lookup(<<".">>) = ROOTINO /\ Lookup(<<".", ".">>) = ROOTINO
  /\ bitmap = (0 .. nmeta - 1) \cup {BlockAt(x[1], x[2]) : x \in AllPlaces}
  /\ inode[ROOTINO].size \div BSIZE
       = Cardinality(Places(ROOTINO)) - (IF inode[ROOTINO].addrs[NDIRECT] = None THEN 0 ELSE 1)
         + (IF Len(Entries) % BSIZE = 0 THEN 1 ELSE 0)

\* The blocks of a file of this length.
BlocksOf(len) == LET n == (len + BSIZE - 1) \div BSIZE IN IF n > NDIRECT THEN n + 1 ELSE n

Fits ==
  /\ \A k \in 1 .. Len(argv) : Len(argv[k].data) <= MAXFILE * BSIZE
  /\ Len(argv) + 2 <= MAXFILE * BSIZE
  /\ LET n == nmeta + BlocksOf(Len(argv) + 2)
                + MapThenSumSet(LAMBDA k : BlocksOf(Len(argv[k].data)), 1 .. Len(argv)) IN
     n <= FSSIZE /\ n < BSIZE * 8

\* The disk is made if and only if everything has room on it.
MadeIfItFits == (pc = "done" => Fits) /\ (pc = "failed" => ~Fits)

Inv == TypeOK /\ BlocksOnce /\ ImageRight /\ MadeIfItFits
=============================================================================
