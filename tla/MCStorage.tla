----------------------------- MODULE MCStorage -----------------------------
(***************************************************************************)
(* The layers of xv6 below its system calls, each on its own: the log, and   *)
(* beside it the buffer cache with the disk driver, the inodes with their     *)
(* names, and the blocks of the files.  Each behaviour is one of one layer;   *)
(* the others stay as they begin.                                             *)
(***************************************************************************)
EXTENDS Journal, BufferCache

CONSTANTS p1, p2

VARIABLES
  layer,
  type, nlink, entries, content, ref, inodeValid, lock, cwd, file, r, calls, lost,
  bitmap, words, addrs, size, flock, w, logged, stored, writes, panic

logVars == vars
inodeVars == <<type, nlink, entries, content, ref, inodeValid, lock, cwd, file, r, calls, lost>>
blockVars == <<bitmap, words, addrs, size, flock, w, logged, stored, writes, panic>>
allVars == <<layer, logVars, cacheVars, inodeVars, blockVars>>

ASSUME MCEnoughBuffers == EnoughBuffers

MCMaxOps == [p \in Procs |-> IF p = p1 THEN 2 ELSE 1]

\* Of four blocks both processes use the one that is written; there is one buffer more
\* than there are processes.
MCAsked == [p \in Threads |-> IF p = p1 THEN {"k1", "k2"} ELSE {"k1", "k3", "k4"}]

Syscall(name, path) == [op |-> name, absolute |-> TRUE, path |-> path, new |-> <<>>, mode |-> "r"]
Link(path, new) == [Syscall("link", path) EXCEPT !.new = new]

\* Two names and paths of at most two elements.
MCCalls == {
  Syscall("create", <<"x">>), Syscall("mkdir", <<"d">>), Syscall("create", <<"d", "x">>),
  Syscall("open", <<"x">>), Syscall("open", <<"d">>), Syscall("unlink", <<"x">>), Syscall("unlink", <<"d">>),
  Syscall("unlink", <<"d", "x">>), Syscall("unlink", <<"d", ".">>), Syscall("chdir", <<"x">>),
  Syscall("chdir", <<".">>), Link(<<"x">>, <<"d", "x">>), Link(<<"d">>, <<"x">>), Link(<<"x">>, <<"x">>) }

Files == INSTANCE FileSystem WITH
  NINODES <- 4, Shipped <- <<>>, Running <- Procs, NOFILE <- 1, Calls <- MCCalls, MaxCalls <- 3,
  valid <- inodeValid

\* Seven data blocks for two files of up to four and an indirect block each.
Data == INSTANCE Blocks WITH
  Writers <- Procs, Inodes <- {"f", "g"}, NBLOCKS <- 7, BSIZE <- 3, NDIRECT <- 1,
  MAXOPBLOCKS <- 6, Values <- {1, 7}, Sizes <- {2, 9}, MaxWrites <- 2, lock <- flock, content <- stored, data <- words

ASSUME DataArguments == Data!BlocksAssumption

StorageInit ==
  /\ layer \in {"log", "cache", "inodes", "blocks"}
  /\ Init /\ CacheInit /\ Files!Init /\ Data!Init

InLog(A) == layer = "log" /\ A /\ UNCHANGED <<layer, cacheVars, inodeVars, blockVars>>
InCache(A) == layer = "cache" /\ A /\ UNCHANGED <<layer, logVars, inodeVars, blockVars>>
InInodes(A) == layer = "inodes" /\ A /\ UNCHANGED <<layer, logVars, cacheVars, blockVars>>
InBlocks(A) == layer = "blocks" /\ A /\ UNCHANGED <<layer, logVars, cacheVars, inodeVars>>

StorageNext ==
  \/ InLog(Next) \/ InCache(CacheNext) \/ InInodes(Files!Next)
  \/ InBlocks(Data!Next)

\* The fairness of each layer, for the behaviours that are its own.
StorageSpec ==
  /\ StorageInit /\ [][StorageNext]_allVars
  /\ WF_allVars(InLog(Commit)) /\ WF_allVars(InLog(ReadHead))
  /\ \A p \in Procs : WF_allVars(InLog(Op(p)))
  /\ WF_allVars(InCache(IdeIntr)) /\ \A p \in Threads : WF_allVars(InCache(CacheStep(p)))

\* Names and links agree with pointers and types, and a file has its own blocks, reads as it
\* was written and is written by transactions that fit (fs.c, sysfile.c, file.c).
FilesRight ==
  /\ layer = "inodes" => Files!Inv /\ Files!LinksCounted /\ Files!NoDangling
  /\ layer = "blocks" => Data!Inv /\ Data!ReadsBack /\ Data!OpFits

\* Operations get through the log, and requests to the disk are answered (begin_op(),
\* iderw()).
StorageAnswers == OpsEnd /\ DiskAnswers
=============================================================================
