----------------------------- MODULE MCPrograms -----------------------------
(***************************************************************************)
(* Programs that share no state, side by side: the four parts of a file       *)
(* transfer (the dialogue of an upload, the client's pending uploads, its     *)
(* downloads, a student's files on the server), the search of the sliding     *)
(* puzzle, the tests of the xv6 file system, the ghost that is tracked, and the *)
(* program that makes xv6's disk.  Each behaviour is one of one part; the      *)
(* others stay as they begin.                                                *)
(***************************************************************************)
EXTENDS AStar, UserTestScripts

CONSTANTS
  Near,      \* bound: moves of the boards that are searched from
  Depth      \* bound: moves of the boards the heuristics are looked at

VARIABLES
  part,
  level, frontier, before,      \* the ring of boards that is looked at and the one before
  cpc, length, totalSent, verdict, toServer, toClient, broken, spc, want, counted, arrived,
  short, saved,
  main, asked, queue, commands, answers, accepted, refused, begun, uploads, aborted,
  tpc, offset, replies, stream, reader, chunk, collected, stored, shortRead, failed,
  fpc, file, dir, listing, fseen, overlapped,
  type, nlink, entries, content, ref, valid, lock, cwd, files, kstack, calls, lost,
  test, at, ok, wrong,
  room, belief, likely, readings,
  mpc, argv, argi, unread, inode, image, bitmap, freeinode, freeblock

mcVars == <<vars, level, frontier, before>>
dialogueVars == <<cpc, length, totalSent, verdict, toServer, toClient, broken, spc, want,
                  counted, arrived, short, saved>>
pendingVars == <<main, asked, queue, commands, answers, accepted, refused, begun, uploads, aborted>>
downloadVars == <<tpc, offset, replies, stream, reader, chunk, collected, stored, shortRead, failed>>
filesVars == <<fpc, file, dir, listing, fseen, overlapped>>
testVars == <<type, nlink, entries, content, ref, valid, lock, cwd, files, kstack, calls, lost,
              test, at, ok, wrong>>
ghostVars == <<room, belief, likely, readings>>
mkfsVars == <<mpc, argv, argi, unread, inode, image, bitmap, freeinode, freeblock>>

\* Variables of the parts whose first state is not the same for all behaviours.
otherVars == <<testVars, ghostVars, mkfsVars>>
allVars == <<part, mcVars, dialogueVars, pendingVars, downloadVars, filesVars, otherVars>>

-----------------------------------------------------------------------------
(* Searches from boards of known distance, and the heuristics on every board up to a  *)
(* greater distance, ring by ring: a ring is a step before the search starts.         *)

Neighbours(boards) == {NextMove(b, d) : b \in boards, d \in Directions}

RECURSIVE RingsTo(_)
RingsTo(n) ==
  IF n = 0 THEN <<{Goal}>>
  ELSE LET r == RingsTo(n - 1) IN
       Append(r, Neighbours(r[n]) \ (r[n] \cup (IF n = 1 THEN {} ELSE r[n - 1])))

\* The boards n moves from the goal.
Rings == RingsTo(Near)
Ring(n) == Rings[n + 1]
Ball(n) == UNION {Ring(i) : i \in 0 .. n}

Board(s) == [c \in Cells |-> s[c + 1]]

\* Two tiles of the board change places, not the blank.
Swapped(b) ==
  LET c == IF Blank \in {b[0], b[1]} THEN K ELSE 0 IN
  [b EXCEPT ![c] = b[c + 1], ![c + 1] = b[c]]

\* Boards found a second time on a shorter way while they wait, and left when they are popped.
LongSearches ==
  {Board(<<0, 2, 4, 8, 6, 5, 1, 3, 7>>), Board(<<0, 1, 2, 7, 6, 8, 4, 3, 5>>),
   Board(<<0, 1, 2, 7, 5, 6, 3, 8, 4>>), Board(<<3, 0, 1, 5, 7, 8, 6, 2, 4>>),
   Board(<<0, 5, 4, 3, 2, 1, 6, 8, 7>>), Board(<<3, 1, 2, 4, 7, 8, 6, 5, 0>>)}
    \X {"Manhattan", "LinearConflict"}

MCSearches ==
  LongSearches
  \cup {<<Board(<<1, 8, 2, 0, 6, 5, 4, 3, 7>>), "LinearConflict">>,
        <<Board(<<0, 5, 8, 3, 2, 1, 6, 4, 7>>), "Manhattan">>}
  \cup Ball(2) \X {"Dummy", "Hamming"}
  \cup Ball(5) \X {"Manhattan", "LinearConflict"}
  \cup {Swapped(b) : b \in Ball(2)} \X {"Manhattan"}

MCInit == level = 0 /\ frontier = {Goal} /\ before = {} /\ Init

Deeper ==
  /\ level < Depth
  /\ level' = level + 1
  /\ before' = frontier
  /\ frontier' = Neighbours(frontier) \ (before \cup frontier)
  /\ UNCHANGED vars

\* The rings are looked at beside one of the searches only.
Looking == level < Depth /\ start = Goal /\ heuristic = "Manhattan"

\* Bound: of a long search only one order of the equal entries is looked at.
Pops ==
  IF <<start, heuristic>> \in LongSearches
  THEN Tops # {} /\ Pop(CHOOSE x \in Tops : TRUE)
  ELSE Next

MCNext ==
  \/ Looking /\ Deeper
  \/ ~Looking /\ Pops /\ UNCHANGED <<level, frontier, before>>

Solved == \E n \in 0 .. Near : start \in Ring(n)
Moves(b) == CHOOSE n \in 0 .. Near : b \in Ring(n)

\* A board that can be solved is solved in as few moves as there are, with any heuristic
\* and any order of equal entries, and the path that is printed leads back to the start; a
\* board that cannot be solved is refused (astar(), printPath(), isSolvable()).
Optimal == result # None =>
  IF Solved THEN result = Moves(start) /\ PathBack[result] = start
  ELSE result = Unsolvable

\* No heuristic estimates more moves than are needed, a solvable board is not refused and
\* one with two tiles swapped is (heuristics/, isSolvable()).
Admissible == \A b \in frontier :
  /\ Hamming(b) <= level /\ LinearConflict(b) <= level
  /\ IsSolvable(b) /\ ~IsSolvable(Swapped(b))

SearchRight == Optimal /\ Admissible

-----------------------------------------------------------------------------
(* The parts *)

\* The file may have changed its length since it was announced.
Dialogue == INSTANCE UploadDialogue WITH FileLength <- 5, MaxLength <- 6, ChunkSize <- 3

\* Requests 1, 2 and 4 are for files of one name, in different directories.
Pending == INSTANCE PendingUploads WITH
  N <- 4, NameOf <- <<"a", "a", "b", "a">>, Refusable <- {2, 3},
  toServer <- commands, toClient <- answers

\* One file of two chunks, one of a single chunk.
Download == INSTANCE Downloads WITH
  Files <- {"f", "g"}, LengthOf <- [f \in {"f", "g"} |-> IF f = "f" THEN 3 ELSE 2],
  ChunkSize <- 2, Replies <- 1, short <- shortRead

\* Two uploads of a file that is there already, one of a file whose name is the
\* next free one for them.
MCHandlers == {"h1", "h2", "h3"}
File == INSTANCE StudentFiles WITH
  Handlers <- MCHandlers,
  NameOf <- [h \in MCHandlers |-> IF h = "h3" THEN <<"a", 1>> ELSE <<"a", 0>>],
  OldFiles <- {<<"a", 0>>}, MaxNumber <- 5, pc <- fpc, seen <- fseen

\* A disk with three of xv6's files and nine inodes left.
TestProcs == {"main", "c1", "c2"}
Tests == INSTANCE UserTests WITH
  Script <- AllScripts, Procs <- TestProcs, Running <- {"main"}, NINODES <- 13, NOFILE <- 2,
  Shipped <- <<"README", "echo", "cat">>, Calls <- {}, MaxCalls <- 0, file <- files, r <- kstack

\* Rooms with obstacles; in the second a corner has no free cell beside it.
MCRooms == {[n |-> 3, m |-> 3, blocked |-> b] :
  b \in {{<<0, 0>>, <<1, 1>>, <<2, 1>>}, {<<0, 1>>, <<1, 0>>, <<2, 2>>},
         {<<0, 0>>, <<0, 2>>, <<2, 0>>, <<2, 2>>}}}
Casper == INSTANCE Ghost WITH Rooms <- MCRooms, MaxReadings <- 2

\* Up to three files that end within a block, at its end, in the indirect block, at the largest
\* length and beyond it; two names that agree when they are cut, one that is too long.
MCData(n) == [k \in 1 .. n |-> <<"x", "y">>[(k % 2) + 1]]
MCNames == << <<"_", "a", "b", "c">>, <<"c", "_">>, <<"a", "b">> >>
MCLengths == UNION {[1 .. n -> {0, 1, 2, 5, 8, 9}] : n \in 0 .. 3}
MCCommandLines ==
  {[k \in DOMAIN s |-> [name |-> MCNames[k], data |-> MCData(s[k])]] : s \in MCLengths}

\* Nine blocks behind the metadata, of which the bitmap's one block tells.
Mkfs == INSTANCE Mkfs WITH
  FSSIZE <- 16, LOGSIZE <- 1, NINODES <- 5, IPB <- 4, BSIZE <- 2, NDIRECT <- 2, NINDIRECT <- 2,
  DIRSIZ <- 2, CommandLines <- MCCommandLines,
  pc <- mpc, i <- argi, rest <- unread, disk <- image

ASSUME MkfsArguments == Mkfs!MkfsAssumption

ASSUME TransfersAssumption ==
  /\ Dialogue!DialogueAssumption /\ Pending!PendingAssumption
  /\ Download!DownloadAssumption /\ File!FilesAssumption

PartsInit ==
  /\ part \in {"dialogue", "pending", "download", "files", "search", "tests", "ghost", "mkfs"}
  /\ MCInit /\ Dialogue!Init /\ Pending!Init /\ Download!Init /\ File!Init
  /\ part = "dialogue" \/ length = 0
  /\ IF part = "tests" THEN Tests!TestInit
     ELSE /\ type = None /\ nlink = None /\ entries = None /\ content = None
          /\ ref = None /\ valid = None /\ lock = None /\ cwd = None
          /\ files = None /\ kstack = None /\ calls = None /\ lost = None
          /\ test = None /\ at = None /\ ok = None /\ wrong = None
  /\ IF part = "ghost" THEN Casper!Init
     ELSE room = None /\ belief = None /\ likely = None /\ readings = None
  /\ IF part = "mkfs" THEN Mkfs!Init
     ELSE /\ mpc = None /\ argv = None /\ argi = None /\ unread = None /\ inode = None
          /\ image = None /\ bitmap = None /\ freeinode = None /\ freeblock = None
  /\ part = "search" \/ (start = Goal /\ heuristic = "Manhattan")

InDialogue(A) ==
  part = "dialogue" /\ A /\ UNCHANGED <<part, mcVars, pendingVars, downloadVars, filesVars, otherVars>>
InPending(A) ==
  part = "pending" /\ A /\ UNCHANGED <<part, mcVars, dialogueVars, downloadVars, filesVars, otherVars>>
InDownload(A) ==
  part = "download" /\ A /\ UNCHANGED <<part, mcVars, dialogueVars, pendingVars, filesVars, otherVars>>
InFiles(A) ==
  part = "files" /\ A /\ UNCHANGED <<part, mcVars, dialogueVars, pendingVars, downloadVars, otherVars>>
InSearch(A) ==
  part = "search" /\ A /\ UNCHANGED <<part, dialogueVars, pendingVars, downloadVars, filesVars, otherVars>>
InTests(A) ==
  /\ part = "tests" /\ A /\ UNCHANGED <<ghostVars, mkfsVars>>
  /\ UNCHANGED <<part, mcVars, dialogueVars, pendingVars, downloadVars, filesVars>>
InGhost(A) ==
  /\ part = "ghost" /\ A /\ UNCHANGED <<testVars, mkfsVars>>
  /\ UNCHANGED <<part, mcVars, dialogueVars, pendingVars, downloadVars, filesVars>>
InMkfs(A) ==
  /\ part = "mkfs" /\ A /\ UNCHANGED <<testVars, ghostVars>>
  /\ UNCHANGED <<part, mcVars, dialogueVars, pendingVars, downloadVars, filesVars>>

PartsNext ==
  \/ InDialogue(Dialogue!Next) \/ InPending(Pending!Next) \/ InDownload(Download!Next)
  \/ InFiles(File!Next) \/ InSearch(MCNext)
  \/ InTests(Tests!TestNext) \/ InGhost(Casper!Next) \/ InMkfs(Mkfs!Next)

\* The fairness of each part, for the behaviours that are its own.
PartsSpec ==
  /\ PartsInit /\ [][PartsNext]_allVars
  /\ WF_allVars(InDialogue(Dialogue!Client)) /\ WF_allVars(InDialogue(Dialogue!Server))
  /\ \A f \in {"f", "g"} : WF_allVars(InDownload(Download!Downloader(f)))
  /\ WF_allVars(InDownload(Download!Reader))

\* What is reported, collected, stored and listed of a transfer is what was announced, sent
\* and written, under the file names and ids it was asked for with.  The search finds the
\* shortest path, whatever its heuristic, or says that there is none; the tests of xv6's file
\* system pass, with names and links as they were counted on the way, and come to an end or to
\* the deadlock that is known; the ghost is believed to be where its walks and the readings make
\* it likely; a disk is made of the files if and only if they have room.
ProgramsRight ==
  /\ part = "dialogue" =>
       Dialogue!Inv /\ Dialogue!SuccessIsComplete /\ Dialogue!RefusedIsNotSaved
  /\ part = "pending" => Pending!Inv /\ Pending!GrantMatchesRequest
  /\ part = "download" => Download!Inv /\ Download!DownloadsWhole
  /\ part = "files" => File!Inv
  /\ SearchRight
  /\ part = "tests" => Tests!TestsPass /\ Tests!TestsCount /\ Tests!TestsEnd
  /\ part = "ghost" => Casper!Inv
  /\ part = "mkfs" => Mkfs!Inv

\* A complete file is never touched by a later upload, and uploads and downloads come to
\* their end.
TransfersEnd ==
  /\ (part = "dialogue" => Dialogue!BothEnd) /\ Download!DownloadsEnd
  /\ File!CompleteStaysComplete
=============================================================================
