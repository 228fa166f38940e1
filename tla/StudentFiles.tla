---------------------------- MODULE StudentFiles ----------------------------
(***************************************************************************)
(* A student's directory on the server: how finished uploads are written    *)
(* into it under a free name (FileBuffer.writeFile, DuplicateFileSave) and  *)
(* how the listing that other students see is renewed (FileManager).        *)
(*                                                                          *)
(* A name is a stem with a number: <<"a", 0>> is the file a, <<"a", 2>> the *)
(* file a(2).  A handler thread writes one upload; several of them may be   *)
(* at work for one student, because a student may upload in parallel.       *)
(***************************************************************************)
EXTENDS Naturals, FiniteSets

CONSTANTS
  Handlers,
  NameOf,       \* the name under which a handler's upload was announced
  OldFiles,     \* names in the directory when the server starts
  MaxNumber     \* bound on the numbers that occur

\* Every stem with every number up to the bound.
Names == {n[1] : n \in OldFiles \cup {NameOf[h] : h \in Handlers}} \X (0 .. MaxNumber)

\* A handler also stands for what it writes.
FilesAssumption ==
  /\ IsFiniteSet(Handlers) /\ Handlers \cap {"old", "empty", "partial", "mixed"} = {}
  /\ IsFiniteSet(OldFiles) /\ OldFiles \subseteq Names
  /\ NameOf \in [Handlers -> Names] /\ MaxNumber \in Nat
  /\ \A h \in Handlers : NameOf[h][2] + Cardinality(OldFiles) + Cardinality(Handlers) <= MaxNumber

VARIABLES
  pc,           \* what a handler does next
  file,         \* the name it is looking at or has chosen
  dir,          \* the directory: contents of each name in it
  listing,      \* the names in FileManager's Files object
  seen,         \* the directory as a handler has read it for the listing
  overlapped    \* pairs of handlers that were at work at the same time

vars == <<pc, file, dir, listing, seen, overlapped>>

Working == {"probe", "create", "write", "list", "put"}

Goto(h, from, to) == pc[h] = from /\ pc' = [pc EXCEPT ![h] = to]

Init ==
  /\ pc = [h \in Handlers |-> "idle"]
  /\ file = NameOf
  /\ dir = [n \in OldFiles |-> "old"]
  /\ listing = OldFiles
  /\ seen = [h \in Handlers |-> {}]
  /\ overlapped = {}

-----------------------------------------------------------------------------
\* All chunks are there and the announced length is right.
WriteFile(h) ==
  LET others == {g \in Handlers : pc[g] \in Working} IN
  /\ Goto(h, "idle", "probe")
  /\ overlapped' = overlapped \cup (others \X {h}) \cup ({h} \X others)
  /\ UNCHANGED <<file, dir, listing, seen>>

\* getUniqueFile: the name without a number gets (1), a number is increased.
Successor(name) == <<name[1], name[2] + 1>>

\* Mutant: the name is taken as it is announced.
ProbeNot(h) ==
  /\ Goto(h, "probe", "create")
  /\ UNCHANGED <<file, dir, listing, seen, overlapped>>

Probe(h) ==
  /\ pc[h] = "probe"
  /\ IF file[h] \in DOMAIN dir
     THEN file' = [file EXCEPT ![h] = Successor(@)] /\ UNCHANGED pc
     ELSE Goto(h, "probe", "create") /\ UNCHANGED file
  /\ UNCHANGED <<dir, listing, seen, overlapped>>

\* The directory with that content under a name, which may be new.
Put(name, content) ==
  [n \in DOMAIN dir \cup {name} |-> IF n = name THEN content ELSE dir[n]]

\* createNewFile, whose answer is not looked at, and the opening of the stream,
\* which empties the file.  Either may fail, the second after the first.
Create(h) ==
  /\ \/ Goto(h, "create", "write") /\ dir' = Put(file[h], "empty")
     \/ /\ Goto(h, "create", "failed")
        /\ \/ UNCHANGED dir
           \/ file[h] \notin DOMAIN dir /\ dir' = Put(file[h], "empty")
  /\ UNCHANGED <<file, listing, seen, overlapped>>

\* The chunks are written.  Two handlers that write to one file leave the text
\* of either or parts of both.  An error leaves part of the text.
Write(h) ==
  /\ \/ /\ Goto(h, "write", "list")
        /\ \E content \in IF dir[file[h]] = "empty" THEN {h} ELSE {h, "mixed"} :
             dir' = Put(file[h], content)
     \/ Goto(h, "write", "failed") /\ dir' = Put(file[h], "partial")
  /\ UNCHANGED <<file, listing, seen, overlapped>>

\* refreshFiles reads the directory into a new Files object ...
RefreshRead(h) ==
  /\ Goto(h, "list", "put")
  /\ seen' = [seen EXCEPT ![h] = DOMAIN dir]
  /\ UNCHANGED <<file, dir, listing, overlapped>>

\* Mutant: the new Files object is not put into the map.
RefreshPutForgotten(h) ==
  /\ Goto(h, "put", "done")
  /\ UNCHANGED <<file, dir, listing, seen, overlapped>>

\* ... and puts that into the map.
RefreshPut(h) ==
  /\ Goto(h, "put", "done")
  /\ listing' = seen[h]
  /\ UNCHANGED <<file, dir, seen, overlapped>>

\* A student names a file to download; Files.totalMatch counts the listed names
\* that begin with that name (here of files without an extension), and the
\* download starts if there is exactly one.
Begins(name, other) == other[1] = name[1] /\ name[2] \in {0, other[2]}

totalMatch(name) == Cardinality({other \in listing : Begins(name, other)})

Handler(h) ==
  \/ WriteFile(h) \/ Probe(h) \/ Create(h) \/ Write(h)
  \/ RefreshRead(h) \/ RefreshPut(h)

Next == \E h \in Handlers : Handler(h)

Spec == Init /\ [][Next]_vars

-----------------------------------------------------------------------------
(* Properties *)

TypeOK ==
  /\ pc \in [Handlers -> Working \cup {"idle", "failed", "done"}]
  /\ file \in [Handlers -> Names]
  /\ DOMAIN dir \subseteq Names
  /\ \A n \in DOMAIN dir : dir[n] \in Handlers \cup {"old", "empty", "partial", "mixed"}
  /\ listing \subseteq Names
  /\ seen \in [Handlers -> SUBSET Names]
  /\ overlapped \subseteq Handlers \X Handlers

\* A complete file is never touched by a handler that was not at work together
\* with the one that wrote it (getUniqueFile finds the name taken), and an old
\* file by none, whatever numbers are taken already.
CompleteStaysComplete ==
  [][\A n \in DOMAIN dir :
       /\ n \in DOMAIN dir'
       /\ dir[n] # dir'[n] /\ dir[n] \in Handlers \cup {"old"} =>
            \E g \in Handlers : pc[g] # pc'[g] /\ <<g, dir[n]>> \in overlapped]_vars

\* An upload that was written while no other was at work is in the directory
\* under its own name, whole, and in the listing, whatever was or is written
\* before and after it.
StoredAndListed ==
  \A h \in Handlers :
    pc[h] = "done" /\ (\A g \in Handlers : <<g, h>> \notin overlapped) =>
      /\ file[h] \in DOMAIN dir /\ dir[file[h]] = h
      /\ file[h] \in listing

\* Fields and directory.
Inv == TypeOK /\ StoredAndListed

\* "All the files uploaded by this student will be stored in this directory":
\* every upload whose writeFile has returned true.  The code breaks it.
AllStored ==
  \A h \in Handlers :
    pc[h] \in {"list", "put", "done"} => \E n \in DOMAIN dir : dir[n] = h

\* "Look up the list of all the files uploaded by him/her": when no handler is at
\* work the listing is the directory's.  The code breaks it.
ListingComplete ==
  (\A h \in Handlers : pc[h] \in {"idle", "done"}) => listing = DOMAIN dir

\* "... and download any of these files": each listed file can be named so that
\* it is the one that is sent.  The code breaks it.
ListedCanBeDownloaded == \A name \in listing : totalMatch(name) = 1

=============================================================================
