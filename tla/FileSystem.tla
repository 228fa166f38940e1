----------------------------- MODULE FileSystem -----------------------------
(***************************************************************************)
(* Inodes, directories and path names of the xv6 file system (fs.c) under   *)
(* the system calls open, close, mkdir, link, unlink and chdir (sysfile.c), *)
(* and what fork and exit do to the current directory (proc.c).             *)
(*                                                                          *)
(* A step is what a process does from one ilock(), iput() or iget() to the  *)
(* next: in between it holds the sleep-locks of lock[], and nobody else     *)
(* changes what it looks at.  The inode cache is write-through, so that an  *)
(* inode has one copy here, with the cache's ref, valid and lock beside it. *)
(* Where the code panics, the machine stops: no action is enabled for it.   *)
(***************************************************************************)
EXTENDS Naturals, Sequences, FiniteSets, TLC

CONSTANTS
  Procs,
  NINODES,
  Shipped,       \* the files mkfs puts in the root
  Running,       \* the processes there are at the start
  NOFILE,
  Calls,         \* the system calls: [op, absolute, path, new, mode], new for link, mode for open
  MaxCalls,      \* bound: calls of all processes together
  None

Inodes == 1 .. NINODES
Root == 1
Descriptors == 1 .. NOFILE

VARIABLES
  type, nlink,               \* struct dinode
  entries,                   \* the content of directories: the names in use and their inodes
  content,                   \* the content of files: what was written, in order
  ref, valid, lock,          \* struct inode
  cwd, file,                 \* struct proc: the current directory, the open files
  r,                         \* the call a process is in, and the pointers on its stack
  calls,
  lost                       \* history: the names of an inode that went with their directory

disk == <<type, nlink, entries, content, lost>>
icache == <<ref, valid, lock>>
proc == <<cwd, file>>
vars == <<disk, icache, proc, r, calls>>

NoEntries == <<>>

\* dirlookup()
Lookup(d, n) == IF n \in DOMAIN entries[d] THEN entries[d][n] ELSE None

\* The content of a directory in which n is i, as dirlink() leaves it.
Linked(d, n, i) == (n :> i) @@ d

Idle == [pc |-> "idle", call |-> None, rest |-> <<>>,
         ip |-> None, dp |-> None, old |-> None, drop |-> None, then |-> "idle"]

RootDir == Linked([k \in {"."} |-> Root], "..", Root)
    @@ [n \in {Shipped[k] : k \in DOMAIN Shipped} |-> 1 + CHOOSE k \in DOMAIN Shipped : Shipped[k] = n]

\* The disk as mkfs writes it, and the processes in the root.
Init ==
  /\ type = [i \in Inodes |->
       IF i = Root THEN "DIR" ELSE IF i <= 1 + Len(Shipped) THEN "FILE" ELSE "NONE"]
  /\ nlink = [i \in Inodes |-> IF i <= 1 + Len(Shipped) THEN 1 ELSE 0]
  /\ entries = [i \in Inodes |-> IF i = Root THEN RootDir ELSE NoEntries]
  /\ content = [i \in Inodes |-> <<>>]
  /\ ref = [i \in Inodes |-> IF i = Root THEN Cardinality(Running) ELSE 0]
  /\ valid = [i \in Inodes |-> FALSE]
  /\ lock = [i \in Inodes |-> None]
  /\ cwd = [p \in Procs |-> IF p \in Running THEN Root ELSE None]
  /\ file = [p \in Procs |-> [k \in Descriptors |-> None]]
  /\ r = [p \in Procs |-> Idle]
  /\ calls = 0
  /\ lost = [i \in Inodes |-> 0]

-----------------------------------------------------------------------------
(* ilock(), iget() and iput() *)

\* ilock(i) by one who lets go of it in the same step, with iget(n) under the lock.
LockAndGet(i, n) ==
  /\ lock[i] = None /\ type[i] # "NONE"
  /\ valid' = [k \in Inodes |-> IF k = i THEN TRUE ELSE IF k = n /\ ref[k] = 0 THEN FALSE ELSE valid[k]]
  /\ ref' = [k \in Inodes |-> IF k = n THEN ref[k] + 1 ELSE ref[k]]

\* p goes on to iput(i), and to l after it.
Drop(p, i, l, pointers) ==
  r' = [r EXCEPT ![p] = [pointers EXCEPT !.drop = i, !.then = l, !.pc = "iput"]]

\* Mutant: the other references to the inode are not looked at.
Unlinked(i) == valid[i] /\ nlink[i] = 0

Last(i) == valid[i] /\ nlink[i] = 0 /\ ref[i] = 1


\* The test under the lock; without links and other references the inode is freed.
Iput(p) ==
  /\ r[p].pc = "iput"
  /\ LET i == r[p].drop IN
       /\ lock[i] = None
       /\ IF Last(i)
          THEN /\ lock' = [lock EXCEPT ![i] = p]
               /\ type' = [type EXCEPT ![i] = "NONE"]
               /\ entries' = [entries EXCEPT ![i] = NoEntries]
               /\ content' = [content EXCEPT ![i] = <<>>]
               /\ lost' = [k \in Inodes |-> lost[k]
                    + Cardinality({n \in DOMAIN entries[i] \ {".", ".."} : entries[i][n] = k})]
               /\ r' = [r EXCEPT ![p].pc = "freed"]
          ELSE r' = [r EXCEPT ![p].pc = "ref--"] /\ UNCHANGED <<lock, type, entries, content, lost>>
  /\ UNCHANGED <<nlink, ref, valid, proc, calls>>

\* The inode may have been allocated again by now: what the cache holds of it is old.
IputInvalid(p) ==
  /\ r[p].pc = "freed"
  /\ valid' = [valid EXCEPT ![r[p].drop] = FALSE]
  /\ lock' = [lock EXCEPT ![r[p].drop] = None]
  /\ r' = [r EXCEPT ![p].pc = "ref--"]
  /\ UNCHANGED <<disk, ref, proc, calls>>

IputRef(p) ==
  /\ r[p].pc = "ref--"
  /\ ref' = [ref EXCEPT ![r[p].drop] = @ - 1]
  /\ r' = [r EXCEPT ![p] = IF r[p].then = "idle" THEN Idle
                            ELSE [r[p] EXCEPT !.drop = None, !.pc = r[p].then]]
  /\ UNCHANGED <<disk, valid, lock, proc, calls>>

-----------------------------------------------------------------------------
(* namex() *)

Call(p, c) ==
  /\ r[p].pc = "idle" /\ cwd[p] # None
  /\ LET i == IF c.absolute THEN Root ELSE cwd[p] IN
       /\ ref' = [ref EXCEPT ![i] = @ + 1]
       /\ valid' = [valid EXCEPT ![i] = @ /\ ref[i] > 0]
       /\ r' = [r EXCEPT ![p] = [Idle EXCEPT !.pc = "walk", !.call = c, !.rest = c.path, !.ip = i]]
  /\ UNCHANGED <<disk, lock, proc>>

Start(p) ==
  /\ calls < MaxCalls
  /\ \E c \in Calls : Call(p, c)
  /\ calls' = calls + 1

Op(p) == r[p].call.op

\* skipelem(): the next name, of which DIRSIZ characters count.
DIRSIZ == 14
Name(p) ==
  LET n == Head(r[p].rest) IN IF Len(n) > DIRSIZ THEN SubSeq(n, 1, DIRSIZ) ELSE n

\* nameiparent(): create, mkdir and unlink, and link for the new name.
WantsParent(p) == Op(p) \in {"create", "mkdir", "unlink"} \/ r[p].old # None

\* One element of the path.
Walk(p) ==
  /\ r[p].pc = "walk"
  /\ ~(WantsParent(p) /\ Len(r[p].rest) = 1 /\ type[r[p].ip] = "DIR")
  /\ r[p].rest # <<>>
  /\ LET i == r[p].ip
         n == IF type[i] = "DIR" THEN Lookup(i, Name(p)) ELSE None IN
       /\ LockAndGet(i, n)
       /\ IF n = None
          THEN Drop(p, i, IF r[p].old = None THEN "idle" ELSE "bad", [r[p] EXCEPT !.ip = None])
          ELSE Drop(p, i, "walk", [r[p] EXCEPT !.ip = n, !.rest = Tail(@)])
  /\ UNCHANGED <<disk, lock, proc, calls>>

\* A path without a name has no parent.
WalkEmpty(p) ==
  /\ r[p].pc = "walk" /\ r[p].rest = <<>> /\ WantsParent(p)
  /\ Drop(p, r[p].ip, IF r[p].old = None THEN "idle" ELSE "bad", [r[p] EXCEPT !.ip = None])
  /\ UNCHANGED <<disk, icache, proc, calls>>

\* The directory the last element is looked up in.
AtParent(p, ops) ==
  /\ r[p].pc = "walk" /\ WantsParent(p) /\ Len(r[p].rest) = 1
  /\ type[r[p].ip] = "DIR"
  /\ Op(p) \in ops

\* The path is at its end.
AtEnd(p, ops) == r[p].pc = "walk" /\ r[p].rest = <<>> /\ r[p].old = None /\ Op(p) \in ops

-----------------------------------------------------------------------------
(* open(), close(), read(), write(), chdir() *)

HasFd(p) == \E k \in Descriptors : file[p][k] = None

\* fdalloc(): the lowest free descriptor.
Opened(p, i) == [file EXCEPT ![p][CHOOSE k \in Descriptors :
    file[p][k] = None /\ \A j \in 1 .. k - 1 : file[p][j] # None] =
  [ip |-> i, mode |-> r[p].call.mode]]

\* Mutant: a directory is opened for writing too.
Openable(i, mode) == TRUE

MayOpen(i, mode) == type[i] = "DIR" => mode = "r"

Open(p) ==
  /\ AtEnd(p, {"open"})
  /\ LET i == r[p].ip IN
       /\ LockAndGet(i, None)
       /\ IF MayOpen(i, r[p].call.mode) /\ HasFd(p)
          THEN file' = Opened(p, i) /\ r' = [r EXCEPT ![p] = Idle]
          ELSE Drop(p, i, "idle", [r[p] EXCEPT !.ip = None]) /\ UNCHANGED file
  /\ UNCHANGED <<disk, lock, cwd, calls>>

Close(p, k) ==
  /\ r[p].pc = "idle" /\ file[p][k] # None
  /\ file' = [file EXCEPT ![p][k] = None]
  /\ Drop(p, file[p][k].ip, "idle", Idle)
  /\ UNCHANGED <<disk, icache, cwd, calls>>

\* The descriptor is open for reading: then the file is looked at under its lock.
Read(p, k) ==
  /\ r[p].pc = "idle" /\ file[p][k] # None /\ file[p][k].mode # "w"
  /\ LockAndGet(file[p][k].ip, None)
  /\ UNCHANGED <<disk, lock, proc, r, calls>>

\* Every write here is at the end of its file.
Write(p, k, text) ==
  /\ r[p].pc = "idle" /\ file[p][k] # None /\ file[p][k].mode # "r"
  /\ LockAndGet(file[p][k].ip, None)
  /\ content' = [content EXCEPT ![file[p][k].ip] = Append(@, text)]
  /\ UNCHANGED <<type, nlink, entries, lost, lock, proc, r, calls>>

Chdir(p) ==
  /\ AtEnd(p, {"chdir"})
  /\ LET i == r[p].ip IN
       /\ LockAndGet(i, None)
       /\ IF type[i] = "DIR"
          THEN cwd' = [cwd EXCEPT ![p] = i] /\ Drop(p, cwd[p], "idle", [r[p] EXCEPT !.ip = None])
          ELSE Drop(p, i, "idle", [r[p] EXCEPT !.ip = None]) /\ UNCHANGED cwd
  /\ UNCHANGED <<disk, lock, file, calls>>

\* fork() of a process without open files: the child is in its parent's directory.
Fork(p, q) ==
  /\ r[p].pc = "idle" /\ cwd[p] # None /\ cwd[q] = None
  /\ \A k \in Descriptors : file[p][k] = None
  /\ ref' = [ref EXCEPT ![cwd[p]] = @ + 1]
  /\ cwd' = [cwd EXCEPT ![q] = cwd[p]]
  /\ UNCHANGED <<disk, valid, lock, file, r, calls>>

\* exit() puts the current directory when the files are closed.
Exit(p) ==
  /\ r[p].pc = "idle" /\ cwd[p] # None
  /\ \A k \in Descriptors : file[p][k] = None
  /\ cwd' = [cwd EXCEPT ![p] = None]
  /\ Drop(p, cwd[p], "idle", Idle)
  /\ UNCHANGED <<disk, icache, file, calls>>

-----------------------------------------------------------------------------
(* create(), for open() with O_CREATE and for mkdir() *)

Free == {i \in Inodes : type[i] = "NONE"}

CreateExists(p) ==
  /\ AtParent(p, {"create", "mkdir"})
  /\ LET d == r[p].ip
         n == Lookup(d, Name(p)) IN
       /\ n # None
       /\ LockAndGet(d, n)
       /\ Drop(p, d, "exists", [r[p] EXCEPT !.ip = n])
  /\ UNCHANGED <<disk, lock, proc, calls>>

\* The first free inode is taken; the directory stays locked.
CreateAlloc(p) ==
  /\ AtParent(p, {"create", "mkdir"})
  /\ LET d == r[p].ip
         n == CHOOSE i \in Free : \A j \in Free : i <= j IN
       /\ Lookup(d, Name(p)) = None /\ Free # {}
       /\ LockAndGet(d, n)
       /\ lock' = [lock EXCEPT ![d] = p]
       /\ type' = [type EXCEPT ![n] = IF Op(p) = "mkdir" THEN "DIR" ELSE "FILE"]
       /\ nlink' = [nlink EXCEPT ![n] = 0]
       /\ r' = [r EXCEPT ![p].pc = "make", ![p].ip = n, ![p].dp = d]
  /\ UNCHANGED <<entries, content, lost, proc, calls>>

\* The new inode is locked, gets its link and, a directory, "." and ".."; its name comes
\* last.  The directory is let go, the inode is not.
CreateLink(p) ==
  /\ r[p].pc = "make" /\ lock[r[p].ip] = None
  /\ LET d == r[p].dp
         n == r[p].ip
         dir == type[n] = "DIR" IN
       /\ valid' = [valid EXCEPT ![n] = TRUE]
       /\ nlink' = [nlink EXCEPT ![n] = 1, ![d] = IF dir THEN @ + 1 ELSE @]
       /\ entries' = [entries EXCEPT
            ![n] = IF dir THEN Linked(Linked(NoEntries, ".", n), "..", d) ELSE @,
            ![d] = Linked(@, Name(p), n)]
       /\ lock' = [lock EXCEPT ![d] = None, ![n] = p]
       /\ Drop(p, d, "made", [r[p] EXCEPT !.dp = None])
  /\ UNCHANGED <<type, content, lost, ref, proc, calls>>

\* The inode is locked: open() takes it if it has a descriptor, mkdir() puts it.
Created(p) ==
  LET i == r[p].ip IN
  IF Op(p) = "create" /\ type[i] = "FILE" /\ HasFd(p)
  THEN file' = Opened(p, i) /\ r' = [r EXCEPT ![p] = Idle]
  ELSE Drop(p, i, "idle", [r[p] EXCEPT !.ip = None]) /\ UNCHANGED file

CreateEnds(p) ==
  /\ r[p].pc = "made"
  /\ lock' = [lock EXCEPT ![r[p].ip] = None]
  /\ Created(p)
  /\ UNCHANGED <<disk, ref, valid, cwd, calls>>

CreateFound(p) ==
  /\ r[p].pc = "exists"
  /\ LockAndGet(r[p].ip, None)
  /\ Created(p)
  /\ UNCHANGED <<disk, lock, cwd, calls>>

-----------------------------------------------------------------------------
(* unlink() *)

UnlinkFails(p) ==
  /\ AtParent(p, {"unlink"})
  /\ Name(p) \in {".", ".."} \/ Lookup(r[p].ip, Name(p)) = None
  /\ LockAndGet(r[p].ip, None)
  /\ Drop(p, r[p].ip, "idle", [r[p] EXCEPT !.ip = None])
  /\ UNCHANGED <<disk, lock, proc, calls>>

\* The directory stays locked while the process waits for the inode.
UnlinkLookup(p) ==
  /\ AtParent(p, {"unlink"})
  /\ LET d == r[p].ip
         n == Lookup(d, Name(p)) IN
       /\ Name(p) \notin {".", ".."} /\ n # None
       /\ LockAndGet(d, n)
       /\ lock' = [lock EXCEPT ![d] = p]
       /\ r' = [r EXCEPT ![p].pc = "unlink", ![p].dp = d, ![p].ip = n]
  /\ UNCHANGED <<disk, proc, calls>>

IsDirEmpty(i) == DOMAIN entries[i] \subseteq {".", ".."}

UnlinkNotEmpty(p) ==
  /\ r[p].pc = "unlink" /\ lock[r[p].ip] = None
  /\ type[r[p].ip] = "DIR" /\ ~IsDirEmpty(r[p].ip)
  /\ valid' = [valid EXCEPT ![r[p].ip] = TRUE]
  /\ Drop(p, r[p].ip, "giveup", [r[p] EXCEPT !.ip = None])
  /\ UNCHANGED <<disk, ref, lock, proc, calls>>

UnlinkGivesUp(p) ==
  /\ r[p].pc = "giveup"
  /\ lock' = [lock EXCEPT ![r[p].dp] = None]
  /\ Drop(p, r[p].dp, "idle", [r[p] EXCEPT !.dp = None])
  /\ UNCHANGED <<disk, ref, valid, proc, calls>>

\* The entry goes, then the directory is put while the inode stays locked.
UnlinkEntry(p) ==
  /\ r[p].pc = "unlink"
  /\ LET i == r[p].ip
         d == r[p].dp IN
       /\ lock[i] = None /\ nlink[i] > 0
       /\ type[i] = "DIR" => IsDirEmpty(i)
       /\ valid' = [valid EXCEPT ![i] = TRUE]
       /\ entries' = [entries EXCEPT ![d] = [n \in DOMAIN @ \ {Name(p)} |-> @[n]]]
       /\ nlink' = [nlink EXCEPT ![d] = IF type[i] = "DIR" THEN @ - 1 ELSE @]
       /\ lock' = [lock EXCEPT ![d] = None, ![i] = p]
       /\ Drop(p, d, "unlinked", [r[p] EXCEPT !.dp = None])
  /\ UNCHANGED <<type, content, lost, ref, proc, calls>>

UnlinkEnds(p) ==
  /\ r[p].pc = "unlinked"
  /\ nlink' = [nlink EXCEPT ![r[p].ip] = @ - 1]
  /\ lock' = [lock EXCEPT ![r[p].ip] = None]
  /\ Drop(p, r[p].ip, "idle", [r[p] EXCEPT !.ip = None])
  /\ UNCHANGED <<type, entries, content, lost, ref, valid, proc, calls>>

-----------------------------------------------------------------------------
(* link() *)

\* Mutant: the new name is made without counting it.
LinkOldUncounted(p) ==
  /\ AtEnd(p, {"link"}) /\ type[r[p].ip] # "DIR"
  /\ LET i == r[p].ip
         start == IF r[p].call.absolute THEN Root ELSE cwd[p] IN
       /\ LockAndGet(i, start)
       /\ r' = [r EXCEPT ![p].old = i, ![p].ip = start, ![p].rest = r[p].call.new]
  /\ UNCHANGED <<disk, lock, proc, calls>>

\* The link is counted before the new name is looked up.
LinkOld(p) ==
  /\ AtEnd(p, {"link"})
  /\ LET i == r[p].ip
         c == r[p].call
         start == IF c.absolute THEN Root ELSE cwd[p] IN
       IF type[i] = "DIR"
       THEN /\ LockAndGet(i, None)
            /\ Drop(p, i, "idle", [r[p] EXCEPT !.ip = None])
            /\ UNCHANGED nlink
       ELSE /\ LockAndGet(i, start)
            /\ nlink' = [nlink EXCEPT ![i] = @ + 1]
            /\ r' = [r EXCEPT ![p].old = i, ![p].ip = start, ![p].rest = c.new]
  /\ UNCHANGED <<type, entries, content, lost, lock, proc, calls>>

LinkNew(p) ==
  /\ AtParent(p, {"link"})
  /\ LET d == r[p].ip IN
       /\ Lookup(d, Name(p)) = None
       /\ LockAndGet(d, None)
       /\ entries' = [entries EXCEPT ![d] = Linked(@, Name(p), r[p].old)]
       /\ Drop(p, d, "linked", [r[p] EXCEPT !.ip = None])
  /\ UNCHANGED <<type, nlink, content, lost, lock, proc, calls>>

\* dirlink() finds the name, and puts its inode while the directory is locked.
LinkExists(p) ==
  /\ AtParent(p, {"link"})
  /\ LET d == r[p].ip
         n == Lookup(d, Name(p)) IN
       /\ n # None
       /\ LockAndGet(d, n)
       /\ lock' = [lock EXCEPT ![d] = p]
       /\ Drop(p, n, "noname", [r[p] EXCEPT !.ip = None, !.dp = d])
  /\ UNCHANGED <<disk, proc, calls>>

LinkFails(p) ==
  /\ r[p].pc = "noname"
  /\ lock' = [lock EXCEPT ![r[p].dp] = None]
  /\ Drop(p, r[p].dp, "bad", [r[p] EXCEPT !.dp = None])
  /\ UNCHANGED <<disk, ref, valid, proc, calls>>

\* Mutant: the link stays counted.
LinkUndone(p) ==
  /\ r[p].pc = "bad"
  /\ LockAndGet(r[p].old, None)
  /\ Drop(p, r[p].old, "idle", [r[p] EXCEPT !.old = None])
  /\ UNCHANGED <<disk, lock, proc, calls>>

LinkUndo(p) ==
  /\ r[p].pc = "bad"
  /\ LockAndGet(r[p].old, None)
  /\ nlink' = [nlink EXCEPT ![r[p].old] = @ - 1]
  /\ Drop(p, r[p].old, "idle", [r[p] EXCEPT !.old = None])
  /\ UNCHANGED <<type, entries, content, lost, lock, proc, calls>>

LinkEnds(p) ==
  /\ r[p].pc = "linked"
  /\ Drop(p, r[p].old, "idle", [r[p] EXCEPT !.old = None])
  /\ UNCHANGED <<disk, icache, proc, calls>>

-----------------------------------------------------------------------------
Step(p) ==
  \/ Iput(p) \/ IputInvalid(p) \/ IputRef(p) \/ Walk(p) \/ WalkEmpty(p) \/ Open(p) \/ Chdir(p)
  \/ CreateExists(p) \/ CreateAlloc(p) \/ CreateLink(p) \/ CreateEnds(p) \/ CreateFound(p)
  \/ UnlinkFails(p) \/ UnlinkLookup(p) \/ UnlinkNotEmpty(p) \/ UnlinkGivesUp(p)
  \/ UnlinkEntry(p) \/ UnlinkEnds(p)
  \/ LinkOld(p) \/ LinkNew(p) \/ LinkExists(p) \/ LinkFails(p) \/ LinkUndo(p) \/ LinkEnds(p)

Next == \E p \in Procs : Start(p) \/ (\E k \in Descriptors : Close(p, k)) \/ Step(p)

Spec == Init /\ [][Next]_vars
-----------------------------------------------------------------------------
(* Properties *)

TypeOK ==
  /\ type \in [Inodes -> {"NONE", "DIR", "FILE"}]
  /\ nlink \in [Inodes -> Nat] /\ ref \in [Inodes -> Nat]
  /\ \A i \in Inodes : \A n \in DOMAIN entries[i] : entries[i][n] \in Inodes
  /\ valid \in [Inodes -> BOOLEAN]
  /\ lock \in [Inodes -> Procs \cup {None}]
  /\ cwd \in [Procs -> Inodes \cup {None}]
  /\ calls \in 0 .. MaxCalls /\ lost \in [Inodes -> Nat]

\* The pointers to i: current directories, what the calls hold, open files.
PointersTo(i) ==
  Cardinality({p \in Procs : cwd[p] = i})
  + Cardinality({x \in Procs \X {"ip", "dp", "old", "drop"} : r[x[1]][x[2]] = i})
  + Cardinality({x \in Procs \X Descriptors :
                   file[x[1]][x[2]] # None /\ file[x[1]][x[2]].ip = i})

\* Every pointer to an inode is counted, and none points to a freed one but the pointer of
\* the process that has just freed it.
Inv ==
  /\ TypeOK
  /\ \A i \in Inodes : ref[i] = PointersTo(i)
  /\ \A i \in Inodes : type[i] = "NONE" =>
       PointersTo(i) = Cardinality({p \in Procs : r[p].pc \in {"freed", "ref--"} /\ r[p].drop = i})

Quiet == \A p \in Procs : r[p].pc = "idle"

\* The names of i: its entries, the ".." of its subdirectories with a name, and the root.
Links(i) == Cardinality(UNION {{<<d, n>> :
      n \in {m \in DOMAIN entries[d] \ {".", ".."} : entries[d][m] = i}} : d \in Inodes})
  + Cardinality({d \in Inodes \ {Root} : nlink[d] > 0 /\ Lookup(d, "..") = i})
  + IF i = Root THEN 1 ELSE 0

\* Between calls no lock is held, and each inode has as many names as links.  A file made
\* in a directory that another process is removing loses its name and keeps the link.
LinksCounted == Quiet => \A i \in Inodes :
  /\ lock[i] = None
  /\ Links(i) + lost[i] = IF type[i] = "NONE" THEN 0 ELSE nlink[i]

\* "If that was the last reference and the inode has no links to it, free the inode (and
\* its content) on disk" (fs.c, of iput()).
FreedAtLast == \A i \in Inodes :
  type[i] # "NONE" /\ ref[i] = 0 => nlink[i] > 0

\* No name leads to a freed inode, at any time: "ilock: no type" (fs.c).
NoDangling == \A d \in Inodes : \A n \in DOMAIN entries[d] : type[entries[d][n]] # "NONE"

\* Two calls do not wait for each other's inodes: "The separation also helps avoid deadlock
\* and races during pathname lookup" (fs.c, of iget() and ilock()).
Wants(p) ==
  IF r[p].pc = "iput" THEN r[p].drop
  ELSE IF r[p].pc \in {"make", "unlink", "exists", "walk"} THEN r[p].ip
  ELSE IF r[p].pc = "bad" THEN r[p].old ELSE None

NoCircularWait == ~\E p, q \in Procs :
  /\ Wants(p) # None /\ lock[Wants(p)] = q
  /\ Wants(q) # None /\ lock[Wants(q)] = p
=============================================================================
