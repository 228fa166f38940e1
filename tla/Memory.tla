------------------------------- MODULE Memory -------------------------------
(***************************************************************************)
(* Physical memory of xv6 under sbrk, exec, fork, exit and wait: the         *)
(* allocator (kalloc.c), page tables (vm.c), exec.c, growproc() and fork()    *)
(* (proc.c).  Processes run at once: each call takes its pages one by one,    *)
(* and any kalloc() of it can find the list empty.                            *)
(***************************************************************************)
EXTENDS Naturals, FiniteSets

CONSTANTS
  Slots, Init0,     \* Init0: the process that runs from the start
  NPages,           \* physical pages
  MaxSz,            \* KERNBASE, in pages
  Programs,         \* the sizes of programs, in pages
  PerTable,         \* user pages one page-table page maps, 1024
  ShrinkToZero      \* whether a process may give back all of its memory

\* The first process and its page table are there, and a program fits below KERNBASE.
ASSUME MemoryAssumption ==
  /\ Slots \subseteq Nat \ {0} /\ Init0 \in Slots
  /\ NPages \in Nat /\ NPages >= 5
  /\ MaxSz \in Nat /\ MaxSz > 1 /\ PerTable \in Nat \ {0}
  /\ Programs \subseteq 0 .. MaxSz - 1 /\ ShrinkToZero \in BOOLEAN

Pages == 1 .. NPages
NoPage == 0
Spaces == {"cur", "new"}    \* the page table in use, and the one exec() and fork() build

VARIABLES
  free,             \* kmem.freelist
  state, kstack, sz,
  table,            \* the page tables: directory, tables, user pages
  job               \* the call a process is in

memoryVars == <<free, state, kstack, sz, table, job>>

Tables == 0 .. (MaxSz - 1) \div PerTable
Empty == [dir |-> NoPage, kern |-> NoPage, tab |-> [t \in Tables |-> NoPage],
          mem |-> [a \in 0 .. MaxSz - 1 |-> NoPage]]
NoJob == [op |-> "none", pc |-> "run", from |-> 0, at |-> 0, to |-> 0,
          mem |-> NoPage, child |-> NoPage]

PagesOf(s) ==
  ({s.dir, s.kern} \cup {s.tab[t] : t \in Tables} \cup {s.mem[a] : a \in 0 .. MaxSz - 1}) \ {NoPage}

\* main() makes the first process, of one page, before the others run.
MemoryInit ==
  /\ free = 6 .. NPages
  /\ state = [p \in Slots |-> IF p = Init0 THEN "RUNNING" ELSE "UNUSED"]
  /\ kstack = [p \in Slots |-> IF p = Init0 THEN 1 ELSE NoPage]
  /\ sz = [p \in Slots |-> IF p = Init0 THEN 1 ELSE 0]
  /\ table = [p \in Slots |-> [w \in Spaces |->
       IF p = Init0 /\ w = "cur"
       THEN [Empty EXCEPT !.dir = 2, !.kern = 3, !.tab[0] = 4, !.mem[0] = 5] ELSE Empty]]
  /\ job = [p \in Slots |-> NoJob]

-----------------------------------------------------------------------------
(* kalloc(): which of the free pages it is makes no difference *)

Page == CHOOSE x \in free : \A y \in free : x <= y

Idle(p) == state[p] = "RUNNING" /\ job[p] = NoJob

\* The page table p is filling, and the pages of it that are user memory.
W(p) == IF job[p].op = "sbrk" THEN "cur" ELSE "new"
UserPages(s, A) == {s.mem[a] : a \in A} \ {NoPage}
Without(s, A) == [s EXCEPT !.mem = [a \in DOMAIN @ |-> IF a \in A THEN NoPage ELSE @[a]]]

\* Mutant: the page in hand is forgotten when there is none for its table.
DropOnlyMapped(p, hand) ==
  IF job[p].op = "sbrk"
  THEN LET A == job[p].from .. job[p].to - 1 IN
       /\ free' = free \cup UserPages(table[p]["cur"], A)
       /\ table' = [table EXCEPT ![p]["cur"] = Without(@, A)]
       /\ UNCHANGED <<state, kstack>>
  ELSE /\ free' = free \cup PagesOf(table[p]["new"]) \cup
                  (IF job[p].op = "fork" THEN {kstack[job[p].child]} ELSE {})
       /\ table' = [table EXCEPT ![p]["new"] = Empty]
       /\ state' = [q \in Slots |-> IF q = job[p].child THEN "UNUSED" ELSE state[q]]
       /\ kstack' = [q \in Slots |-> IF q = job[p].child THEN NoPage ELSE kstack[q]]

\* Mutant: the sizes are swapped in the call of deallocuvm(), which takes nothing back then.
DropSwapped(p, hand) ==
  /\ job[p].op = "sbrk"
  /\ free' = (free \cup {hand}) \ {NoPage}
  /\ UNCHANGED <<state, kstack, table>>

\* allocuvm() takes back what it mapped; exec() and fork() free the whole new table, and
\* fork() its new process.
Drop(p, hand) ==
  IF job[p].op = "sbrk"
  THEN LET A == job[p].from .. job[p].to - 1 IN
       /\ free' = (free \cup UserPages(table[p]["cur"], A) \cup {hand}) \ {NoPage}
       /\ table' = [table EXCEPT ![p]["cur"] = Without(@, A)]
       /\ UNCHANGED <<state, kstack>>
  ELSE /\ free' = (free \cup PagesOf(table[p]["new"]) \cup {hand} \cup
                   (IF job[p].op = "fork" THEN {kstack[job[p].child]} ELSE {})) \ {NoPage}
       /\ table' = [table EXCEPT ![p]["new"] = Empty]
       /\ state' = [q \in Slots |-> IF q = job[p].child THEN "UNUSED" ELSE state[q]]
       /\ kstack' = [q \in Slots |-> IF q = job[p].child THEN NoPage ELSE kstack[q]]

Fail(p, hand) ==
  /\ Drop(p, hand)
  /\ job' = [job EXCEPT ![p] = NoJob]
  /\ UNCHANGED sz

-----------------------------------------------------------------------------
(* The calls *)

\* growproc(n), n > 0
Grow(p) == \E n \in 1 .. MaxSz :
  /\ Idle(p) /\ sz[p] + n < MaxSz
  /\ job' = [job EXCEPT ![p] = [NoJob EXCEPT
       !.op = "sbrk", !.pc = "page", !.from = sz[p], !.at = sz[p], !.to = sz[p] + n]]
  /\ UNCHANGED <<free, state, kstack, sz, table>>

\* growproc(n), n < 0.  deallocuvm() returns the new size, and 0 is taken for an error.
Shrink(p) == \E n \in 1 .. sz[p] :
  /\ Idle(p)
  /\ n = sz[p] => ShrinkToZero
  /\ LET A == sz[p] - n .. sz[p] - 1 IN
       /\ free' = free \cup UserPages(table[p]["cur"], A)
       /\ table' = [table EXCEPT ![p]["cur"] = Without(@, A)]
       /\ sz' = [sz EXCEPT ![p] = IF n = @ THEN @ ELSE @ - n]
  /\ UNCHANGED <<state, kstack, job>>

Exec(p) == \E n \in Programs :
  /\ Idle(p)
  /\ job' = [job EXCEPT ![p] = [NoJob EXCEPT !.op = "exec", !.pc = "dir", !.to = n]]
  /\ UNCHANGED <<free, state, kstack, sz, table>>

\* allocproc() takes the kernel stack of the child.
Fork(p) ==
  /\ Idle(p) /\ free # {}
  /\ \E q \in Slots :
       /\ state[q] = "UNUSED" /\ \A x \in Slots : state[x] = "UNUSED" => q <= x
       /\ state' = [state EXCEPT ![q] = "EMBRYO"]
       /\ kstack' = [kstack EXCEPT ![q] = Page]
       /\ job' = [job EXCEPT ![p] = [NoJob EXCEPT
            !.op = "fork", !.pc = "dir", !.to = sz[p], !.child = q]]
  /\ free' = free \ {Page}
  /\ UNCHANGED <<sz, table>>

\* setupkvm()
SetupDir(p) ==
  /\ job[p].pc = "dir"
  /\ IF free = {} THEN Fail(p, NoPage)
     ELSE /\ free' = free \ {Page}
          /\ table' = [table EXCEPT ![p]["new"].dir = Page]
          /\ job' = [job EXCEPT ![p].pc = "kern"]
          /\ UNCHANGED <<state, kstack, sz>>

SetupKern(p) ==
  /\ job[p].pc = "kern"
  /\ IF free = {} THEN Fail(p, NoPage)
     ELSE /\ free' = free \ {Page}
          /\ table' = [table EXCEPT ![p]["new"].kern = Page]
          /\ job' = [job EXCEPT ![p].pc = "page"]
          /\ UNCHANGED <<state, kstack, sz>>

\* allocuvm() and copyuvm() take a page; "copyuvm: page not present" is a panic.
TakePage(p) ==
  /\ job[p].pc = "page" /\ job[p].at < job[p].to
  /\ job[p].op = "fork" => table[p]["cur"].mem[job[p].at] # NoPage
  /\ IF free = {} THEN Fail(p, NoPage)
     ELSE /\ free' = free \ {Page}
          /\ job' = [job EXCEPT ![p].pc = "map", ![p].mem = Page]
          /\ UNCHANGED <<state, kstack, sz, table>>

\* mappages(): a page for the table may be needed first.
MapPage(p) ==
  LET j == job[p]
      t == j.at \div PerTable
      there == table[p][W(p)].tab[t] # NoPage
      filled == [table[p][W(p)] EXCEPT !.mem[j.at] = j.mem, !.tab[t] = IF there THEN @ ELSE Page] IN
  /\ j.pc = "map"
  /\ IF ~there /\ free = {} THEN Fail(p, j.mem)
     ELSE /\ free' = IF there THEN free ELSE free \ {Page}
          /\ table' = [table EXCEPT ![p][W(p)] = filled]
          /\ job' = [job EXCEPT ![p].pc = "page", ![p].at = @ + 1, ![p].mem = NoPage]
          /\ UNCHANGED <<state, kstack, sz>>

GrowDone(p) ==
  /\ job[p].op = "sbrk" /\ job[p].pc = "page" /\ job[p].at = job[p].to
  /\ sz' = [sz EXCEPT ![p] = job[p].to]
  /\ job' = [job EXCEPT ![p] = NoJob]
  /\ UNCHANGED <<free, state, kstack, table>>

\* The program cannot be read, or its arguments do not fit.
ExecBad(p) == job[p].op = "exec" /\ job[p].pc = "page" /\ Fail(p, NoPage)

\* Mutant: the old page table is not freed.
ExecKeepsOld(p) ==
  /\ job[p].op = "exec" /\ job[p].pc = "page" /\ job[p].at = job[p].to
  /\ table' = [table EXCEPT ![p]["cur"] = table[p]["new"], ![p]["new"] = Empty]
  /\ sz' = [sz EXCEPT ![p] = job[p].to]
  /\ job' = [job EXCEPT ![p] = NoJob]
  /\ UNCHANGED <<free, state, kstack>>

ExecDone(p) ==
  /\ job[p].op = "exec" /\ job[p].pc = "page" /\ job[p].at = job[p].to
  /\ free' = free \cup PagesOf(table[p]["cur"])
  /\ table' = [table EXCEPT ![p]["cur"] = table[p]["new"], ![p]["new"] = Empty]
  /\ sz' = [sz EXCEPT ![p] = job[p].to]
  /\ job' = [job EXCEPT ![p] = NoJob]
  /\ UNCHANGED <<state, kstack>>

ForkDone(p) ==
  /\ job[p].op = "fork" /\ job[p].pc = "page" /\ job[p].at = job[p].to
  /\ LET q == job[p].child IN
       /\ table' = [table EXCEPT ![q]["cur"] = table[p]["new"], ![p]["new"] = Empty]
       /\ sz' = [sz EXCEPT ![q] = job[p].to]
       /\ state' = [state EXCEPT ![q] = "RUNNING"]
  /\ job' = [job EXCEPT ![p] = NoJob]
  /\ UNCHANGED <<free, kstack>>

Exit(p) ==
  /\ Idle(p) /\ p # Init0
  /\ state' = [state EXCEPT ![p] = "ZOMBIE"]
  /\ UNCHANGED <<free, kstack, sz, table, job>>

\* wait() of its parent
Reap(p) ==
  /\ state[p] = "ZOMBIE"
  /\ free' = free \cup PagesOf(table[p]["cur"]) \cup {kstack[p]}
  /\ table' = [table EXCEPT ![p]["cur"] = Empty]
  /\ kstack' = [kstack EXCEPT ![p] = NoPage]
  /\ state' = [state EXCEPT ![p] = "UNUSED"]
  /\ UNCHANGED <<sz, job>>

MemoryNext == \E p \in Slots :
  \/ Grow(p) \/ Shrink(p) \/ Exec(p) \/ Fork(p)
  \/ SetupDir(p) \/ SetupKern(p) \/ TakePage(p) \/ MapPage(p)
  \/ GrowDone(p) \/ ExecBad(p) \/ ExecDone(p) \/ ForkDone(p)
  \/ Exit(p) \/ Reap(p)

MemorySpec == MemoryInit /\ [][MemoryNext]_memoryVars
-----------------------------------------------------------------------------
(* Properties *)

MemoryTypeOK ==
  /\ free \subseteq Pages
  /\ state \in [Slots -> {"UNUSED", "EMBRYO", "RUNNING", "ZOMBIE"}]
  /\ \A p \in Slots : sz[p] \in 0 .. MaxSz - 1 /\ kstack[p] \in Pages \cup {NoPage}

\* Who has page x: the kernel stack, the page in hand, the places of the two tables.
Owners(x) ==
  {<<"stack", p>> : p \in {q \in Slots : kstack[q] = x}}
  \cup {<<"hand", p>> : p \in {q \in Slots : job[q].mem = x}}
  \cup {y \in {"dir"} \X Slots \X Spaces : table[y[2]][y[3]].dir = x}
  \cup {y \in {"kern"} \X Slots \X Spaces : table[y[2]][y[3]].kern = x}
  \cup {y \in {"tab"} \X Slots \X Spaces \X Tables : table[y[2]][y[3]].tab[y[4]] = x}
  \cup {y \in {"mem"} \X Slots \X Spaces \X (0 .. MaxSz - 1) : table[y[2]][y[3]].mem[y[4]] = x}

\* Every page is free or has one owner, whatever fails where: none is lost, none is given
\* to two, none is freed while it is mapped.
MemoryInv ==
  /\ MemoryTypeOK
  /\ \A x \in Pages : Cardinality(Owners(x)) = IF x \in free THEN 0 ELSE 1

\* Between calls a process has the memory its size says.  With ShrinkToZero it does not:
\* "Return 0 on success, -1 on failure" (proc.c, of growproc()), and the memory is gone.
SizeIsMapped == \A p \in Slots : Idle(p) =>
  \A a \in 0 .. MaxSz - 1 : table[p]["cur"].mem[a] # NoPage <=> a < sz[p]
=============================================================================
