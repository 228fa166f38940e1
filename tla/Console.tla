------------------------------- MODULE Console -------------------------------
(***************************************************************************)
(* Console input of xv6 (console.c): the keyboard interrupt puts characters  *)
(* into a circular buffer and edits the line, readers take finished input.   *)
(* A reader holds cons.lock from character to character, the interrupt for    *)
(* each key.  The three indexes only grow here (the buffer is indexed modulo  *)
(* INPUT_BUF).                                                               *)
(***************************************************************************)
EXTENDS Naturals, Sequences, FiniteSets

CONSTANTS
  Readers,
  INPUT_BUF,
  Sizes,         \* the n of read()
  MaxKeys,       \* bound: keys pressed
  None

ConsoleAssumption ==
  INPUT_BUF \in Nat \ {0} /\ Sizes \subseteq Nat \ {0} /\ None \notin Readers

Chars == {"a", "NL", "EOF"}     \* "EOF" is control-D

VARIABLES
  buf, rd, wr, ed,    \* input.buf, input.r, input.w, input.e
  lock,               \* cons.lock: the reader that holds it
  pc, target, n,      \* consoleread()
  killed,
  keys,
  owed                \* history: what was entered and no reader has taken

input == <<buf, rd, wr, ed>>
reader == <<lock, pc, target, n>>
vars == <<input, reader, killed, keys, owed>>

Init ==
  /\ buf = [i \in 0 .. INPUT_BUF - 1 |-> "a"] /\ rd = 0 /\ wr = 0 /\ ed = 0
  /\ lock = None /\ pc = [p \in Readers |-> "out"]
  /\ target = [p \in Readers |-> 0] /\ n = [p \in Readers |-> 0]
  /\ killed = [p \in Readers |-> FALSE]
  /\ keys = 0 /\ owed = <<>>

Between(i, j) == [k \in 1 .. j - i |-> buf[(i + k - 1) % INPUT_BUF]]

-----------------------------------------------------------------------------
(* consoleintr() *)

Key == lock = None /\ keys < MaxKeys /\ keys' = keys + 1

\* Mutant: one reader is woken, not all.
WokenOne == IF \A p \in Readers : pc[p] # "asleep" THEN pc
            ELSE [pc EXCEPT ![CHOOSE p \in Readers : pc[p] = "asleep"] = "enter"]

\* Those who sleep on &input.r are runnable.
Woken == [p \in Readers |-> IF pc[p] = "asleep" THEN "enter" ELSE pc[p]]

\* Mutant: a line that fills the buffer is not finished.
Ends(c) == c \in {"NL", "EOF"}

Finishes(c) == c \in {"NL", "EOF"} \/ ed + 1 = rd + INPUT_BUF

Type == \E c \in Chars :
  /\ Key
  /\ ed - rd < INPUT_BUF
  /\ buf' = [buf EXCEPT ![ed % INPUT_BUF] = c]
  /\ ed' = ed + 1
  /\ IF Finishes(c)
     THEN /\ wr' = ed + 1 /\ pc' = Woken
          /\ owed' = owed \o Append(Between(wr, ed), c)
     ELSE UNCHANGED <<wr, pc, owed>>
  /\ UNCHANGED <<rd, lock, target, n, killed>>

TypeWhenFull ==
  /\ Key /\ ed - rd = INPUT_BUF
  /\ UNCHANGED <<input, reader, killed, owed>>

\* Mutant: the last character goes, finished or not.
BackspaceAlways ==
  /\ Key /\ ed > 0 /\ ed' = ed - 1
  /\ UNCHANGED <<buf, rd, wr, reader, killed, owed>>

Backspace ==
  /\ Key
  /\ ed' = IF ed # wr THEN ed - 1 ELSE ed
  /\ UNCHANGED <<buf, rd, wr, reader, killed, owed>>

\* Back to the end of the line before: what is not finished has no "NL" in it.
KillLine ==
  /\ Key
  /\ ed' = CHOOSE e \in wr .. ed : \A x \in wr .. ed :
       (\A k \in x .. ed - 1 : buf[k % INPUT_BUF] # "NL") => e <= x
  /\ UNCHANGED <<buf, rd, wr, reader, killed, owed>>

-----------------------------------------------------------------------------
(* consoleread() *)

Read(p) == \E k \in Sizes :
  /\ pc[p] = "out" /\ ~killed[p]
  /\ target' = [target EXCEPT ![p] = k] /\ n' = [n EXCEPT ![p] = k]
  /\ pc' = [pc EXCEPT ![p] = "enter"]
  /\ UNCHANGED <<input, lock, killed, keys, owed>>

\* acquire(), and again when sleep() returns
Acquire(p) ==
  /\ pc[p] = "enter" /\ lock = None
  /\ lock' = p /\ pc' = [pc EXCEPT ![p] = "loop"]
  /\ UNCHANGED <<input, target, n, killed, keys, owed>>

Sleep(p) ==
  /\ pc[p] = "loop" /\ rd = wr /\ ~killed[p]
  /\ pc' = [pc EXCEPT ![p] = "asleep"] /\ lock' = None
  /\ UNCHANGED <<input, target, n, killed, keys, owed>>

Out(p) == pc' = [pc EXCEPT ![p] = "out"] /\ lock' = None

GiveUp(p) ==
  /\ pc[p] = "loop" /\ rd = wr /\ killed[p]
  /\ Out(p)
  /\ UNCHANGED <<input, target, n, killed, keys, owed>>

\* Mutant: an end of file that ends a shorter read is used up by it.
EofTaken(p) ==
  /\ pc[p] = "loop" /\ rd # wr /\ buf[rd % INPUT_BUF] = "EOF"
  /\ rd' = rd + 1
  /\ owed' = IF n[p] < target[p] THEN owed ELSE Tail(owed)
  /\ Out(p)
  /\ UNCHANGED <<buf, wr, ed, target, n, killed, keys>>

\* The end of file stays in the buffer if the read has something to return.
Eof(p) ==
  /\ pc[p] = "loop" /\ rd # wr /\ buf[rd % INPUT_BUF] = "EOF"
  /\ IF n[p] < target[p] THEN UNCHANGED <<rd, owed>>
     ELSE rd' = rd + 1 /\ owed' = Tail(owed)
  /\ Out(p)
  /\ UNCHANGED <<buf, wr, ed, target, n, killed, keys>>

Take(p) ==
  LET c == buf[rd % INPUT_BUF] IN
  /\ pc[p] = "loop" /\ rd # wr /\ c # "EOF"
  /\ rd' = rd + 1 /\ owed' = Tail(owed)
  /\ n' = [n EXCEPT ![p] = @ - 1]
  /\ IF n[p] = 1 \/ c = "NL" THEN Out(p) ELSE UNCHANGED <<pc, lock>>
  /\ UNCHANGED <<buf, wr, ed, target, killed, keys>>

\* Mutant: a reader asleep is not woken.
KillLater(p) ==
  /\ ~killed[p] /\ killed' = [killed EXCEPT ![p] = TRUE]
  /\ UNCHANGED <<input, reader, keys, owed>>

\* kill() of another process
Kill(p) ==
  /\ ~killed[p] /\ killed' = [killed EXCEPT ![p] = TRUE]
  /\ pc' = [pc EXCEPT ![p] = IF @ = "asleep" THEN "enter" ELSE @]
  /\ UNCHANGED <<input, lock, target, n, keys, owed>>

Reader(p) == Acquire(p) \/ Sleep(p) \/ GiveUp(p) \/ Eof(p) \/ Take(p)

Next ==
  \/ Type \/ TypeWhenFull \/ Backspace \/ KillLine
  \/ \E p \in Readers : Read(p) \/ Reader(p) \/ Kill(p)

Spec == Init /\ [][Next]_vars
FairSpec == Spec /\ \A p \in Readers : SF_vars(Reader(p))
-----------------------------------------------------------------------------
(* Properties *)

TypeOK ==
  /\ rd \in 0 .. wr /\ wr \in rd .. ed /\ ed \in wr .. rd + INPUT_BUF
  /\ lock \in Readers \cup {None}
  /\ \A p \in Readers : pc[p] = "loop" <=> lock = p

\* What has been entered is read once and in order, whatever is edited after it; the
\* buffer is never full of a line that nobody can read; no reader sleeps on input.
Inv ==
  /\ TypeOK
  /\ Between(rd, wr) = owed
  /\ ed = rd + INPUT_BUF => wr = ed
  /\ \A p \in Readers : pc[p] = "asleep" => rd = wr

\* A reader ends its read, unless it waits for the keyboard; a killed one always does.
ReadersEnd == \A p \in Readers :
  pc[p] # "out" ~> pc[p] = "out" \/ (pc[p] = "asleep" /\ rd = wr /\ ~killed[p])
=============================================================================
