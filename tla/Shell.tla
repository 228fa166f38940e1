------------------------------- MODULE Shell -------------------------------
(***************************************************************************)
(* The xv6 shell parses a line of tokens and runs its commands: sh.c over     *)
(* fork(), exit(), wait(), pipe(), dup(), open(), close(), read() and write(),*)
(* with the file table (file.c, sysfile.c) that fork() shares.  The programs  *)
(* are echo and cat.                                                        *)
(*                                                                          *)
(* A step is one system call, or one word of a write.  A process carries the *)
(* calls it has yet to make: runcmd() only decides which.                    *)
(***************************************************************************)
EXTENDS Naturals, FiniteSets, SequencesExt

CONSTANTS
  NPROC, NFILE, NOFILE, PIPESIZE,      \* param.h, pipe.c
  Names,                               \* names of files
  Sessions,                            \* what is typed: sequences of lines of tokens
  None

-----------------------------------------------------------------------------
(* The parser, and what a parsed command is to do to its input, its output and the files *)

Symbols == {"(", ")", "|", ";", "&", "<", ">"}

\* struct execcmd, redircmd, pipecmd, listcmd and backcmd
Exec(argv) == [type |-> "EXEC", argv |-> argv]
Redir(c, file, fd) == [type |-> "REDIR", cmd |-> c, file |-> file, fd |-> fd]
PipeCmd(l, r) == [type |-> "PIPE", left |-> l, right |-> r]
ListCmd(l, r) == [type |-> "LIST", left |-> l, right |-> r]
Back(c) == [type |-> "BACK", cmd |-> c]

\* What a parsing function returns: the command and the rest of the line, or panic().
Parsed(c, s) == [ok |-> TRUE, cmd |-> c, rest |-> s]
Panic == [ok |-> FALSE, cmd |-> None, rest |-> <<>>]

\* peek()
At(s, tokens) == s # <<>> /\ Head(s) \in tokens

RECURSIVE ParseRedirs(_, _, _)
\* The redirections in front of s, after those of rs.
ParseRedirs(rs, s, ok) ==
  IF ~ok \/ ~At(s, {"<", ">"}) THEN [ok |-> ok, redirs |-> rs, rest |-> s]
  ELSE IF Len(s) = 1 \/ s[2] \in Symbols THEN ParseRedirs(rs, s, FALSE)
  ELSE ParseRedirs(Append(rs, <<s[2], IF s[1] = "<" THEN 0 ELSE 1>>), SubSeq(s, 3, Len(s)), TRUE)

RECURSIVE Wrap(_, _)
\* The redirection that comes last is the outermost.
Wrap(c, rs) == IF rs = <<>> THEN c ELSE Wrap(Redir(c, rs[1][1], rs[1][2]), Tail(rs))

Redirected(c, r) == IF r.ok THEN Parsed(Wrap(c, r.redirs), r.rest) ELSE Panic

RECURSIVE ParseArgs(_, _)
\* Arguments with redirections between them; r is what was read last of these.
ParseArgs(argv, r) ==
  IF ~r.ok THEN Panic
  ELSE IF r.rest = <<>> \/ At(r.rest, {"|", ")", "&", ";"}) THEN Redirected(Exec(argv), r)
  ELSE IF Head(r.rest) \in Symbols THEN Panic
  ELSE ParseArgs(Append(argv, Head(r.rest)), ParseRedirs(r.redirs, Tail(r.rest), TRUE))

\* l and what stands behind the symbol after it
Joined(l, Make(_, _), r) == IF r.ok THEN Parsed(Make(l.cmd, r.cmd), r.rest) ELSE Panic

RECURSIVE ParseLine(_), ParsePipe(_), ParseExec(_), Backs(_), PipeRest(_), LineRest(_)

\* Mutant: one "&" only.
BackOnce(p) == IF p.ok /\ At(p.rest, {"&"}) THEN Parsed(Back(p.cmd), Tail(p.rest)) ELSE p

Backs(p) == IF p.ok /\ At(p.rest, {"&"}) THEN Backs(Parsed(Back(p.cmd), Tail(p.rest))) ELSE p

ParseLine(s) == LineRest(Backs(ParsePipe(s)))

LineRest(b) ==
  IF b.ok /\ At(b.rest, {";"}) THEN Joined(b, ListCmd, ParseLine(Tail(b.rest))) ELSE b

ParsePipe(s) == PipeRest(ParseExec(s))

PipeRest(l) ==
  IF l.ok /\ At(l.rest, {"|"}) THEN Joined(l, PipeCmd, ParsePipe(Tail(l.rest))) ELSE l

ParseBlock(b) ==
  IF b.ok /\ At(b.rest, {")"})
  THEN Redirected(b.cmd, ParseRedirs(<<>>, Tail(b.rest), TRUE)) ELSE Panic

ParseExec(s) ==
  IF At(s, {"("}) THEN ParseBlock(ParseLine(Tail(s)))
  ELSE ParseArgs(<<>>, ParseRedirs(<<>>, s, TRUE))

\* parsecmd(): leftovers are a syntax error.
Whole(r) == IF r.ok /\ r.rest = <<>> THEN r ELSE Panic
ParseCmd(s) == Whole(ParseLine(s))

-----------------------------------------------------------------------------
(* A reference for the parser: where a line comes apart.  ";" binds least, then "&" at *)
(* the end, then "|"; each takes what is left of its first occurrence.                 *)

\* The first of these tokens outside parentheses, 0 if there is none.
Depth(s, k) == Cardinality({j \in 1 .. k - 1 : s[j] = "("}) - Cardinality({j \in 1 .. k - 1 : s[j] = ")"})
Top(s, token) == {k \in 1 .. Len(s) : s[k] = token /\ Depth(s, k) = 0}
FirstTop(s, token) == CHOOSE k \in Top(s, token) : \A j \in Top(s, token) : k <= j
Before(s, k) == SubSeq(s, 1, k - 1)
After(s, k) == SubSeq(s, k + 1, Len(s))

Good(c) == [ok |-> TRUE, cmd |-> c]
Bad == [ok |-> FALSE, cmd |-> None]
Both(l, r, c(_, _)) == IF l.ok /\ r.ok THEN Good(c(l.cmd, r.cmd)) ELSE Bad

\* Words, and redirections with a word behind them.
Simple(s) ==
  LET arrow(k) == k \in 1 .. Len(s) /\ s[k] \in {"<", ">"}
      argv == {k \in 1 .. Len(s) : s[k] \notin Symbols /\ ~arrow(k - 1)}
      nth(S, n) == CHOOSE k \in S : Cardinality({j \in S : j <= k}) = n
      arrows == {k \in 1 .. Len(s) - 1 : arrow(k)} IN
  [ok |-> \A k \in 1 .. Len(s) :
            s[k] \in Symbols => arrow(k) /\ k < Len(s) /\ s[k + 1] \notin Symbols,
   argv |-> [n \in 1 .. Cardinality(argv) |-> s[nth(argv, n)]],
   redirs |-> [n \in 1 .. Cardinality(arrows) |->
                 LET k == nth(arrows, n) IN <<s[k + 1], IF s[k] = "<" THEN 0 ELSE 1>>]]

RECURSIVE LineOf(_), BackOf(_), PipeOf(_)
CommandOf(s) ==
  IF s = <<>> \/ s[1] # "("
  THEN LET c == Simple(s) IN IF c.ok THEN Good(Wrap(Exec(c.argv), c.redirs)) ELSE Bad
  ELSE IF Top(Tail(s), ")") = {} THEN Bad
  ELSE LET k == FirstTop(Tail(s), ")")
           b == LineOf(Before(Tail(s), k))
           r == Simple(After(Tail(s), k)) IN
       IF b.ok /\ r.ok /\ r.argv = <<>> THEN Good(Wrap(b.cmd, r.redirs)) ELSE Bad
PipeOf(s) ==
  IF Top(s, "|") = {} THEN CommandOf(s)
  ELSE LET k == FirstTop(s, "|") IN Both(CommandOf(Before(s, k)), PipeOf(After(s, k)), PipeCmd)
BackOf(s) ==
  IF s = <<>> \/ s[Len(s)] # "&" THEN PipeOf(s)
  ELSE LET c == BackOf(Before(s, Len(s))) IN IF c.ok THEN Good(Back(c.cmd)) ELSE Bad
LineOf(s) ==
  IF Top(s, ";") = {} THEN BackOf(s)
  ELSE LET k == FirstTop(s, ";") IN Both(BackOf(Before(s, k)), LineOf(After(s, k)), ListCmd)

\* The parser reads the line as this grammar does, and panics where there is no reading.
Agree(p, q) == p.ok = q.ok /\ p.cmd = q.cmd
ParsesLine(s) == Agree(ParseCmd(s), LineOf(s))

-----------------------------------------------------------------------------
(* A reference: one command after the other, each with all of its input. *)

\* What is left of the file when s is written from its start.
Over(s, old) == IF old = None \/ Len(old) <= Len(s) THEN s
                ELSE s \o SubSeq(old, Len(s) + 1, Len(old))

RECURSIVE Eval(_, _, _)
\* out, the input that is left and the files after command c.
Eval(c, in, files) ==
  LET result(o, i, f) == [out |-> o, in |-> i, files |-> f] IN
  CASE c.type = "EXEC" ->
         (IF c.argv = <<>> THEN result(<<>>, in, files)
          ELSE IF c.argv[1] = "echo" THEN result(Tail(c.argv), in, files)
          ELSE result(in, <<>>, files))
    [] c.type = "REDIR" ->
         (IF c.fd = 0
          THEN IF files[c.file] = None THEN result(<<>>, in, files)
               ELSE LET r == Eval(c.cmd, files[c.file], files) IN result(r.out, in, r.files)
          ELSE LET r == Eval(c.cmd, in, files) IN
               result(<<>>, r.in, [r.files EXCEPT ![c.file] = Over(r.out, @)]))
    [] c.type = "LIST" ->
         (LET l == Eval(c.left, in, files)
              r == Eval(c.right, l.in, l.files) IN result(l.out \o r.out, r.in, r.files))
    [] c.type = "PIPE" ->
         (LET l == Eval(c.left, in, files)
              r == Eval(c.right, l.out, l.files) IN result(r.out, l.in, r.files))
    [] OTHER -> Eval(c.cmd, in, files)

-----------------------------------------------------------------------------
(* Running a command *)

Procs == 1 .. NPROC
Initproc == 1          \* initproc
Sh == 2             \* the first free slot after init: the shell
Files == 1 .. NFILE
Fds == 0 .. NOFILE - 1

VARIABLES
  proc,       \* struct proc: state, parent, ofile, the variable p[] and the calls to come
  file,       \* ftable
  pipe,       \* struct pipe, numbered as the files are
  fs,         \* the content of the files on disk
  screen,     \* what the console shows of file descriptor 1
  lines,      \* what will be typed
  expected,   \* history: Eval of the lines typed
  failed,     \* history: a fork(), pipe() or open() has failed
  back        \* history: processes that were started by "&"

tables == <<proc, file, pipe>>
history == <<lines, expected, failed, back>>
vars == <<tables, fs, screen, history>>

Unused == [state |-> "UNUSED", parent |-> 0, ofile |-> [d \in Fds |-> 0], p |-> <<0, 0>>, code |-> <<>>]
NoFile == [ref |-> 0, type |-> "NONE", pipe |-> 0, name |-> None, off |-> 0, writable |-> FALSE]
NoPipe == [data |-> <<>>, readopen |-> FALSE, writeopen |-> FALSE]

Std == [d \in Fds |-> IF d < 3 THEN 1 ELSE 0]

Init ==
  /\ proc = [i \in Procs |->
       IF i = Initproc THEN [Unused EXCEPT !.state = "RUNNING", !.ofile = Std]
       ELSE IF i = Sh THEN [Unused EXCEPT !.state = "RUNNING", !.ofile = Std, !.parent = Initproc]
       ELSE Unused]
  /\ file = [f \in Files |-> IF f = 1 THEN [NoFile EXCEPT !.ref = 6, !.type = "CONSOLE"] ELSE NoFile]
  /\ pipe = [k \in Files |-> NoPipe]
  /\ fs = [n \in Names |-> None]
  /\ screen = <<>> /\ lines \in Sessions
  /\ expected = [out |-> <<>>, files |-> [n \in Names |-> None], ordered |-> TRUE]
  /\ failed = FALSE /\ back = {}

-----------------------------------------------------------------------------
(* runcmd(): the calls that a command comes to *)

Do(op) == [op |-> op, fd |-> 0, words |-> <<>>, name |-> None, code |-> <<>>]
Close(fd) == [Do("close") EXCEPT !.fd = fd]
CloseP(k) == [Do("closep") EXCEPT !.fd = k]
DupP(k) == [Do("dupp") EXCEPT !.fd = k]
Fork(code) == [Do("fork") EXCEPT !.code = code]
Exit == <<Do("exit")>>

\* What one end of a pipe does before it runs its command.
End(fd, k, code) == <<Close(fd), DupP(k), CloseP(1), CloseP(2)>> \o code

\* Mutant: it waits for one of the two.
PipeWaitsOnce(l, r) ==
  <<Do("pipe"), Fork(End(1, 2, l)), Fork(End(0, 1, r)), CloseP(1), CloseP(2), Do("wait")>> \o Exit

PipeCode(l, r) ==
  <<Do("pipe"), Fork(End(1, 2, l)), Fork(End(0, 1, r)), CloseP(1), CloseP(2),
    Do("wait"), Do("wait")>> \o Exit

\* Mutant: the right command does not wait for the left one.
ListAtOnce(l, r) == <<Fork(l)>> \o r

ListCode(l, r) == <<Fork(l), Do("wait")>> \o r

BackCode(c) == <<[Do("back") EXCEPT !.code = c]>> \o Exit

RECURSIVE RunCmd(_)
RunCmd(c) ==
  CASE c.type = "EXEC" ->
         (IF c.argv = <<>> THEN Exit
          ELSE IF c.argv[1] = "echo"
               THEN (IF Len(c.argv) = 1 THEN <<>> ELSE <<[Do("write") EXCEPT !.words = Tail(c.argv)]>>) \o Exit
          ELSE <<Do("cat")>>)
    [] c.type = "REDIR" -> <<Close(c.fd), [Do("open") EXCEPT !.fd = c.fd, !.name = c.file]>> \o RunCmd(c.cmd)
    [] c.type = "LIST" -> ListCode(RunCmd(c.left), RunCmd(c.right))
    [] c.type = "PIPE" -> PipeCode(RunCmd(c.left), RunCmd(c.right))
    [] OTHER -> BackCode(RunCmd(c.cmd))

-----------------------------------------------------------------------------
(* The system calls *)

NextCall(i) == Head(proc[i].code)
Calls(i, op) == proc[i].state = "RUNNING" /\ proc[i].code # <<>> /\ NextCall(i).op = op

\* Process i goes on after the call, with these descriptors.
Goes(i, ofile) == [proc EXCEPT ![i].code = Tail(@), ![i].ofile = ofile]

\* A call has failed: what follows is exit().
GivesUp(i) == [proc EXCEPT ![i].code = Exit]

First(S) == CHOOSE x \in S : \A y \in S : x <= y
FreeFds(i) == {d \in Fds : proc[i].ofile[d] = 0}
FreeFiles == {f \in Files : file[f].ref = 0}
FreeProcs == {i \in Procs : proc[i].state = "UNUSED"}

\* fileclose() of what process i has in the descriptors ds; the last one closes the end of
\* the pipe.
Fileclose(i, ds) ==
  LET n(f) == Cardinality({d \in ds : proc[i].ofile[d] = f})
      last(f) == n(f) > 0 /\ file[f].ref = n(f)
      end(k, w) == \E f \in Files : last(f) /\ file[f].type = "PIPE" /\ file[f].pipe = k /\ file[f].writable = w IN
  /\ file' = [f \in Files |-> IF last(f) THEN NoFile ELSE [file[f] EXCEPT !.ref = @ - n(f)]]
  /\ pipe' = [k \in Files |->
       LET r == pipe[k].readopen /\ ~end(k, FALSE)
           w == pipe[k].writeopen /\ ~end(k, TRUE) IN
       IF r \/ w THEN [pipe[k] EXCEPT !.readopen = r, !.writeopen = w] ELSE NoPipe]

CloseFd(i) ==
  LET d == IF NextCall(i).op = "close" THEN NextCall(i).fd ELSE proc[i].p[NextCall(i).fd] IN
  /\ Calls(i, "close") \/ Calls(i, "closep")
  /\ IF proc[i].ofile[d] = 0 THEN UNCHANGED <<file, pipe>> ELSE Fileclose(i, {d})
  /\ proc' = Goes(i, [proc[i].ofile EXCEPT ![d] = 0])
  /\ UNCHANGED <<fs, screen, history>>

\* dup(): the first free descriptor.
Dup(i) ==
  LET f == proc[i].ofile[proc[i].p[NextCall(i).fd]] IN
  /\ Calls(i, "dupp")
  /\ proc' = Goes(i, [proc[i].ofile EXCEPT ![First(FreeFds(i))] = f])
  /\ file' = [file EXCEPT ![f].ref = @ + 1]
  /\ UNCHANGED <<pipe, fs, screen, history>>

\* pipe(): two files, two descriptors and the pipe, or nothing of it.
Pipe(i) ==
  /\ Calls(i, "pipe")
  /\ IF Cardinality(FreeFiles) < 2 \/ Cardinality(FreeFds(i)) < 2
     THEN proc' = GivesUp(i) /\ failed' = TRUE /\ UNCHANGED <<file, pipe>>
     ELSE LET r == First(FreeFiles)
              w == First(FreeFiles \ {r})
              d == First(FreeFds(i))
              e == First(FreeFds(i) \ {d})
              k == First({x \in Files : pipe[x] = NoPipe})
              end(wr) == [NoFile EXCEPT !.ref = 1, !.type = "PIPE", !.pipe = k, !.writable = wr] IN
          /\ file' = [file EXCEPT ![r] = end(FALSE), ![w] = end(TRUE)]
          /\ pipe' = [pipe EXCEPT ![k].readopen = TRUE, ![k].writeopen = TRUE]
          /\ proc' = [Goes(i, [proc[i].ofile EXCEPT ![d] = r, ![e] = w]) EXCEPT ![i].p = <<d, e>>]
          /\ UNCHANGED failed
  /\ UNCHANGED <<fs, screen, lines, expected, back>>

\* open() of a redirection: for output the file is made, not cut off, before the file
\* table is looked at.
Open(i) ==
  LET n == NextCall(i).name
      create == NextCall(i).fd = 1
      made == IF create /\ fs[n] = None THEN [fs EXCEPT ![n] = <<>>] ELSE fs IN
  /\ Calls(i, "open")
  /\ fs' = made
  /\ IF made[n] = None \/ FreeFiles = {}
     THEN /\ proc' = GivesUp(i) /\ UNCHANGED file
          /\ failed' = (failed \/ made[n] # None)
     ELSE /\ file' = [file EXCEPT ![First(FreeFiles)] =
                        [NoFile EXCEPT !.ref = 1, !.type = "FILE", !.name = n, !.writable = create]]
          /\ proc' = Goes(i, [proc[i].ofile EXCEPT ![First(FreeFds(i))] = First(FreeFiles)])
          /\ UNCHANGED failed
  /\ UNCHANGED <<pipe, screen, lines, expected, back>>

\* Mutant: the files of the child are not counted.
Uncounted(i) == file

\* filedup() of every descriptor
Counted(i) == [f \in Files |->
  [file[f] EXCEPT !.ref = @ + Cardinality({d \in Fds : proc[i].ofile[d] = f})]]

ForkChild(i) ==
  /\ Calls(i, "fork") \/ Calls(i, "back")
  /\ IF FreeProcs = {}
     THEN proc' = GivesUp(i) /\ failed' = TRUE /\ UNCHANGED <<file, back>>
     ELSE LET c == First(FreeProcs) IN
          /\ proc' = [Goes(i, proc[i].ofile) EXCEPT
                        ![c] = [proc[i] EXCEPT !.parent = i, !.code = NextCall(i).code]]
          /\ file' = Counted(i)
          /\ back' = IF NextCall(i).op = "back" \/ i \in back THEN back \cup {c} ELSE back \ {c}
          /\ UNCHANGED failed
  /\ UNCHANGED <<pipe, fs, screen, lines, expected>>

Children(i) == {c \in Procs : proc[c].state # "UNUSED" /\ proc[c].parent = i}
Zombies(i) == {c \in Children(i) : proc[c].state = "ZOMBIE"}

Wait(i) ==
  /\ Calls(i, "wait") /\ (Children(i) = {} \/ Zombies(i) # {})
  /\ proc' = IF Children(i) = {} THEN Goes(i, proc[i].ofile)
             ELSE [Goes(i, proc[i].ofile) EXCEPT ![First(Zombies(i))] = Unused]
  /\ UNCHANGED <<file, pipe, fs, screen, history>>

ExitCall(i) ==
  /\ Calls(i, "exit")
  /\ Fileclose(i, Fds)
  /\ proc' = [j \in Procs |->
       IF j = i THEN [Unused EXCEPT !.state = "ZOMBIE", !.parent = proc[i].parent]
       ELSE IF j \in Children(i) THEN [proc[j] EXCEPT !.parent = Initproc] ELSE proc[j]]
  /\ UNCHANGED <<fs, screen, history>>

\* init waits for ever; when the shell has ended it starts another one.
InitReaps == \E z \in Zombies(Initproc) :
  /\ proc' = [proc EXCEPT ![z] = IF z = Sh THEN [proc[Initproc] EXCEPT !.parent = Initproc] ELSE Unused]
  /\ file' = IF z = Sh THEN Counted(Initproc) ELSE file
  /\ UNCHANGED <<pipe, fs, screen, history>>

-----------------------------------------------------------------------------
(* echo and cat *)

\* One word of a write(); a full pipe makes the writer wait unless nobody can read it.
Write(i) ==
  LET f == proc[i].ofile[1]
      words == NextCall(i).words
      t == file[f].type
      k == file[f].pipe
      goes == IF Len(words) = 1 THEN Goes(i, proc[i].ofile)
              ELSE [proc EXCEPT ![i].code[1].words = Tail(words)] IN
  /\ Calls(i, "write")
  /\ IF f = 0 \/ (t # "CONSOLE" /\ ~file[f].writable)
     THEN proc' = GivesUp(i) /\ UNCHANGED <<file, pipe, fs, screen>>
     ELSE CASE t = "CONSOLE" -> /\ screen' = Append(screen, Head(words)) /\ proc' = goes
                                /\ UNCHANGED <<file, pipe, fs>>
            [] t = "FILE" -> LET n == file[f].name
                                 off == file[f].off
                                 old == fs[n] IN
                             /\ fs' = [fs EXCEPT ![n] = SubSeq(old, 1, off) \o <<Head(words)>>
                                                           \o SubSeq(old, off + 2, Len(old))]
                             /\ file' = [file EXCEPT ![f].off = off + 1]
                             /\ proc' = goes /\ UNCHANGED <<pipe, screen>>
            [] OTHER -> /\ Len(pipe[k].data) < PIPESIZE \/ ~pipe[k].readopen
                        /\ IF Len(pipe[k].data) < PIPESIZE
                           THEN pipe' = [pipe EXCEPT ![k].data = Append(@, Head(words))] /\ proc' = goes
                           ELSE proc' = GivesUp(i) /\ UNCHANGED pipe
                        /\ UNCHANGED <<file, fs, screen>>
  /\ UNCHANGED history

\* read() of cat: what there is, or the end of it.  The console gives its end of file.
Read(i) ==
  LET f == proc[i].ofile[0]
      t == file[f].type
      k == file[f].pipe
      got(s) == IF s = <<>> THEN GivesUp(i)
                ELSE [proc EXCEPT ![i].code = <<[Do("write") EXCEPT !.words = s]>> \o @] IN
  /\ Calls(i, "cat")
  /\ IF f = 0 \/ t = "CONSOLE" \/ file[f].writable
     THEN proc' = GivesUp(i) /\ UNCHANGED <<file, pipe>>
     ELSE IF t = "FILE"
          THEN LET s == fs[file[f].name] IN
               /\ proc' = got(SubSeq(s, file[f].off + 1, Len(s)))
               /\ file' = [file EXCEPT ![f].off = Len(s)] /\ UNCHANGED pipe
          ELSE /\ pipe[k].data # <<>> \/ ~pipe[k].writeopen
               /\ proc' = got(pipe[k].data)
               /\ pipe' = [pipe EXCEPT ![k].data = <<>>] /\ UNCHANGED file
  /\ UNCHANGED <<fs, screen, history>>

-----------------------------------------------------------------------------
(* main() *)

AtPrompt == proc[Sh].state = "RUNNING" /\ proc[Sh].code = <<>>

\* A line is parsed by the child.
Type ==
  LET c == ParseCmd(Head(lines))
      e == Eval(c.cmd, <<>>, expected.files) IN
  /\ AtPrompt /\ lines # <<>> /\ lines' = Tail(lines)
  /\ proc' = [proc EXCEPT ![Sh].code = <<Fork(IF c.ok THEN RunCmd(c.cmd) ELSE Exit), Do("wait")>>]
  /\ expected' = IF c.ok
       THEN [out |-> expected.out \o e.out, files |-> e.files,
             ordered |-> expected.ordered /\ "&" \notin ToSet(Head(lines))]
       ELSE expected
  /\ UNCHANGED <<file, pipe, fs, screen, failed, back>>

Step(i) ==
  CloseFd(i) \/ Dup(i) \/ Pipe(i) \/ Open(i) \/ ForkChild(i) \/ Wait(i) \/ ExitCall(i) \/ Write(i) \/ Read(i)

Next == Type \/ InitReaps \/ \E i \in Procs : Step(i)

Spec == Init /\ [][Next]_vars
FairSpec == Spec /\ WF_vars(InitReaps) /\ \A i \in Procs : WF_vars(Step(i))
-----------------------------------------------------------------------------
(* Properties *)

Holds(f) == {x \in Procs \X Fds : proc[x[1]].ofile[x[2]] = f}

\* A file counts the descriptors that refer to it, whichever process has them, and a pipe
\* is open for reading or writing as long as a file of that end is.
Inv ==
  /\ \A f \in Files : file[f].ref = Cardinality(Holds(f))
  /\ \A k \in Files, wr \in BOOLEAN :
       (IF wr THEN pipe[k].writeopen ELSE pipe[k].readopen)
         = \E f \in Files : file[f].type = "PIPE" /\ file[f].pipe = k /\ file[f].writable = wr

\* When the shell asks for the next line, only what was started by "&" may still run.
PromptMeansDone == AtPrompt /\ ~failed =>
  \A i \in Procs \ {Initproc, Sh} : proc[i].state = "RUNNING" => i \in back

Count(s, x) == Cardinality({k \in DOMAIN s : s[k] = x})

\* When all is done the screen and the files hold what the lines say, in their order if
\* nothing ran in the background.
Quiet == AtPrompt /\ \A i \in Procs \ {Initproc, Sh} : proc[i].state = "UNUSED"
OutputRight == Quiet /\ ~failed =>
  /\ fs = expected.files
  /\ expected.ordered => screen = expected.out
  /\ \A x \in ToSet(screen) \cup ToSet(expected.out) : Count(screen, x) = Count(expected.out, x)

\* The prompt comes back, and every process ends and is reaped, failures or not.
PromptReturns == <>[]Quiet
=============================================================================
