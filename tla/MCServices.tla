----------------------------- MODULE MCServices -----------------------------
(***************************************************************************)
(* What xv6 gives to programs above processes and files, each on its own:    *)
(* pipes, console input, memory with its page tables, the allocator of the    *)
(* user library, the parser of the shell, and the shell at work.  Each        *)
(* behaviour is one of one service; the others stay as they begin.            *)
(***************************************************************************)
EXTENDS Pipe, Memory

VARIABLES
  service,
  buf, rd, wr, ed, clock, cpc, target, wanted, ckilled, keys, owed,
  ptr, size, freep, brk, used, nunits, prevp,
  line,
  proc, file, pipes, fs, screen, lines, expected, failed, back

pipeVars == vars
consoleVars == <<buf, rd, wr, ed, clock, cpc, target, wanted, ckilled, keys, owed>>
heapVars == <<ptr, size, freep, brk, used, nunits, prevp>>
shellVars == <<proc, file, pipes, fs, screen, lines, expected, failed, back>>
allVars == <<service, pipeVars, consoleVars, memoryVars, heapVars, line, shellVars>>

Console == INSTANCE Console WITH
  INPUT_BUF <- 3, Sizes <- {1, 4}, MaxKeys <- 3,
  lock <- clock, pc <- cpc, n <- wanted, killed <- ckilled

ASSUME ConsoleArguments == Console!ConsoleAssumption

Heap == INSTANCE Umalloc WITH HeapLimit <- 12, MoreCore <- 4, Requests <- {2, 3, 5}

ASSUME HeapArguments == Heap!HeapAssumption

\* Pipes, lists, blocks, background commands, redirections of both kinds, a command that
\* reads nothing, one that is not there, and lines that follow one another.
MCSessions == {
  << <<"echo", "x", "y", "|", "cat">> >>,
  << <<"echo", "x", "|", "cat", "|", "cat">> >>,
  << <<"(", "echo", "x", ";", "echo", "y", ")", "|", "cat">> >>,
  << <<"echo", "x", "&", ";", "echo", "y">> >>,
  << <<"echo", "x", "&", "echo", "y">> >>,
  << <<"(", "echo", "x", "y", ";", "echo", "x", ")", ">", "f", ";", "cat", "<", "f">> >>,
  << <<"echo", "x", ">", "f", "|", "cat">> >>,
  << <<"cat", "<", "f">> >>,
  << <<"echo", "y", ">", "f">> >>,
  << <<"cat", "|", "(", "cat", ";", "echo", "y", ")", "&">> >>,
  << <<"(", "echo", "x">> >>,
  << <<"cat", "|", "echo", "x">> >>,
  << <<"(", "echo", "x", "&", ")", "|", "cat">> >>,
  << <<"echo", "x", "&">>, <<"echo", "y", "|", "cat">> >>,
  << <<"echo", "x", "y", ">", "f">>, <<"echo", "y", ">", "f", ";", "cat", "<", "f">> >> }

Shell == INSTANCE Shell WITH
  NPROC <- 6, NFILE <- 6, NOFILE <- 5, PIPESIZE <- 1, Names <- {"f"}, Sessions <- MCSessions,
  pipe <- pipes

ServicesInit ==
  /\ service \in {"pipe", "console", "memory", "heap", "parser", "shell"}
  /\ Init /\ Console!Init /\ MemoryInit /\ Heap!Init /\ Shell!Init
  /\ line = <<>>
  /\ service = "shell" \/ lines = << <<"echo", "y", ">", "f">> >>

InPipe(A) ==
  service = "pipe" /\ A /\ UNCHANGED <<service, consoleVars, memoryVars, heapVars, line, shellVars>>
InConsole(A) ==
  service = "console" /\ A /\ UNCHANGED <<service, pipeVars, memoryVars, heapVars, line, shellVars>>
InMemory(A) ==
  service = "memory" /\ A /\ UNCHANGED <<service, pipeVars, consoleVars, heapVars, line, shellVars>>
InHeap(A) ==
  service = "heap" /\ A /\ UNCHANGED <<service, pipeVars, consoleVars, memoryVars, line, shellVars>>
InShell(A) ==
  service = "shell" /\ A /\ UNCHANGED <<service, pipeVars, consoleVars, memoryVars, heapVars, line>>

\* The parser sees every line of up to five of these tokens.
AnotherToken ==
  /\ service = "parser" /\ Len(line) < 5
  /\ \E t \in {"(", ")", "|", ";", "&", "<", "a"} : line' = Append(line, t)
  /\ UNCHANGED <<service, pipeVars, consoleVars, memoryVars, heapVars, shellVars>>

ServicesNext ==
  \/ InPipe(Next) \/ InConsole(Console!Next) \/ InMemory(MemoryNext) \/ InHeap(Heap!Next)
  \/ AnotherToken \/ InShell(Shell!Next)

\* The fairness of each service, for the behaviours that are its own.
ServicesSpec ==
  /\ ServicesInit /\ [][ServicesNext]_allVars
  /\ \A p \in Writers : SF_allVars(InPipe(Step(p)))
  /\ \A p \in Readers : SF_allVars(InPipe(Step(p)) \/ InConsole(Console!Reader(p)))
  /\ WF_allVars(InShell(Shell!InitReaps))
  /\ \A p \in 1 .. 6 : WF_allVars(InShell(Shell!Step(p)))

\* All that was written to a pipe arrives; finished input is read once and in order; a
\* process has the memory its size says; every unit of a heap has one owner; a line is read
\* as the grammar has it; and what the shell runs is what was typed.
ServicesRight ==
  /\ service = "pipe" => Complete
  /\ service = "console" => Console!Inv
  /\ service = "memory" => SizeIsMapped
  /\ service = "heap" => Heap!Inv
  /\ service = "parser" => Shell!ParsesLine(line)
  /\ service = "shell" => Shell!Inv /\ Shell!PromptMeansDone /\ Shell!OutputRight

\* Pipes empty out and everybody leaves them, reads of the console end, and the prompt
\* comes back.
ServicesEnd ==
  /\ service = "pipe" => EveryoneEnds
  /\ service = "console" => Console!ReadersEnd
  /\ service = "shell" => Shell!PromptReturns
=============================================================================
