----------------------------- MODULE UserTests -----------------------------
(* The processes of a test in UserTestScripts, run on FileSystem. *)
EXTENDS FileSystem

CONSTANT Script     \* for each test, what its processes do: AllScripts, or some of it

VARIABLES
  test,      \* the test that is run
  at,        \* the step of its script each process has come to
  ok,        \* whether the call under way has done what it was called for
  wrong      \* history: the steps that turned out other than the test says

script == <<test, at, ok, wrong>>
testVars == <<vars, script>>

-----------------------------------------------------------------------------
(* Running a script *)

TestInit ==
  /\ Init
  /\ test \in DOMAIN Script
  /\ at = [p \in Procs |-> 1]
  /\ ok = [p \in Procs |-> FALSE]
  /\ wrong = {}

\* The step p has come to, or one of those it may choose.
Due(p) == IF r[p].pc # "idle" \/ cwd[p] = None \/ at[p] > Len(Script[test][p]) THEN {}
          ELSE LET s == Script[test][p][at[p]] IN IF s.op = "oneof" THEN s.steps ELSE {s}

Advance(p) == at' = [at EXCEPT ![p] = @ + 1] /\ UNCHANGED <<test, ok>>

Judge(p, right) == wrong' = IF right THEN wrong ELSE wrong \cup {<<p, at[p]>>}

Syscalls(p) == \E s \in Due(p) :
  /\ s.op \in {"open", "create", "mkdir", "link", "unlink", "chdir"}
  /\ Call(p, s) /\ UNCHANGED calls
  /\ Advance(p) /\ UNCHANGED wrong

\* After this step the call can only return what the caller hopes for.
Succeeds(p) ==
  \/ file'[p] # file[p]
  \/ r[p].pc = "make" /\ Op(p) = "mkdir" /\ r'[p].then = "made"
  \/ r'[p].then \in {"unlinked", "linked"}
  \/ AtEnd(p, {"chdir"}) /\ type[r[p].ip] = "DIR"

Goes(p) ==
  /\ Step(p)
  /\ LET success == ok[p] \/ Succeeds(p) IN
     IF r'[p].pc = "idle" /\ r[p].call # None
     THEN /\ Judge(p, \/ r[p].call.expect = "any"
                      \/ success = (r[p].call.expect = "success"))
          /\ ok' = [ok EXCEPT ![p] = FALSE]
     ELSE ok' = [ok EXCEPT ![p] = success /\ r[p].call # None] /\ UNCHANGED wrong
  /\ UNCHANGED <<test, at>>

\* close() of what was not opened fails, and nothing else.
Closes(p) == \E s \in Due(p) :
  /\ s.op = "close"
  /\ IF file[p][s.fd] = None THEN UNCHANGED vars ELSE Close(p, s.fd)
  /\ Advance(p) /\ UNCHANGED wrong

Writes(p) == \E s \in Due(p) :
  /\ s.op = "write" /\ Write(p, s.fd, s.text)
  /\ Advance(p) /\ UNCHANGED wrong

Reads(p) == \E s \in Due(p) :
  /\ s.op = "read" /\ Read(p, s.fd)
  /\ Judge(p, content[file[p][s.fd].ip] = s.text)
  /\ Advance(p)

\* The entries of "." as the reads of directory entries give them, none of them twice.
Lists(p) == \E s \in Due(p) :
  /\ s.op = "list" /\ Read(p, s.fd)
  /\ Judge(p, s.names \subseteq DOMAIN entries[file[p][s.fd].ip])
  /\ Advance(p)

\* write() looks at the descriptor's mode, and nothing else.
WritesInVain(p) == \E s \in Due(p) :
  /\ s.op = "nowrite" /\ Judge(p, file[p][s.fd] = None \/ file[p][s.fd].mode = "r")
  /\ UNCHANGED vars /\ Advance(p)

Forks(p) == \E s \in Due(p) :
  /\ s.op = "fork" /\ Fork(p, s.child)
  /\ Advance(p) /\ UNCHANGED wrong

Exits(p) == \E s \in Due(p) :
  /\ s.op = "exit" /\ Exit(p)
  /\ Advance(p) /\ UNCHANGED wrong

Waits(p) == \E s \in Due(p) :
  /\ s.op = "wait" /\ cwd[s.child] = None /\ r[s.child].pc = "idle"
  /\ UNCHANGED vars /\ Advance(p) /\ UNCHANGED wrong

Runs(p) ==
  \/ Syscalls(p) \/ Goes(p) \/ Closes(p) \/ Writes(p) \/ Reads(p) \/ Lists(p)
  \/ WritesInVain(p) \/ Forks(p) \/ Exits(p) \/ Waits(p)

TestNext == \E p \in Procs : Runs(p)

TestSpec == TestInit /\ [][TestNext]_testVars

-----------------------------------------------------------------------------
(* Properties *)

\* "open directory for write succeeded", "createdelete: it didn't exist", "unlinkread wrong
\* data" and whatever else the tests look for does not happen, in any order of their processes.
TestsPass == wrong = {}

\* The names a test finds at the end are counted as they were on the way.
TestsCount == Inv /\ LinksCounted /\ NoDangling

Over == \A p \in Procs : r[p].pc = "idle" /\ (cwd[p] = None \/ at[p] > Len(Script[test][p]))

\* Each test comes to its end, for its scripts are finite and somebody can always go on, or
\* to the deadlock that create() runs into with unlink() or link() of the same name
\* (NoCircularWait), which concreate and linkunlink can meet.
TestsEnd == Over \/ ~NoCircularWait \/ ENABLED TestNext
=============================================================================
