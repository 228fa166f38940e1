-------------------------- MODULE UserTestScripts --------------------------
(***************************************************************************)
(* The tests of the file system in usertests.c: what each process of a test   *)
(* calls, in order, and what the test says of the outcome.  Loops are shorter  *)
(* than in the program; the comment of a script says by how much.              *)
(***************************************************************************)
EXTENDS Naturals, Sequences

(* Steps of a script: system calls with the outcome the test demands *)

Syscall(op, path, expect) ==
  [op |-> op, absolute |-> FALSE, path |-> path, new |-> <<>>, mode |-> "r", expect |-> expect]

Must(op, path) == Syscall(op, path, "success")
MustNot(op, path) == Syscall(op, path, "failure")
May(op, path) == Syscall(op, path, "any")

RW(step) == [step EXCEPT !.mode = "rw"]
Abs(step) == [step EXCEPT !.absolute = TRUE]
To(step, new) == [step EXCEPT !.new = new]

CloseFd(k) == [op |-> "close", fd |-> k]
WriteFd(k, text) == [op |-> "write", fd |-> k, text |-> text]
ReadFd(k, text) == [op |-> "read", fd |-> k, text |-> text]
CannotWrite(k) == [op |-> "nowrite", fd |-> k]
ListFd(k, names) == [op |-> "list", fd |-> k, names |-> names]
ForkTo(q) == [op |-> "fork", child |-> q]
WaitFor(q) == [op |-> "wait", child |-> q]
ExitNow == [op |-> "exit"]
OneOf(steps) == [op |-> "oneof", steps |-> steps]

\* What usertests does, and what the processes it forks do.
Scripts(m, x, y) == [main |-> m, c1 |-> x, c2 |-> y]
Alone(m) == Scripts(m, <<>>, <<>>)

Create(path) == <<RW(Must("create", path)), CloseFd(1)>>

-----------------------------------------------------------------------------
(* Tests of one process *)

iputtest == Alone(<<
  Must("mkdir", <<"iputdir">>), Must("chdir", <<"iputdir">>),
  Must("unlink", <<"..", "iputdir">>), Abs(Must("chdir", <<>>)) >>)

opentest == Alone(<<
  Must("open", <<"echo">>), CloseFd(1), MustNot("open", <<"doesnotexist">>) >>)

\* Two writes of each letter for a hundred, read at once.
writetest == Alone(<<
  RW(Must("create", <<"small">>)), WriteFd(1, "aa"), WriteFd(1, "bb"), WriteFd(1, "aa"),
  WriteFd(1, "bb"), CloseFd(1),
  Must("open", <<"small">>), ReadFd(1, <<"aa", "bb", "aa", "bb">>), CloseFd(1),
  Must("unlink", <<"small">>) >>)

\* Three blocks for the largest file's 140; whether that many fit, Blocks tells.
writetest1 == Alone(<<
  RW(Must("create", <<"big">>)), WriteFd(1, "0"), WriteFd(1, "1"), WriteFd(1, "2"), CloseFd(1),
  Must("open", <<"big">>), ReadFd(1, <<"0", "1", "2">>), CloseFd(1), Must("unlink", <<"big">>) >>)

\* Two sizes for twelve.
bigwriteRound == <<
  RW(Must("create", <<"bigwrite">>)), WriteFd(1, "x"), WriteFd(1, "x"), CloseFd(1),
  May("unlink", <<"bigwrite">>) >>

bigwrite == Alone(<<May("unlink", <<"bigwrite">>)>> \o bigwriteRound \o bigwriteRound)

\* Three writes for twenty, each read at once and not in two halves.
bigfile == Alone(<<
  May("unlink", <<"bigfile">>), RW(Must("create", <<"bigfile">>)),
  WriteFd(1, "0"), WriteFd(1, "1"), WriteFd(1, "2"), CloseFd(1),
  Must("open", <<"bigfile">>), ReadFd(1, <<"0", "1", "2">>), CloseFd(1),
  May("unlink", <<"bigfile">>) >>)

\* Two files for 52.
createtest == Alone(<<
  RW(May("create", <<"a0">>)), CloseFd(1), RW(May("create", <<"a1">>)), CloseFd(1),
  May("unlink", <<"a0">>), May("unlink", <<"a1">>) >>)

dirtest == Alone(<<
  Must("mkdir", <<"dir0">>), Must("chdir", <<"dir0">>), Must("chdir", <<"..">>),
  Must("unlink", <<"dir0">>) >>)

unlinkread == Alone(<<
  RW(Must("create", <<"unlinkread">>)), WriteFd(1, "hello"), CloseFd(1),
  RW(Must("open", <<"unlinkread">>)), Must("unlink", <<"unlinkread">>),
  RW(May("create", <<"unlinkread">>)), WriteFd(2, "yyy"), CloseFd(2),
  ReadFd(1, <<"hello">>), WriteFd(1, "hello"), CloseFd(1), May("unlink", <<"unlinkread">>) >>)

linktest == Alone(<<
  May("unlink", <<"lf1">>), May("unlink", <<"lf2">>),
  RW(Must("create", <<"lf1">>)), WriteFd(1, "hello"), CloseFd(1),
  To(Must("link", <<"lf1">>), <<"lf2">>), May("unlink", <<"lf1">>), MustNot("open", <<"lf1">>),
  Must("open", <<"lf2">>), ReadFd(1, <<"hello">>), CloseFd(1),
  To(MustNot("link", <<"lf2">>), <<"lf2">>), May("unlink", <<"lf2">>),
  To(MustNot("link", <<"lf2">>), <<"lf1">>), To(MustNot("link", <<".">>), <<"lf1">>) >>)

\* Two names for 500.
bigdir == Alone(<<
  May("unlink", <<"bd">>), Must("create", <<"bd">>), CloseFd(1),
  To(Must("link", <<"bd">>), <<"x00">>), To(Must("link", <<"bd">>), <<"x01">>),
  May("unlink", <<"bd">>), Must("unlink", <<"x00">>), Must("unlink", <<"x01">>) >>)

\* Two directories with files, a second name and ways back through "..".
subdirMakes == <<
  May("unlink", <<"ff">>), Must("mkdir", <<"dd">>),
  RW(Must("create", <<"dd", "ff">>)), WriteFd(1, "ff"), CloseFd(1),
  MustNot("unlink", <<"dd">>), Abs(Must("mkdir", <<"dd", "dd">>)),
  RW(Must("create", <<"dd", "dd", "ff">>)), WriteFd(1, "FF"), CloseFd(1),
  Must("open", <<"dd", "dd", "..", "ff">>), ReadFd(1, <<"ff">>), CloseFd(1),
  To(Must("link", <<"dd", "dd", "ff">>), <<"dd", "dd", "ffff">>),
  Must("unlink", <<"dd", "dd", "ff">>), MustNot("open", <<"dd", "dd", "ff">>),
  Must("chdir", <<"dd">>), Must("chdir", <<"dd", "..", "..", "dd">>),
  Must("chdir", <<"dd", "..", "..", "..", "dd">>), Must("chdir", <<".", "..">>),
  Must("open", <<"dd", "dd", "ffff">>), ReadFd(1, <<"FF">>), CloseFd(1),
  MustNot("open", <<"dd", "dd", "ff">>) >>

\* A file is not a directory, a directory is not written, no name is taken twice; then all goes.
subdirRefuses == <<
  RW(MustNot("create", <<"dd", "ff", "ff">>)), RW(MustNot("create", <<"dd", "xx", "ff">>)),
  MustNot("create", <<"dd">>), RW(MustNot("open", <<"dd">>)),
  [MustNot("open", <<"dd">>) EXCEPT !.mode = "w"],
  To(MustNot("link", <<"dd", "ff", "ff">>), <<"dd", "dd", "xx">>),
  To(MustNot("link", <<"dd", "xx", "ff">>), <<"dd", "dd", "xx">>),
  To(MustNot("link", <<"dd", "ff">>), <<"dd", "dd", "ffff">>),
  MustNot("mkdir", <<"dd", "ff", "ff">>), MustNot("mkdir", <<"dd", "xx", "ff">>),
  MustNot("mkdir", <<"dd", "dd", "ffff">>),
  MustNot("unlink", <<"dd", "xx", "ff">>), MustNot("unlink", <<"dd", "ff", "ff">>),
  MustNot("chdir", <<"dd", "ff">>), MustNot("chdir", <<"dd", "xx">>),
  Must("unlink", <<"dd", "dd", "ffff">>), Must("unlink", <<"dd", "ff">>),
  MustNot("unlink", <<"dd">>), Must("unlink", <<"dd", "dd">>), Must("unlink", <<"dd">>) >>

subdir == Alone(subdirMakes \o subdirRefuses)

\* Names of fifteen characters are names of fourteen.
fourteen == LET n14 == "12345678901234"
                n15 == "123456789012345" IN Alone(<<
  Must("mkdir", <<n14>>), Must("mkdir", <<n14, n15>>),
  Must("create", <<n15, n15, n15>>), CloseFd(1), Must("open", <<n14, n14, n14>>), CloseFd(1),
  MustNot("mkdir", <<n14, n14>>), MustNot("mkdir", <<n15, n14>>) >>)

rmdot == Alone(<<
  Must("mkdir", <<"dots">>), Must("chdir", <<"dots">>),
  MustNot("unlink", <<".">>), MustNot("unlink", <<"..">>), Abs(Must("chdir", <<>>)),
  MustNot("unlink", <<"dots", ".">>), MustNot("unlink", <<"dots", "..">>),
  Must("unlink", <<"dots">>) >>)

dirfile == Alone(<<
  Must("create", <<"dirfile">>), CloseFd(1), MustNot("chdir", <<"dirfile">>),
  MustNot("open", <<"dirfile", "xx">>), MustNot("create", <<"dirfile", "xx">>),
  MustNot("mkdir", <<"dirfile", "xx">>), MustNot("unlink", <<"dirfile", "xx">>),
  To(MustNot("link", <<"README">>), <<"dirfile", "xx">>), Must("unlink", <<"dirfile">>),
  RW(MustNot("open", <<".">>)), May("open", <<".">>), CannotWrite(1), CloseFd(1) >>)

\* Two directories, one in the other, for 51: what is left over shows in the counts.
irefRound == <<
  Must("mkdir", <<"irefd">>), Must("chdir", <<"irefd">>), May("mkdir", <<>>),
  To(May("link", <<"README">>), <<>>), May("create", <<>>), CloseFd(1),
  May("create", <<"xx">>), CloseFd(1), May("unlink", <<"xx">>) >>

iref == Alone(irefRound \o irefRound \o <<Abs(May("chdir", <<>>))>>)

-----------------------------------------------------------------------------
(* Tests of several processes *)

exitiputtest == Scripts(<<ForkTo("c1"), WaitFor("c1")>>, <<
  Must("mkdir", <<"iputdir">>), Must("chdir", <<"iputdir">>),
  Must("unlink", <<"..", "iputdir">>), ExitNow >>, <<>>)

\* However long the parent sleeps.
openiputtest == Scripts(
  <<Must("mkdir", <<"oidir">>), ForkTo("c1"), Must("unlink", <<"oidir">>), WaitFor("c1")>>,
  <<RW(MustNot("open", <<"oidir">>)), ExitNow>>, <<>>)

\* Two rounds for a hundred.
exitwait == Scripts(
  <<ForkTo("c1"), WaitFor("c1"), ForkTo("c1"), WaitFor("c1")>>, <<ExitNow, ExitNow>>, <<>>)

\* Two files of two writes for four of twelve; exit() closes the file.
WriteFile(f, text) == <<RW(Must("create", <<f>>)), WriteFd(1, text), WriteFd(1, text), CloseFd(1), ExitNow>>
ReadFile(f, text) ==
  <<Must("open", <<f>>), ReadFd(1, <<text, text>>), CloseFd(1), May("unlink", <<f>>)>>

fourfiles == Scripts(
  <<May("unlink", <<"f0">>), ForkTo("c1"), May("unlink", <<"f1">>), ForkTo("c2"),
    WaitFor("c1"), WaitFor("c2")>> \o ReadFile("f0", "0") \o ReadFile("f1", "1"),
  WriteFile("f0", "0"), WriteFile("f1", "1"))

\* A child of createdelete with three files for twenty, two children for four.
Creator(f, g, h) == Create(<<f>>) \o Create(<<g>>) \o Create(<<h>>)
  \o <<Must("unlink", <<g>>), ExitNow>>

Survives(path) == <<Must("open", path), CloseFd(1)>>

\* The last loop takes the letter from the wrong counter: of these names only p0 is there.
createdelete == Scripts(
  <<ForkTo("c1"), ForkTo("c2"), WaitFor("c1"), WaitFor("c2")>>
  \o Survives(<<"p0">>) \o Survives(<<"q0">>)
  \o <<MustNot("open", <<"p1">>), MustNot("open", <<"q1">>)>>
  \o Survives(<<"p2">>) \o Survives(<<"q2">>)
  \o <<May("unlink", <<"p0">>), May("unlink", <<"q1">>)>>,
  Creator("p0", "p1", "p2"), Creator("q0", "q1", "q2"))

\* The round of file f: one makes it, both do, or it becomes a name of C0; which, depends on
\* the number.  Four numbers for forty, one of each pair of deeds.
MakeC(f) == <<May("unlink", <<f>>), ForkTo("c1")>>
LinkC(f) == <<To(May("link", <<"C0">>), <<f>>)>>

\* Both unlink f, or one of them opens it; twice for four times.
OpenC(f) == <<May("open", <<f>>), CloseFd(1), May("open", <<f>>), CloseFd(1)>>
UnlinkC(f) == <<May("unlink", <<f>>), May("unlink", <<f>>)>>
Reap == <<WaitFor("c1")>>
Die == <<ExitNow>>

concreate == Scripts(
  MakeC("C0") \o Create(<<"C0">>) \o Reap \o MakeC("C1") \o LinkC("C1") \o Reap
  \o MakeC("C4") \o LinkC("C4") \o Reap \o MakeC("C6") \o Create(<<"C6">>) \o Reap
  \o <<May("open", <<".">>), ListFd(1, {"C0", "C1", "C4", "C6"}), CloseFd(1)>>
  \o <<ForkTo("c1")>> \o UnlinkC("C0") \o Reap \o <<ForkTo("c1")>> \o OpenC("C1") \o Reap
  \o <<ForkTo("c1")>> \o OpenC("C4") \o Reap \o <<ForkTo("c1")>> \o UnlinkC("C6") \o Reap,
  Create(<<"C0">>) \o Die \o LinkC("C1") \o Die
  \o Create(<<"C4">>) \o Die \o LinkC("C6") \o Die
  \o OpenC("C0") \o Die \o UnlinkC("C1") \o Die
  \o UnlinkC("C4") \o Die \o OpenC("C6") \o Die, <<>>)

\* Any of the three deeds, two times for a hundred.
Deed == <<OneOf({RW(May("create", <<"x">>)), To(May("link", <<"cat">>), <<"x">>),
                 May("unlink", <<"x">>)}), CloseFd(1)>>

linkunlink == Scripts(
  <<May("unlink", <<"x">>), ForkTo("c1")>> \o Deed \o Deed \o <<WaitFor("c1")>>,
  Deed \o Deed \o <<ExitNow>>, <<>>)

AllScripts == [
  iputtest |-> iputtest, exitiputtest |-> exitiputtest, openiputtest |-> openiputtest,
  opentest |-> opentest, writetest |-> writetest, writetest1 |-> writetest1,
  createtest |-> createtest, dirtest |-> dirtest,
  createdelete |-> createdelete, unlinkread |-> unlinkread, linktest |-> linktest,
  concreate |-> concreate, linkunlink |-> linkunlink, bigdir |-> bigdir, subdir |-> subdir,
  exitwait |-> exitwait, fourfiles |-> fourfiles, bigwrite |-> bigwrite, bigfile |-> bigfile,
  fourteen |-> fourteen, rmdot |-> rmdot, dirfile |-> dirfile, iref |-> iref]
=============================================================================
