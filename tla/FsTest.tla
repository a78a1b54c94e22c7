------------------------------- MODULE FsTest -------------------------------
(***************************************************************************)
(* The test program user/fstest on the file system of FsCalls: each test is *)
(* the list of its system calls with the results it accepts, and the whole  *)
(* program runs against another process that uses the same directory.       *)
(* Loops are shortened to a few rounds; a data unit stands for what one     *)
(* write of a test writes.                                                  *)
(***************************************************************************)
EXTENDS FsCalls, SequencesExt

CONSTANTS
  Tester,     \* the process that runs fstest
  Others      \* how many calls the other processes make

ASSUME FsTestAssumption == Tester \in Proc /\ Others \in Nat

VARIABLE pc   \* the calls of Script that have been made

allvars == <<vars, pc>>

Path(elems) == [abs |-> FALSE, elems |-> elems]
F(name)     == Path(<<name>>)
RootDir     == [abs |-> TRUE, elems |-> << >>]

\* What a test accepts: a descriptor, success, failure, n bytes, or anything.
Fd      == 1 .. NOFILE
Ok      == {0}
Fails   == {-1}
Bytes(n) == {n}
Whatever     == -1 .. 100

\* A call with the results the test accepts, and the data a read must return.
Do(c, want)          == << [call |-> c, want |-> want, data |-> << >>] >>
Reads(fd, n, r, data) == << [call |-> sys_read(fd, n), want |-> Bytes(r), data |-> data] >>

open(path, omode)  == Do(sys_open(path, omode), Fd)
noopen(path, omode) == Do(sys_open(path, omode), Fails)
close_(fd)         == Do(sys_close(fd), Whatever)
unlink(path, want) == Do(sys_unlink(path), want)
mkdir(path, want)  == Do(sys_mkdir(path), want)
chdir(path, want)  == Do(sys_chdir(path), want)
link(old, new, want) == Do(sys_link(old, new), want)
writes(fd, d)      == Do(sys_write(fd, d), Bytes(Len(d)))

RW  == {"create", "rw"}
CR  == {"create"}
\* The calls of a loop, one round after the other.
Rounds(n, Body(_)) == FlattenSeq([i \in 1 .. n |-> Body(i)])

smallfile ==
  open(F("small"), RW) \o writes(1, <<1>>) \o writes(1, <<2>>) \o close_(1)
    \o open(F("small"), {}) \o Reads(1, 2, 2, <<1, 2>>) \o close_(1) \o unlink(F("small"), Ok)

\* A file of the largest size, written and read block by block.
bigfile1 ==
  open(F("big"), RW) \o Rounds(MAXFILE, LAMBDA i : writes(1, <<i>>)) \o close_(1)
    \o open(F("big"), {}) \o Rounds(MAXFILE, LAMBDA i : Reads(1, 1, 1, <<i>>)) \o Reads(1, 1, 0, << >>)
    \o close_(1) \o unlink(F("big"), Ok)

createtest ==
  LET names == <<"a0", "a1">>
  IN  Rounds(2, LAMBDA i : Do(sys_open(F(names[i]), RW), Whatever) \o close_(1))
        \o Rounds(2, LAMBDA i : unlink(F(names[i]), Whatever))

rmdot ==
  mkdir(F("dots"), Ok) \o chdir(F("dots"), Ok) \o unlink(F("."), Fails) \o unlink(F(".."), Fails)
    \o chdir(RootDir, Ok) \o unlink(Path(<<"dots", ".">>), Fails) \o unlink(Path(<<"dots", "..">>), Fails)
    \o unlink(F("dots"), Ok)

\* skipelem cuts names of 14 and of 15 characters to the same 13.
fourteen ==
  LET n == "13chars"
  IN  mkdir(F(n), Ok) \o mkdir(Path(<<n, n>>), Ok) \o open(Path(<<n, n, n>>), CR) \o close_(1)
        \o open(Path(<<n, n, n>>), {}) \o close_(1) \o mkdir(Path(<<n, n>>), Fails) \o mkdir(Path(<<n, n>>), Fails)

\* Writes of two units are read back one unit at a time.
bigfile2 ==
  unlink(F("bigfile"), Whatever) \o open(F("bigfile"), RW) \o writes(1, <<1, 2>>) \o close_(1)
    \o open(F("bigfile"), {}) \o Rounds(2, LAMBDA i : Reads(1, 1, 1, <<i>>))
    \o Reads(1, 1, 0, << >>) \o close_(1) \o unlink(F("bigfile"), Whatever)

dd      == F("dd")
ddff    == Path(<<"dd", "ff">>)
dd2     == Path(<<"dd", "dd">>)
dd2ff   == Path(<<"dd", "dd", "ff">>)
dd2ffff == Path(<<"dd", "dd", "ffff">>)

\* Files in nested directories, their names and the current directory.
subdir ==
  unlink(F("ff"), Whatever) \o mkdir(dd, Ok) \o open(ddff, RW) \o Do(sys_write(1, <<1, 1>>), Whatever) \o close_(1)
    \o unlink(dd, Fails) \o mkdir(dd2, Ok)
    \o open(dd2ff, RW) \o Do(sys_write(1, <<2, 2>>), Whatever) \o close_(1)
    \o open(Path(<<"dd", "dd", "..", "ff">>), {}) \o Reads(1, 8, 2, <<1>>) \o close_(1)
    \o link(dd2ff, dd2ffff, Ok) \o unlink(dd2ff, Ok) \o noopen(dd2ff, {})
    \o chdir(dd, Ok) \o chdir(Path(<<"dd", "..", "..", "dd">>), Ok)
    \o chdir(Path(<<"dd", "..", "..", "..", "dd">>), Ok) \o chdir(Path(<<".", "..">>), Ok)
    \o open(dd2ffff, {}) \o Reads(1, 8, 2, <<2>>) \o close_(1) \o noopen(dd2ff, {})

\* What must fail there, and the removal of it all.
subdir_errors ==
  LET ffff == Path(<<"dd", "ff", "ff">>)  xxff == Path(<<"dd", "xx", "ff">>)  dd2xx == Path(<<"dd", "dd", "xx">>)
  IN  noopen(ffff, RW) \o noopen(xxff, RW) \o noopen(dd, CR) \o noopen(dd, {"rw"}) \o noopen(dd, {"w"})
        \o link(ffff, dd2xx, Fails) \o link(xxff, dd2xx, Fails) \o link(ddff, dd2ffff, Fails)
        \o mkdir(ffff, Fails) \o mkdir(xxff, Fails) \o mkdir(dd2ffff, Fails)
        \o unlink(xxff, Fails) \o unlink(ffff, Fails) \o chdir(ddff, Fails) \o chdir(Path(<<"dd", "xx">>), Fails)
        \o unlink(dd2ffff, Ok) \o unlink(ddff, Ok) \o unlink(dd, Fails) \o unlink(dd2, Ok) \o unlink(dd, Ok)

linktest ==
  LET lf1 == F("lf1")  lf2 == F("lf2")
  IN  unlink(lf1, Whatever) \o unlink(lf2, Whatever) \o open(lf1, RW) \o writes(1, <<1>>) \o close_(1)
        \o link(lf1, lf2, Ok) \o unlink(lf1, Whatever) \o noopen(lf1, {})
        \o open(lf2, {}) \o Reads(1, 8, 1, << >>) \o close_(1) \o link(lf2, lf2, Fails)
        \o unlink(lf2, Whatever) \o link(lf2, lf1, Fails) \o link(F("."), lf1, Fails)

\* The old file stays readable and writable while a new one has its name.
unlinkread ==
  LET u == F("unlinkread")
  IN  open(u, RW) \o Do(sys_write(1, <<1>>), Whatever) \o close_(1) \o open(u, {"rw"}) \o unlink(u, Ok)
        \o Do(sys_open(u, RW), Whatever) \o Do(sys_write(2, <<3, 3>>), Whatever) \o close_(2)
        \o Reads(1, 8, 1, <<1>>) \o writes(1, <<1, 1>>) \o close_(1) \o unlink(u, Whatever)

dirfile ==
  LET df == F("dirfile")  xx == Path(<<"dirfile", "xx">>)
  IN  open(df, CR) \o close_(1) \o chdir(df, Fails) \o noopen(xx, {}) \o noopen(xx, CR) \o mkdir(xx, Fails)
        \o unlink(xx, Fails) \o link(F("README"), xx, Fails) \o unlink(df, Ok)
        \o noopen(F("."), {"rw"}) \o Do(sys_open(F("."), {}), Whatever) \o Do(sys_write(1, <<1>>), Whatever \ 1 .. 100)
        \o close_(1)

\* With the root, more nested directories than the inode cache has entries.
iref ==
  Rounds(NINODE, LAMBDA i :
      mkdir(F("irefd"), Ok) \o chdir(F("irefd"), Ok) \o mkdir(Path(<< >>), Whatever)
        \o link(F("README"), Path(<< >>), Whatever) \o Do(sys_open(Path(<< >>), CR), Whatever)
        \o Do(sys_open(F("xx"), CR), Whatever) \o close_(1) \o unlink(F("xx"), Whatever))
    \o chdir(RootDir, Whatever)

\* Many links to one file, then none.
bigdir ==
  LET names == <<"x00", "x01">>
  IN  unlink(F("bd"), Whatever) \o open(F("bd"), CR) \o close_(1)
        \o Rounds(2, LAMBDA i : link(F("bd"), F(names[i]), Ok)) \o unlink(F("bd"), Whatever)
        \o Rounds(2, LAMBDA i : unlink(F(names[i]), Ok))

main ==
  noopen(F("usertests.ran"), {}) \o Do(sys_open(F("usertests.ran"), CR), Whatever) \o close_(1)
    \o smallfile \o bigfile1 \o createtest \o rmdot \o fourteen \o bigfile2 \o subdir \o subdir_errors \o linktest
    \o unlinkread \o dirfile \o iref \o bigdir

Script == main

TestInit == Init /\ pc = 0

\* The tester makes its next call.
Test ==
  /\ pc < Len(Script)
  /\ Call(Tester, Script[pc + 1].call)
  /\ pc' = pc + 1

Other(p) ==
  /\ made[p] < Others
  /\ \E c \in Calls : Call(p, c)
  /\ UNCHANGED pc

TestNext ==
  \/ Test
  \/ \E p \in Proc \ {Tester} : Other(p)
  \/ \E p \in Proc : Step(p) /\ UNCHANGED pc

-----------------------------------------------------------------------------
Returned == pc > 0 /\ todo[Tester] = << >>

\* Every call of the test program returns what the test expects of it, whatever
\* the other process does with its own files in between.
TestsPass ==
  Returned =>
    /\ v[Tester].ret \in Script[pc].want
    /\ IsPrefix(Script[pc].data, v[Tester].got)

TestsEnd == <>(pc = Len(Script) /\ Returned)
=============================================================================
