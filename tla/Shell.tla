-------------------------------- MODULE Shell --------------------------------
(***************************************************************************)
(* The shell (shell.c, commands.c): a line is typed, split into words and   *)
(* looked up in the table of commands, and a command is a sequence of       *)
(* system calls on the tree of files.  The tree maps the existing paths,    *)
(* lists of names from the root, to files and directories; the system calls *)
(* are those of sysfile.c for one process, which FsCalls has in full.       *)
(*                                                                          *)
(* A state of the shell is the record of the tree, dir (the directory the   *)
(* kernel keeps for the process), cwd (the string the shell keeps), fds     *)
(* (how many descriptors are open), nofile (how many there are) and dead    *)
(* (an ASSERT failed).  The order of the entries of a directory depends on  *)
(* its history, so a command has a set of outcomes.                         *)
(***************************************************************************)
EXTENDS Paths

CONSTANTS
  NOFILE,      \* descriptors of a process: the numbers to consider
  Lines,       \* command lines that are typed at once: records of argv and optv
  MaxDepth,    \* bound: names in a path
  MaxText      \* bound: texts in a file

ASSUME ShellAssumption == NOFILE \subseteq Nat /\ MaxDepth \in Nat /\ MaxText \in Nat

VARIABLE sh

Root    == << >>
NoPath  == << <<Slash>> >>
NewFile == [type |-> "file", data |-> << >>]
NewDir  == [type |-> "dir", data |-> << >>]

Start ==
  [tree : {[p \in {Root} |-> NewDir]}, dir : {Root}, cwd : {<<Slash>>}, fds : {0}, nofile : NOFILE, dead : {FALSE}]

Front(s) == SubSeq(s, 1, Len(s) - 1)

\* An ASSERT of the shell.
ASSERT(s, cond) == [s EXCEPT !.dead = @ \/ ~cond]

-----------------------------------------------------------------------------
(* The system calls.                                                         *)

RECURSIVE Walk(_, _, _)

Walk(t, at, names) ==
  IF names = << >> THEN at
  ELSE LET n    == Head(names)
           next == IF n = Dot \/ (n = DotDot /\ at = Root) THEN at
                   ELSE IF n = DotDot THEN Front(at) ELSE Append(at, n)
       IN  IF at \notin DOMAIN t \/ t[at].type # "dir" THEN NoPath ELSE Walk(t, next, Tail(names))

\* Where a path starts: at the root or in the current directory.
From(s, p) == IF p # << >> /\ p[1] = Slash THEN Root ELSE s.dir

Found(s, at) == IF at \in DOMAIN s.tree THEN at ELSE NoPath
namei(s, p)  == Found(s, Walk(s.tree, From(s, p), namex(p)))

\* The place the last name of p has in its directory.
PlaceOf(s, p, names) == IF names = << >> THEN NoPath ELSE Walk(s.tree, From(s, p), names)
Place(s, p)          == PlaceOf(s, p, namex(p))

\* Whether the last name may be made or removed: not "." and not "..".
LastNamed(names) == names # << >> /\ names[Len(names)] \notin {Dot, DotDot}
Named(p)         == LastNamed(namex(p))

Exists(s, at)     == at \in DOMAIN s.tree
IsDir(s, at)      == Exists(s, at) /\ s.tree[at].type = "dir"
With(s, at, node) == [s EXCEPT !.tree = [p \in DOMAIN @ \cup {at} |-> IF p = at THEN node ELSE s.tree[p]]]
Without(s, at)    == [s EXCEPT !.tree = [p \in DOMAIN @ \ {at} |-> s.tree[p]]]

\* The entries of the directory at.
Children(s, at) == {p \in DOMAIN s.tree : Len(p) = Len(at) + 1 /\ Front(p) = at}

\* open: [sh, at] with at = NoPath for -1.  A file is created even if there is
\* no descriptor left for it.
GetFd(s, at) == IF s.fds = s.nofile THEN [sh |-> s, at |-> NoPath] ELSE [sh |-> [s EXCEPT !.fds = @ + 1], at |-> at]

OpenAt(s, at, named, create, writes) ==
  IF at = NoPath \/ (create /\ ~named) \/ ((create \/ writes) /\ IsDir(s, at)) THEN [sh |-> s, at |-> NoPath]
  ELSE GetFd(IF Exists(s, at) THEN s ELSE With(s, at, NewFile), at)

open(s, p, create, writes) ==
  OpenAt(s, IF create THEN Place(s, p) ELSE namei(s, p), Named(p), create, writes)

close(s) == [s EXCEPT !.fds = @ - 1]

\* mkdir, link and unlink: [sh, ok].
Fails(s) == [sh |-> s, ok |-> FALSE]
Done(s)  == [sh |-> s, ok |-> TRUE]

\* create of a name that must not exist yet.
MakeAt(s, at, named, node) == IF at = NoPath \/ ~named \/ Exists(s, at) THEN Fails(s) ELSE Done(With(s, at, node))

mkdir(s, p) == MakeAt(s, Place(s, p), Named(p), NewDir)

LinkFrom(s, from, new) ==
  IF from = NoPath \/ IsDir(s, from) THEN Fails(s) ELSE MakeAt(s, Place(s, new), Named(new), s.tree[from])

link(s, old, new) == LinkFrom(s, namei(s, old), new)

UnlinkAt(s, at, named) ==
  IF at = NoPath \/ ~named \/ ~Exists(s, at) \/ Children(s, at) # {} THEN Fails(s) ELSE Done(Without(s, at))

unlink(s, p) == UnlinkAt(s, Place(s, p), Named(p))

ChdirTo(s, at) == IF IsDir(s, at) THEN Done([s EXCEPT !.dir = at]) ELSE Fails(s)
chdir(s, p)    == ChdirTo(s, namei(s, p))

-----------------------------------------------------------------------------
(* The commands: sets of outcomes [sh, err].                                 *)

Ends(s, e) == {[sh |-> s, err |-> e]}

\* The options of a line that count: the loops over them leave optc at -1, and
\* that is what a command gets when recurse_dir calls it.
Options(optc, optv) == {optv[k][2] : k \in 1 .. optc}

SetCwd(s, n)     == ASSERT([s EXCEPT !.cwd = n.path], n.ok)
update_cwd(s, p) == SetCwd(s, normalize_path(IF p[1] = Slash THEN p ELSE join_path(s.cwd, p)))

RECURSIVE cmd(_, _, _, _, _)
RECURSIVE recurse_dir(_, _, _, _, _, _, _)

\* Command c for every entry in left, until one fails.
recurse_dir(c, s, optc, optv, src, dst, left) ==
  IF left = {} THEN Ends(s, "E_OK")
  ELSE UNION {UNION {IF r.err # "E_OK" \/ r.sh.dead THEN {r}
                     ELSE recurse_dir(c, r.sh, optc, optv, src, dst, left \ {n}) :
                       r \in cmd(c, s, <<src, dst, n>>, optc, optv)} : n \in left}

\* The paths of a command: those of its line, or those recurse_dir joins.
Arg(args, k) == IF Len(args) = 3 /\ args[3] # << >> THEN join_path(args[k], args[3]) ELSE args[k]

\* A system call that must succeed: its outcome r is [sh, ok].
Asserted(r) == ASSERT(r.sh, r.ok)

CatOpened(o) ==
  IF o.at = NoPath THEN Ends(o.sh, "E_CANT_OPEN")
  ELSE Ends(close(o.sh), IF IsDir(o.sh, o.at) THEN "E_INVAL_TYPE" ELSE "E_OK")

cmd_cat(s, path, optc) ==
  IF optc > 0 THEN Ends(s, "E_INVAL_OPT") ELSE CatOpened(open(s, path, FALSE, FALSE))

RECURSIVE LsLoop(_, _)

\* One round of ls per path.
LsLoop(o, paths) ==
  IF o.at = NoPath THEN Ends(o.sh, "E_CANT_OPEN")
  ELSE IF paths = << >> THEN Ends(close(o.sh), "E_OK")
  ELSE LsLoop(open(close(o.sh), Head(paths), FALSE, FALSE), Tail(paths))

cmd_ls(s, paths, optc, optv) ==
  IF ~(Options(optc, optv) \subseteq {"a"}) THEN Ends(s, "E_INVAL_OPT")
  ELSE IF paths = << >> THEN LsLoop(open(s, Dot, FALSE, FALSE), << >>)
  ELSE LsLoop(open(s, Head(paths), FALSE, FALSE), Tail(paths))


AfterChdir(c, path) == IF c.ok THEN Ends(update_cwd(c.sh, path), "E_OK") ELSE Ends(c.sh, "E_INVAL_TYPE")

CdTo(s, path) == AfterChdir(chdir(s, path), path)

cmd_cd(s, argv, optc) ==
  IF optc > 0 THEN Ends(s, "E_INVAL_OPT") ELSE CdTo(s, IF Len(argv) = 1 THEN <<Slash>> ELSE argv[2])

\* src over dst: what dst has beyond the length of src stays.
Overlay(a, b) == a \o SubSeq(b, Len(a) + 1, Len(b))

Copied(s, src, dst) ==
  With(s, dst, [type |-> "file", data |-> Overlay(s.tree[src].data, s.tree[dst].data)])

\* The last names of the entries of the directory at.
Kids(s, at) == {p[Len(p)] : p \in Children(s, at)}

\* The parts of cp: from is where the source is, o and m are what the open and the
\* mkdir of the destination returned.
CopyFile(o, from) ==
  IF o.at = NoPath THEN Ends(ASSERT(o.sh, FALSE), "E_OK") ELSE Ends(close(close(Copied(o.sh, from, o.at))), "E_OK")

CopyDir(m, from, optv, src, dst) ==
  IF ~m.ok THEN Ends(Asserted(m), "E_OK")
  ELSE {[r EXCEPT !.sh = close(@)] : r \in recurse_dir("cp", m.sh, -1, optv, src, dst, Kids(m.sh, from))}

CpOpened(i, src, dst, opts, optv) ==
  IF i.at = NoPath THEN Ends(i.sh, "E_CANT_OPEN")
  ELSE IF ~IsDir(i.sh, i.at) THEN CopyFile(open(i.sh, dst, TRUE, TRUE), i.at)
  ELSE IF "r" \notin opts THEN Ends(close(i.sh), "E_INVAL_TYPE")
  ELSE CopyDir(mkdir(i.sh, dst), i.at, optv, src, dst)

cmd_cp(s, src, dst, optc, optv) ==
  IF ~(Options(optc, optv) \subseteq {"r"}) THEN Ends(s, "E_INVAL_OPT")
  ELSE CpOpened(open(s, src, FALSE, FALSE), src, dst, Options(optc, optv), optv)

\* unlink(path), which must succeed, and the close behind it.
RemoveAndClose(r, path) ==
  IF r.sh.dead THEN r
  ELSE IF r.err # "E_OK" THEN [r EXCEPT !.sh = close(@)]
  ELSE [r EXCEPT !.sh = close(Asserted(unlink(@, path)))]

\* The entries of the source are moved one by one; m is what the mkdir of the
\* destination returned.
MoveDir(m, from, optc, optv, src, dst) ==
  IF ~m.ok THEN Ends(Asserted(m), "E_OK") ELSE recurse_dir("mv", m.sh, optc, optv, src, dst, Kids(m.sh, from))

\* Mutant: the old name is removed before the new one exists.
MvOpened_UnlinkFirst(i, src, dst, optc, optv) ==
  IF i.at = NoPath THEN Ends(i.sh, "E_CANT_OPEN")
  ELSE Ends(close(Asserted(link(unlink(i.sh, src).sh, src, dst))), "E_OK")

\* Mutant: the old name is not removed.
MvOpened_Keeps(i, src, dst, optc, optv) ==
  IF i.at = NoPath THEN Ends(i.sh, "E_CANT_OPEN")
  ELSE {[r EXCEPT !.sh = close(@)] :
          r \in IF IsDir(i.sh, i.at) THEN MoveDir(mkdir(i.sh, dst), i.at, optc, optv, src, dst)
                ELSE Ends(Asserted(link(i.sh, src, dst)), "E_OK")}

MvOpened(i, src, dst, optc, optv) ==
  IF i.at = NoPath THEN Ends(i.sh, "E_CANT_OPEN")
  ELSE {RemoveAndClose(r, src) :
          r \in IF IsDir(i.sh, i.at) THEN MoveDir(mkdir(i.sh, dst), i.at, optc, optv, src, dst)
                ELSE Ends(Asserted(link(i.sh, src, dst)), "E_OK")}

cmd_mv(s, src, dst, optc, optv) ==
  IF optc > 0 THEN Ends(s, "E_INVAL_OPT") ELSE MvOpened(open(s, src, FALSE, FALSE), src, dst, optc, optv)

RmOpened(i, path, opts, optv) ==
  IF i.at = NoPath THEN Ends(i.sh, "E_CANT_OPEN")
  ELSE IF IsDir(i.sh, i.at) /\ "r" \notin opts THEN Ends(close(i.sh), "E_INVAL_TYPE")
  ELSE {RemoveAndClose(r, path) :
          r \in IF IsDir(i.sh, i.at) THEN recurse_dir("rm", i.sh, -1, optv, path, path, Kids(i.sh, i.at))
                ELSE Ends(i.sh, "E_OK")}

cmd_rm(s, path, optc, optv) ==
  IF ~(Options(optc, optv) \subseteq {"r"}) THEN Ends(s, "E_INVAL_OPT")
  ELSE RmOpened(open(s, path, FALSE, FALSE), path, Options(optc, optv), optv)

cmd_mkdir(s, path, optc) ==
  IF optc > 0 THEN Ends(s, "E_INVAL_OPT") ELSE Ends(Asserted(mkdir(s, path)), "E_OK")

\* What is left to do with a descriptor that is only closed again.
OpenedOnly(c) == IF c.at = NoPath THEN Ends(c.sh, "E_CANT_OPEN") ELSE Ends(close(c.sh), "E_OK")

TouchOpened(o, path) == OpenedOnly(IF o.at = NoPath THEN open(o.sh, path, TRUE, FALSE) ELSE o)

cmd_touch(s, path, optc) ==
  IF optc > 0 THEN Ends(s, "E_INVAL_OPT") ELSE TouchOpened(open(s, path, FALSE, FALSE), path)

\* The file gets text behind what it has.
Put(s, at, text) == With(s, at, [type |-> "file", data |-> Append(s.tree[at].data, text)])

PutOpened(c, text) ==
  IF c.at = NoPath THEN Ends(c.sh, "E_CANT_OPEN") ELSE Ends(close(Put(c.sh, c.at, text)), "E_OK")

\* An existing file is removed first; o is what the open for reading returned.
Replaced(o, path) == IF o.at = NoPath THEN o.sh ELSE close(Asserted(unlink(o.sh, path)))

WriteTo(s, argv) == IF s.dead THEN Ends(s, "E_OK") ELSE PutOpened(open(s, argv[3], TRUE, TRUE), argv[1])

cmd_write(s, argv, optc) ==
  IF optc > 0 THEN Ends(s, "E_INVAL_OPT") ELSE WriteTo(Replaced(open(s, argv[3], FALSE, FALSE), argv[3]), argv)

cmd_append(s, argv, optc) ==
  IF optc > 0 THEN Ends(s, "E_INVAL_OPT") ELSE PutOpened(open(s, argv[3], TRUE, TRUE), argv[1])

\* The examples of cmd_pathtest, with names of one character.
cmd_pathtest(s) ==
  LET d  == <<"d">>
      de == <<"d", "/", "e">>
      f  == <<"f">>
      up == <<"/", "d", "/", ".", "/", "e", "/", "/", "/", ".", ".", "/", ".", "/", ".", "/", "g", "/">>
      roots == {<<"/", "d", "/", ".", ".">>, <<"/", ".", ".">>, <<"/", ".", "/", ".", ".", "/">>, <<"/", ".", ".", "/", ".">>}
  IN  Ends(ASSERT(s, /\ join_path(de, f) = <<"d", "/", "e", "/", "f">>
                     /\ join_path(<<Slash>>, f) = <<"/", "f">> /\ join_path(<< >>, f) = f
                     /\ split_path(<<"d", "/", ".", "/", "e">>).rest = <<".", "/", "e">>
                     /\ split_path(de).first = d /\ split_path(f).null /\ split_path(<< >>).null
                     /\ \A p \in roots \cup {up} :
                          normalize_path(p).path = IF p = up THEN <<"/", "d", "/", "g">> ELSE <<Slash>>), "E_OK")

\* cp, mv and rm, for recurse_dir and for the table.
cmd(c, s, args, optc, optv) ==
  CASE c = "cp" -> cmd_cp(s, Arg(args, 1), Arg(args, 2), optc, optv)
    [] c = "mv" -> cmd_mv(s, Arg(args, 1), Arg(args, 2), optc, optv)
    [] c = "rm" -> cmd_rm(s, Arg(args, 1), optc, optv)

-----------------------------------------------------------------------------
(* The table of commands and the lines.                                      *)

CMD(name, f, min, max) == [name |-> name, infix |-> FALSE, min |-> min, max |-> max, f |-> f]
INFIX(name, f)         == [name |-> name, infix |-> TRUE, min |-> 2, max |-> 2, f |-> f]

commands ==
  <<CMD(<<"l", "s">>, "ls", 0, -1), CMD(<<"p", "w", "d">>, "pwd", 0, 0), CMD(<<"c", "d">>, "cd", 0, 1),
    CMD(<<"c", "p">>, "cp", 2, 2), CMD(<<"m", "v">>, "mv", 2, 2), CMD(<<"r", "m">>, "rm", 1, 1),
    CMD(<<"m", "k">>, "mkdir", 1, 1), CMD(<<"c", "a", "t">>, "cat", 1, 1), CMD(<<"t", "o">>, "touch", 1, 1),
    INFIX(<<">">>, "write"), INFIX(<<">", ">">>, "append"), CMD(<<"p", "t">>, "pathtest", 0, 0),
    CMD(<<"f", "l">>, "flocktest", 0, 0)>>

\* The first command whose name stands where it should, 0 if there is none.
NameAt(c, k, argv) == k <= Len(argv) /\ argv[k] = c.name
FirstOf(hits)      == IF hits = {} THEN 0 ELSE Min(hits)
Lookup(argv) ==
  FirstOf({k \in DOMAIN commands : NameAt(commands[k], IF commands[k].infix THEN 2 ELSE 1, argv)})

Run1(c, s, argv, optv) ==
  LET optc == Len(optv)
  IN  CASE c = "ls"     -> cmd_ls(s, Tail(argv), optc, optv)
        [] c = "pwd"    -> Ends(s, IF optc > 0 THEN "E_INVAL_OPT" ELSE "E_OK")
        [] c = "cd"     -> cmd_cd(s, argv, optc)
        [] c \in {"cp", "mv", "rm"} -> cmd(c, s, Tail(argv), optc, optv)
        [] c = "mkdir"  -> cmd_mkdir(s, argv[2], optc)
        [] c = "cat"    -> cmd_cat(s, argv[2], optc)
        [] c = "touch"  -> cmd_touch(s, argv[2], optc)
        [] c = "write"  -> cmd_write(s, argv, optc)
        [] c = "append" -> cmd_append(s, argv, optc)
        [] c = "pathtest"  -> cmd_pathtest(s)
        [] c = "flocktest" -> Ends(s, "E_OK") \cup Ends(s, "E_CANT_OPEN")

\* The number n of arguments is checked; c is the entry of the table.
Checked(c, s, n, argv, optv) ==
  IF c.min > n THEN Ends(s, "E_FEW_ARGS")
  ELSE IF 0 < c.max /\ c.max < n THEN Ends(s, "E_MANY_ARGS")
  ELSE Run1(c.f, s, argv, optv)

RunEntry(k, s, line) ==
  IF k = 0 THEN Ends(s, "E_INVAL_CMD") ELSE Checked(commands[k], s, Len(line.argv) - 1, line.argv, line.optv)

process_cmd(s, line) ==
  IF line.argv = << >> THEN Ends(s, IF line.optv = << >> THEN "E_OK" ELSE "E_INVAL_CMD")
  ELSE RunEntry(Lookup(line.argv), s, line)

-----------------------------------------------------------------------------
Init == sh \in Start /\ str = << >>

Below(at, p) == Len(p) >= Len(at) /\ SubSeq(p, 1, Len(at)) = at

\* Left out: a directory moved or copied into itself (mv does not end then) and
\* the removal of a directory the shell is in (FsCalls has that).
Sane(s, line) ==
  line.argv # << >> /\ line.argv[1] \in {<<"c", "p">>, <<"m", "v">>, <<"r", "m">>} /\ Len(line.argv) > 1 =>
    LET src == namei(s, line.argv[2])
    IN  /\ line.argv[1] # <<"c", "p">> => ~Below(src, s.dir)
        /\ Len(line.argv) > 2 /\ IsDir(s, src) => ~Below(src, Place(s, line.argv[3]))

Bounded(s) == \A p \in DOMAIN s.tree : Len(p) <= MaxDepth /\ Len(s.tree[p].data) <= MaxText

\* One round of main with a line of Lines.
Command ==
  \E line \in Lines : \E r \in process_cmd(sh, line) :
    /\ str = << >> /\ ~sh.dead /\ Sane(sh, line) /\ Bounded(r.sh)
    /\ sh' = r.sh /\ UNCHANGED str

\* Any other line is typed to the shell when it has just been started.
Typing == sh \in Start /\ Type /\ UNCHANGED sh

Enter ==
  /\ str # << >> /\ str' = << >>
  /\ \E r \in process_cmd(sh, tokenize(str)) : sh' = r.sh

Next == Command \/ Typing \/ Enter

Spec == Init /\ [][Next]_<<sh, str>>

-----------------------------------------------------------------------------
\* What command c may do next: [line, r] for its lines and their outcomes.
IsCommand(k, c) == k # 0 /\ commands[k].f = c
Outcomes(c) ==
  IF sh.dead \/ str # << >> THEN {}
  ELSE UNION {{[line |-> l, r |-> r] : r \in process_cmd(sh, l)} :
                l \in {m \in Lines : Sane(sh, m) /\ IsCommand(Lookup(m.argv), c)
                                      /\ Len(m.argv) > 2 - (IF c = "rm" THEN 1 ELSE 0)}}

\* Everything outside the subtrees at the paths in S is as before.
OnlyBelow(S, s) ==
  \A p \in DOMAIN sh.tree \cup DOMAIN s.tree :
    (\A at \in S : ~Below(at, p)) => p \in DOMAIN sh.tree /\ p \in DOMAIN s.tree /\ s.tree[p] = sh.tree[p]

\* The subtree of t at a, as a set of paths below a and nodes.
Subtree(t, a) == {<<SubSeq(p, Len(a) + 1, Len(p)), t[p]>> : p \in {q \in DOMAIN t : Below(a, q)}}

\* Every command gives back the descriptors it opened, on its error paths too
\* (the labels end: of commands.c), also when recurse_dir stops half way.
FdsClosed == ~sh.dead => sh.fds = 0


\* A mv that succeeds leaves at the destination exactly what was at the source,
\* nothing at the source, and everything else alone (cmd_mv, recurse_dir).
MvMoves ==
  \A o \in Outcomes("mv") : o.r.err = "E_OK" /\ ~o.r.sh.dead =>
    LET src == namei(sh, o.line.argv[2])
        dst == Place(sh, o.line.argv[3])
    IN  /\ Subtree(o.r.sh.tree, dst) = Subtree(sh.tree, src)
        /\ ~Exists(o.r.sh, src) /\ OnlyBelow({src, dst}, o.r.sh)

\* Whatever comes of a mv, an error half way or a failed ASSERT, every file that
\* was below the source is there still or at its place below the destination.
MvLosesNothing ==
  \A o \in Outcomes("mv") :
    LET src == namei(sh, o.line.argv[2])
        dst == Place(sh, o.line.argv[3])
    IN  src # NoPath =>
          \A f \in Subtree(sh.tree, src) : f[2].type = "file" =>
            f \in Subtree(o.r.sh.tree, src) \cup Subtree(o.r.sh.tree, dst)

\* A cp that succeeds leaves a copy where there was nothing, and changes nothing
\* outside the destination whatever its outcome (cmd_cp).
CpCopies ==
  \A o \in Outcomes("cp") :
    LET src == namei(sh, o.line.argv[2])
        dst == Place(sh, o.line.argv[3])
    IN  /\ src # NoPath => OnlyBelow({dst}, o.r.sh)
        /\ o.r.err = "E_OK" /\ ~o.r.sh.dead /\ ~Exists(sh, dst) => Subtree(o.r.sh.tree, dst) = Subtree(sh.tree, src)

\* A rm that succeeds removes the whole subtree, and no outcome of rm touches
\* anything else (cmd_rm).
RmRemoves ==
  \A o \in Outcomes("rm") :
    LET at == namei(sh, o.line.argv[2])
    IN  at # NoPath => /\ OnlyBelow({at}, o.r.sh)
                       /\ o.r.err = "E_OK" /\ ~o.r.sh.dead => ~Exists(o.r.sh, at)

\* After "text > path" the file holds the text alone, whatever it held before
\* (cmd_write).
WriteReplaces ==
  \A o \in Outcomes("write") : o.r.err = "E_OK" /\ ~o.r.sh.dead =>
    o.r.sh.tree[Place(sh, o.line.argv[3])].data = <<o.line.argv[1]>>

\* A command that reports success has done to the tree what it is for, and
\* nothing else (cmd_mv, cmd_cp, cmd_rm, cmd_write).
CommandsDoTheirWork == MvMoves /\ CpCopies /\ RmRemoves /\ WriteReplaces

\* A command that fails half way leaves no descriptor open and loses no file.
FailuresHarmless == FdsClosed /\ MvLosesNothing
==============================================================================
