------------------------------- MODULE PathOps -------------------------------
(***************************************************************************)
(* Strings that are taken apart: path names in the kernel (path.c) and in   *)
(* the shell (path.c of the shell), and command lines (shell.c).  A string  *)
(* is a sequence of characters without its final '\0'.                     *)
(***************************************************************************)
EXTENDS Integers, Sequences, FiniteSets, FiniteSetsExt

CONSTANT DIRSIZ    \* room for a name and its '\0'

ASSUME PathOpsAssumption == DIRSIZ \in Nat /\ DIRSIZ > 2

Slash == "/"
Space == " "

\* The number of leading characters of p for which Stop does not hold.
Run(p, Stop(_)) == Min({k \in 0 .. Len(p) : k = Len(p) \/ Stop(p[k + 1])})
Drop(p, k)      == SubSeq(p, k + 1, Len(p))

IsSlash(c)    == c = Slash
NotSlash(c)   == c # Slash
IsSpace(c)    == c = Space
NotSpace(c)   == c # Space
SkipSlashes(p) == Drop(p, Run(p, NotSlash))
SkipSpaces(p)  == Drop(p, Run(p, NotSpace))

-----------------------------------------------------------------------------
(* path.c of the kernel.                                                     *)

\* The next element of a path that does not start with a slash, cut to what
\* fits, and the path behind it.
Element(q, n) ==
  [null |-> q = << >>, name |-> SubSeq(q, 1, Min({n, DIRSIZ - 1})), rest |-> SkipSlashes(Drop(q, n))]
ElementOf(q) == Element(q, Run(q, IsSlash))
skipelem(p)  == ElementOf(SkipSlashes(p))

RECURSIVE namex(_)

\* The names a walk along p looks up, in order.
NamesFrom(e) == IF e.null THEN << >> ELSE <<e.name>> \o namex(e.rest)
namex(p)     == NamesFrom(skipelem(p))

-----------------------------------------------------------------------------
(* path.c of the shell.  ok says that the ASSERTs on the way hold.           *)

join_path(p1, p2) ==
  p1 \o (IF p1 # << >> /\ p1[Len(p1)] # Slash THEN <<Slash>> ELSE << >>) \o p2

\* The first component, and the remainder if there is one.
Split(p, first, rest) == [ok |-> p = << >> \/ p[1] # Slash, first |-> first, null |-> rest = << >>, rest |-> rest]
SplitAt(p, n)         == Split(p, SubSeq(p, 1, n), SkipSlashes(Drop(p, n + 1)))
split_path(p)         == SplitAt(p, Run(p, IsSlash))

\* Mutant: one character is removed, not one name.
RemoveDir_OneChar(norm) ==
  IF norm[Len(norm)] = Slash THEN norm ELSE SubSeq(norm, 1, Len(norm) - 1)

\* norm without its last name: nothing if it ends in a slash.
RemoveDir(norm) ==
  SubSeq(norm, 1, Max({k \in 0 .. Len(norm) : k = 0 \/ norm[k] = Slash}))

\* One component is added to norm.
NormStep(norm, first) ==
  IF first \in {<< >>, <<".">>} THEN norm
  ELSE IF first = <<".", ".">> THEN RemoveDir(norm)
  ELSE join_path(norm, first)

RECURSIVE NormLoop(_, _)

\* The loop of normalize_path: what split_path found in the rest of the path, and
\* norm so far.
NormLoop(s, norm) ==
  IF ~s.ok \/ norm = << >> \/ norm[1] # Slash THEN [ok |-> FALSE, path |-> norm]
  ELSE IF s.null THEN [ok |-> TRUE, path |-> NormStep(norm, s.first)]
  ELSE NormLoop(split_path(s.rest), NormStep(norm, s.first))

\* The ASSERTs at the end: the result starts with a slash and fits in place.
NormEnd(p, r) ==
  [ok |-> p # << >> /\ p[1] = Slash /\ r.ok /\ r.path # << >> /\ r.path[1] = Slash /\ Len(r.path) <= Len(p),
   path |-> r.path]

normalize_path(p) == NormEnd(p, NormLoop(split_path(Drop(p, 1)), <<Slash>>))

-----------------------------------------------------------------------------
(* shell.c.                                                                  *)

RECURSIVE count_tokens(_)

\* One token more, an option or an argument, as its first character says.
Counted(c, first) == IF first = "-" THEN [c EXCEPT !.optc = @ + 1] ELSE [c EXCEPT !.argc = @ + 1]

CountFrom(q) ==
  IF q = << >> THEN [argc |-> 0, optc |-> 0] ELSE Counted(count_tokens(Drop(q, Run(q, IsSpace))), q[1])

count_tokens(line) == CountFrom(SkipSpaces(line))

RECURSIVE tokenize(_)

Stored(t, word) == IF word[1] = "-" THEN [t EXCEPT !.optv = <<word>> \o @] ELSE [t EXCEPT !.argv = <<word>> \o @]

\* The first word ends after n characters, and the delimiter is skipped.
TokenAt(q, n) ==
  IF q = << >> THEN [argv |-> << >>, optv |-> << >>] ELSE Stored(tokenize(Drop(q, n + 1)), SubSeq(q, 1, n))
TokenizeFrom(q) == TokenAt(q, Run(q, IsSpace))

tokenize(line) == TokenizeFrom(SkipSpaces(line))

-----------------------------------------------------------------------------
(* References.                                                               *)

\* The maximal runs of characters other than sep, in order.
RunEnd(s, sep, k) == Max({i \in k .. Len(s) : \A j \in k .. i : s[j] # sep})
RunFrom(s, sep, k) == SubSeq(s, k, RunEnd(s, sep, k))
FieldsAt(s, sep, starts) ==
  [j \in 1 .. Cardinality(starts) |->
     RunFrom(s, sep, CHOOSE k \in starts : Cardinality({i \in starts : i <= k}) = j)]
Fields(s, sep) == FieldsAt(s, sep, {k \in 1 .. Len(s) : s[k] # sep /\ (k = 1 \/ s[k - 1] = sep)})

Dot    == <<".">>
DotDot == <<".", ".">>

\* The directory a list of names leads to from base, a list of names too.
RECURSIVE Resolve(_, _)
Resolve(base, names) ==
  IF names = << >> THEN base
  ELSE LET n == Head(names)
       IN  Resolve(IF n = Dot THEN base
                   ELSE IF n = DotDot THEN SubSeq(base, 1, Len(base) - 1)
                   ELSE Append(base, n), Tail(names))
==============================================================================
