-------------------------------- MODULE Paths --------------------------------
(***************************************************************************)
(* The string operators of PathOps on every string of a bounded length that *)
(* can be typed, compared with definitions that do not scan.                *)
(***************************************************************************)
EXTENDS PathOps

CONSTANTS
  Alphabets,  \* a string is made of characters of one of these sets
  MaxLen      \* bound on its length

ASSUME PathsAssumption == MaxLen \in Nat

VARIABLE str  \* what has been typed of the current line

Type ==
  /\ Len(str) < MaxLen
  /\ \E A \in Alphabets : \E c \in A :
       {str[k] : k \in 1 .. Len(str)} \subseteq A /\ str' = Append(str, c)

\* skipelem yields the elements between the slashes of a path one by one, each
\* cut to DIRSIZ - 1 characters, and skips the rest of a long one.
SkipelemSplits ==
  LET names == Fields(str, Slash)
  IN  namex(str) = [j \in DOMAIN names |-> SubSeq(names[j], 1, Min({Len(names[j]), DIRSIZ - 1}))]

\* Paths that start with one slash.
Absolute == str # << >> /\ str[1] = Slash /\ (Len(str) = 1 \/ str[2] # Slash)

\* Some ".." comes directly after another one.
UpTwice ==
  LET names == SelectSeq(Fields(str, Slash), LAMBDA n : n # Dot)
  IN  \E j \in 1 .. Len(names) - 1 : names[j] = DotDot /\ names[j + 1] = DotDot

\* The ASSERTs of normalize_path and split_path hold for a path with one slash
\* in front: the result is never empty, starts with a slash and fits in place.
NormalizeInPlace == Absolute => normalize_path(str).ok

\* normalize_path leaves the names of the directory the path leads to, as long
\* as no ".." follows another.
NormalizeResolves ==
  Absolute /\ ~UpTwice =>
    Fields(normalize_path(str).path, Slash) = Resolve(<< >>, Fields(str, Slash))

\* Wherever a path is cut, joining the parts gives a path with the same names:
\* join_path adds a separator exactly where one is missing.
JoinKeepsNames ==
  \A k \in 0 .. Len(str) - 1 :
    LET p1 == SubSeq(str, 1, k)
        p2 == Drop(str, k)
        j  == join_path(p1, p2)
    IN  /\ Fields(j, Slash) = Fields(p1, Slash) \o Fields(p2, Slash)
        /\ (j # << >> /\ j[1] = Slash) <=> (str[1] = Slash)

\* tokenize stores exactly as many arguments and options as count_tokens made
\* room for, and they are the words of the line.
TokensFit ==
  LET t     == tokenize(str)
      n     == count_tokens(str)
      words == Fields(str, Space)
  IN  /\ n = [argc |-> Len(t.argv), optc |-> Len(t.optv)]
      /\ t.optv = SelectSeq(words, LAMBDA w : w[1] = "-")
      /\ t.argv = SelectSeq(words, LAMBDA w : w[1] # "-")

\* The kernel and the shell take every line apart into the same words and names
\* as a definition that does not scan, and put paths together from them.
WordsRight == SkipelemSplits /\ NormalizeInPlace /\ NormalizeResolves /\ JoinKeepsNames /\ TokensFit
==============================================================================
