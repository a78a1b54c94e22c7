------------------------------ MODULE ByteFiles ------------------------------
(***************************************************************************)
(* What the content of files promises: a file is a sequence of bytes, a     *)
(* write replaces a stretch that begins inside it or at its end, and a file *)
(* that is freed becomes empty.  Nothing a call does to one file shows in   *)
(* another.                                                                 *)
(***************************************************************************)
EXTENDS Sequences, Naturals

CONSTANTS Inum, Request, First    \* Request: what programs write, sequences of bytes

VARIABLE content

\* s with the bytes of data from offset off on.
Overwrite(s, off, data) ==
  SubSeq(s, 1, off) \o data \o SubSeq(s, off + Len(data) + 1, Len(s))

Init == content = First

Write ==
  \E i \in Inum, data \in Request : \E off \in 0 .. Len(content[i]) :
    content' = [content EXCEPT ![i] = Overwrite(@, off, data)]

Trunc == \E i \in Inum : content' = [content EXCEPT ![i] = << >>]

Next == Write \/ Trunc

Spec == Init /\ [][Next]_content
==============================================================================
