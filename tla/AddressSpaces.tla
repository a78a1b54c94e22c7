---------------------------- MODULE AddressSpaces ----------------------------
(***************************************************************************)
(* What the memory of processes promises: every process has bytes of its    *)
(* own.  A step concerns one process.  It may write some bytes, and it may  *)
(* map others that were not there, with any contents; every byte that was   *)
(* there and is not written stays.                                          *)
(***************************************************************************)
EXTENDS Integers

CONSTANTS Proc, VA, Writes
VARIABLE space

Unmapped == -1

Init == space = [p \in Proc |-> [va \in VA |-> Unmapped]]

Touch(p, w) ==
  \A va \in VA :
    IF space[p][va] = Unmapped
      THEN va \in DOMAIN w => space'[p][va] \in {w[va], Unmapped}
      ELSE space'[p][va] = IF va \in DOMAIN w THEN w[va] ELSE space[p][va]

Nothing == [va \in {} |-> 0]

Next ==
  \E p \in Proc :
    /\ \A q \in Proc \ {p} : space'[q] = space[q]
    /\ \E w \in Writes \cup {Nothing} : Touch(p, w)

Spec == Init /\ [][Next]_space
==============================================================================
