---------------------------- MODULE MCFlockTest ----------------------------
(* The instance of FlockTest for TLC.                                        *)
EXTENDS FlockTest

CONSTANTS p, c
BothPids == {p, c}
=============================================================================
