---------------------------- MODULE MCInodeData ----------------------------
(***************************************************************************)
(* A disk with one file in the image.                                       *)
(***************************************************************************)
EXTENDS InodeData

OneFile == <<3>>
=============================================================================
