---------------------------- MODULE MCReferences ----------------------------
(***************************************************************************)
(* Instance of References for TLC.                                         *)
(***************************************************************************)
EXTENDS References, TLC

Symmetric == Permutations(Files) \cup Permutations(Objs)
=============================================================================
