------------------------------ MODULE MCConfig ------------------------------
(***************************************************************************)
(* An instance of Config for TLC: two files, a setting that works and      *)
(* one that does not, and each variable of the environment unset and set.  *)
(***************************************************************************)
EXTENDS Config, TLC

OneOfEach == {"sel_encoding", "subfiling"}
SomeZips == {Unset, "1"}
Few == {Unset, "canonical"}
Symmetry == Permutations(Files)
=============================================================================
