----------------------------- MODULE MCLogFile -----------------------------
(***************************************************************************)
(* Instances of LogFile for TLC.  The blocks a program writes are one cell *)
(* wide; whether two blocks touch or leave a gap decides what the search   *)
(* of the index makes of them.                                             *)
(***************************************************************************)
EXTENDS LogFile

OneCell == {0}
Adjacent == {0, 1}
AdjacentAndGap == {0, 1, 3}
=============================================================================
