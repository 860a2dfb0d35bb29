--------------------------- MODULE MC_CommandFile ---------------------------
(* Instances of CommandFile for TLC. *)
EXTENDS CommandFile, TLC
CONSTANTS c1, c2, c3, p1, p2
=============================================================================
