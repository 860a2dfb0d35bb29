---------------------------- MODULE MC_Connector ----------------------------
(* Instances of Connector for TLC. *)
EXTENDS Connector, TLC
CONSTANTS a1, a2, s1
=============================================================================
