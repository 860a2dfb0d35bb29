---------------------------- MODULE MC_CheckCycle ----------------------------
(* Instances of CheckCycle for TLC. *)
EXTENDS CheckCycle, TLC

CONSTANTS s1, s2

\* s1 depends on s2; nothing else
Depends == [s \in Services |-> IF s = s1 THEN Services \ {s1} ELSE {}]
Independent == [s \in Services |-> {}]

IdSymmetry == Permutations(Ids)
=============================================================================
