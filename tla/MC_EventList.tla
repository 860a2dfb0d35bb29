---------------------------- MODULE MC_EventList ----------------------------
(* EventList on a few addresses and services. *)
EXTENDS EventList, TLC

NodeSymmetry == Permutations(Nodes)

(* States that differ only in what a freed address last held are the same:  *)
(* Allocate fills every field before anything reads it.                     *)
Held(f) == [n \in Nodes |-> IF n \in freed THEN NULL ELSE <<f[n]>>]

LiveView ==
  <<list, Held(next), Held(prev), Held(when), Held(kind), Held(data),
    Held(forced), freed, index, running, clocks, state>>

=============================================================================
