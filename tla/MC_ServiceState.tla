--------------------------- MODULE MC_ServiceState ---------------------------
(* Instances of ServiceState for TLC. *)
EXTENDS ServiceState, TLC

All == AllFeatures
\* what neither users nor the configuration did to the service itself
Steady == {"ack", "downtime", "hostdown", "period", "switch"}
Always == States

ProblemSymmetry == Permutations(Problems)

\* the history variables, on which no action depends, left out of the state
WithoutHistory == <<[svc EXCEPT !.sent = {}, !.told = FALSE, !.streak = 0,
                                !.deferred = @ /\ svc.last # None], env>>
==============================================================================
