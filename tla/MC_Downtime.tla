---------------------------- MODULE MC_Downtime ----------------------------
(* Instances of Downtime for TLC. *)
EXTENDS Downtime, TLC

CONSTANTS host, svc

Fixed == [fixed |-> TRUE, triggered |-> FALSE]
Flexible == [fixed |-> FALSE, triggered |-> FALSE]
TriggeredFixed == [fixed |-> TRUE, triggered |-> TRUE]
TriggeredFlexible == [fixed |-> FALSE, triggered |-> TRUE]

OneWindow == {<<1, 2>>}
NotHanging == {Fixed, Flexible, TriggeredFixed}
Propagated == {Flexible, TriggeredFlexible}
=============================================================================
