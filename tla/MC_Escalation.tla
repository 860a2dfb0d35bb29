---------------------------- MODULE MC_Escalation ----------------------------
(* Instances of Escalation for TLC. *)
EXTENDS Escalation

\* two levels that overlap, the first one ending; one for critical states only,
\* that stops further notifications
Rule(first, last, interval, contacts, states) ==
  [first |-> first, last |-> last, interval |-> interval,
   contacts |-> contacts, states |-> states]
Levels == {Rule(1, 2, 1, {"bob"}, States),
           Rule(2, 0, 2, {"cat"}, States),
           Rule(2, 2, 0, {"ann"}, {"CRITICAL", OK})}

\* everybody wants everything, or bob no recoveries, or cat no warnings
Wishes == {[c \in Contacts |-> States],
           [c \in Contacts |-> IF c = "bob" THEN Problems ELSE States],
           [c \in Contacts |-> IF c = "cat" THEN {"CRITICAL", OK} ELSE States]}
==============================================================================
