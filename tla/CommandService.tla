--------------------------- MODULE CommandService ---------------------------
(***************************************************************************)
(* What the engine expects of whatever executes its commands: a query that *)
(* was accepted stays pending until it is answered, is answered at most    *)
(* once, and nothing is answered that was not asked.                       *)
(***************************************************************************)
EXTENDS Naturals

CONSTANT Ids

VARIABLES
  pending,   \* queries accepted and not answered yet
  inbox      \* [Ids -> Nat]: answers handed over and not collected yet

vars == <<pending, inbox>>

Init == pending = {} /\ inbox = [id \in Ids |-> 0]

Submit(id) ==
  /\ id \notin pending /\ inbox[id] = 0
  /\ pending' = pending \cup {id}
  /\ UNCHANGED inbox

Answer(id) ==
  /\ id \in pending
  /\ pending' = pending \ {id}
  /\ inbox' = [inbox EXCEPT ![id] = @ + 1]

Collect(id) ==
  /\ inbox[id] > 0
  /\ inbox' = [inbox EXCEPT ![id] = 0]
  /\ UNCHANGED pending

Next == \E id \in Ids : Submit(id) \/ Answer(id) \/ Collect(id)

Spec == Init /\ [][Next]_vars
=============================================================================
