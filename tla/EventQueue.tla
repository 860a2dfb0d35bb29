----------------------------- MODULE EventQueue -----------------------------
(***************************************************************************)
(* What the event queue of the engine promises, whatever its data          *)
(* structure: the pending timed events are ordered by run time, events of  *)
(* the same run time run in the order they were added, and the event the   *)
(* loop runs is the first one.  EventList is the structure that            *)
(* src/events/timed_event.cc builds, and implements this module.           *)
(***************************************************************************)
EXTENDS Integers, Sequences

CONSTANTS
  Nodes,      \* identities of timed_event objects
  NULL,
  MaxTime     \* horizon of the clock

Times == 0 .. MaxTime

VARIABLES
  pending,    \* the events in the order in which they are to run
  when,       \* run time of every event
  running     \* the event being run, or NULL

qvars == <<pending, when, running>>

-----------------------------------------------------------------------------

Queued == {pending[i] : i \in DOMAIN pending}

(* a is to run before b *)
Precedes(q, a, b) == \E i, j \in DOMAIN q : i < j /\ q[i] = a /\ q[j] = b

Ordered(q, w) == \A i, j \in DOMAIN q : i < j => w[q[i]] <= w[q[j]]

NoDuplicate(q) == \A i, j \in DOMAIN q : q[i] = q[j] => i = j

-----------------------------------------------------------------------------

Init ==
  /\ pending = <<>>
  /\ when \in [Nodes -> Times]
  /\ running = NULL

(* Some events are withdrawn, fresh ones join; the others keep their run     *)
(* time and their order, and go before the fresh ones of their run time.    *)
(* The event that was being run may be done, or join again if it recurs.    *)
Update ==
  /\ running' \in {running, NULL}
  /\ Ordered(pending', when') /\ NoDuplicate(pending')
  /\ \E fresh \in SUBSET Queued' :
       LET kept == Queued' \ fresh
       IN  /\ kept \subseteq Queued
           /\ \A a \in kept : when'[a] = when[a]
           /\ \A a, b \in kept :
                Precedes(pending, a, b) => Precedes(pending', a, b)
           /\ \A a \in kept, b \in fresh :
                when'[a] = when'[b] => Precedes(pending', a, b)

(* The first event leaves the queue to be run. *)
Run ==
  /\ pending # <<>> /\ running = NULL
  /\ running' = Head(pending)
  /\ pending' = Tail(pending)
  /\ UNCHANGED when

(* The system clock jumped: run times move and the same events are sorted   *)
(* again; two events whose run times are then equal keep their order.       *)
Retime ==
  /\ Ordered(pending', when') /\ NoDuplicate(pending')
  /\ Queued' = Queued
  /\ \A a, b \in Queued :
       (Precedes(pending, a, b) /\ when'[a] = when'[b]) =>
         Precedes(pending', a, b)
  /\ UNCHANGED running

Next == Update \/ Run \/ Retime

Spec == Init /\ [][Next]_qvars

=============================================================================
