---------------------------- MODULE BoundedQueue ----------------------------
(***************************************************************************)
(* What the circular buffer of external commands promises its two threads: *)
(* commands come out in the order they went in, each once, and no more     *)
(* than Slots of them wait.                                                *)
(***************************************************************************)
EXTENDS Naturals, Sequences

CONSTANTS Commands, Slots

VARIABLE queue

Init == queue = <<>>

Put(c) == Len(queue) < Slots /\ queue' = Append(queue, c)

Take == queue # <<>> /\ queue' = Tail(queue)

Next == Take \/ \E c \in Commands : Put(c)

Spec == Init /\ [][Next]_queue
=============================================================================
