------------------------------ MODULE EventList ------------------------------
(***************************************************************************)
(* The timed events of the engine as src/events/timed_event.cc keeps them: *)
(* two doubly linked lists (high and low priority) with head and tail      *)
(* pointers, the index quick_timed_event that finds the event of a host or *)
(* a service without walking a list, and the dispatching loop that pops,   *)
(* runs, reschedules and frees events.  Objects stands for the services    *)
(* (hosts are handled by the same code, line for line).                    *)
(*                                                                         *)
(* Everything here runs in the main thread.  While the loop runs an event, *)
(* and while it sleeps, handlers and external commands schedule events;    *)
(* a configuration reload is applied between two events only.              *)
(***************************************************************************)
EXTENDS Integers, Sequences, FiniteSets

CONSTANTS
  Nodes,       \* addresses a timed_event may be allocated at
  Objects,     \* services
  NULL,
  MaxTime,     \* bound: horizon of the clock; run times saturate there
  Interval,    \* event_interval of the recurring events
  Threshold,   \* time_change_threshold
  Reack        \* whether a service may be acknowledged again, its first
               \* acknowledgement still having an expiration event queued

ASSUME EventListAssumption ==
  /\ IsFiniteSet(Nodes) /\ NULL \notin Nodes \cup Objects
  /\ MaxTime \in Nat /\ Interval \in Nat \ {0} /\ Threshold \in Nat \ {0}
  /\ Reack \in BOOLEAN

Times == 0 .. MaxTime
Priorities == {"high", "low"}
Pointers == Nodes \cup {NULL}

VARIABLES
  list,        \* [Priorities -> head and tail]
  next, prev,  \* the links, as fields of the nodes
  when,        \* run_time
  kind,        \* event_type, reduced to what the code tells apart
  data,        \* event_data
  forced,      \* event_options & CHECK_OPTION_FORCE_EXECUTION
  freed,       \* the addresses that hold no timed_event
  index,       \* quick_timed_event, low priority part
  running,     \* temp_event: the event being handled, or NULL
  now,         \* the system clock
  lastTime,    \* _last_time: the clock as the loop last read it
  state        \* whether a service is new, live or gone

queue == <<list, next, prev, when, kind, data, forced, freed, index>>
clocks == <<now, lastTime>>
vars == <<queue, running, clocks, state>>

Kinds == {"check", "ack", "misc", "once"}
Recurring(n) == kind[n] = "misc"
Indexed == {"check", "ack"}
PriorityOf(k) == IF k \in Indexed THEN "low" ELSE "high"
\* events that occur at a specific time are not moved with the clock
Compensated(n) == kind[n] # "once"

-----------------------------------------------------------------------------
(* The queue as a value, so that a handler is a composition of operations   *)
(* on it.  The lists are read off by following the pointers.                *)

Queue == [list |-> list, next |-> next, prev |-> prev, when |-> when,
          kind |-> kind, data |-> data, forced |-> forced,
          freed |-> freed, index |-> index]

Becomes(Q) ==
  /\ list' = Q.list /\ next' = Q.next /\ prev' = Q.prev
  /\ when' = Q.when /\ kind' = Q.kind /\ data' = Q.data
  /\ forced' = Q.forced /\ freed' = Q.freed /\ index' = Q.index

Walk(link, start) ==
  LET at[k \in 0 .. Cardinality(Nodes)] ==
        IF k = 0 THEN start
        ELSE IF at[k - 1] = NULL THEN NULL ELSE link[at[k - 1]]
      steps == {k \in DOMAIN at : at[k] # NULL}
  IN  [i \in 1 .. Cardinality(steps) |-> at[i - 1]]

Forward(Q, p) == Walk(Q.next, Q.list[p].head)
Backward(Q, p) == Walk(Q.prev, Q.list[p].tail)
Members(Q, p) == LET s == Forward(Q, p) IN {s[i] : i \in DOMAIN s}

First(S) == CHOOSE i \in S : \A j \in S : i <= j

(* hash_timed_event: one entry per object and event type; erasing looks at  *)
(* the object only, not at which of its events is removed.                  *)
IndexPut(Q, n, entry) ==
  IF Q.kind[n] \in Indexed THEN [Q EXCEPT !.index[Q.kind[n]][Q.data[n]] = entry]
  ELSE Q
IndexInsert(Q, n) == IndexPut(Q, n, n)
IndexErase(Q, n) == IndexPut(Q, n, NULL)

(* add_event: an empty list, a new head, or a walk back from the tail to the *)
(* last event that is not due later.                                        *)
AddEvent(Q, p, n) ==
  LET R    == IndexInsert([Q EXCEPT !.next[n] = NULL, !.prev[n] = NULL], n)
      head == Q.list[p].head
      back == Backward(R, p)
      hit  == {i \in DOMAIN back : Q.when[back[i]] <= Q.when[n]}
      spot == back[First(hit)]
      succ == R.next[spot]
      last == back[Len(back)]
  IN  IF head = NULL
      THEN [R EXCEPT !.list[p] = [head |-> n, tail |-> n]]
      ELSE IF Q.when[n] < Q.when[head]
      THEN [R EXCEPT !.prev[head] = n, !.next[n] = head, !.list[p].head = n]
      ELSE IF hit = {}
      THEN [R EXCEPT !.prev[last] = n, !.next[n] = last, !.list[p].head = n]
      ELSE IF succ = NULL
      THEN [R EXCEPT !.prev[n] = spot, !.next[spot] = n, !.list[p].tail = n]
      ELSE [R EXCEPT !.next[n] = succ, !.prev[n] = spot,
                     !.next[spot] = n, !.prev[succ] = n]

(* remove_event: unlink, keeping head, tail and index right. *)
RemoveEvent(Q, p, n) ==
  LET R     == IndexErase(Q, n)
      head  == Q.list[p].head
      succ  == Q.next[n]
      preds == {m \in Members(Q, p) : Q.next[m] = n}
      pred  == CHOOSE m \in preds : TRUE
  IN  IF head = NULL THEN Q
      ELSE IF head = n /\ succ = NULL
      THEN [R EXCEPT !.prev[n] = NULL,
                     !.list[p] = [head |-> NULL, tail |-> NULL]]
      ELSE IF head = n
      THEN [R EXCEPT !.prev[n] = NULL, !.prev[succ] = NULL,
                     !.list[p].head = succ]
      ELSE IF preds = {} THEN R
      ELSE IF succ = NULL
      THEN [R EXCEPT !.next[pred] = NULL, !.prev[n] = NULL,
                     !.list[p].tail = pred]
      ELSE [R EXCEPT !.next[pred] = succ, !.prev[succ] = pred,
                     !.next[n] = NULL, !.prev[n] = NULL]

(* The loop unlinks the event it runs by hand; the tail of a list that      *)
(* becomes empty keeps pointing at it.                                      *)
Mutant_PopHeadLinked(Q, p) ==
  [IndexErase(Q, Q.list[p].head) EXCEPT !.list[p].head = Q.next[Q.list[p].head]]
Mutant_PopHeadIndexed(Q, p) ==
  LET succ == Q.next[Q.list[p].head]
  IN  IF succ = NULL THEN [Q EXCEPT !.list[p].head = NULL]
      ELSE [Q EXCEPT !.list[p].head = succ, !.prev[succ] = NULL]
PopHead(Q, p) ==
  LET R    == IndexErase(Q, Q.list[p].head)
      succ == Q.next[Q.list[p].head]
  IN  IF succ = NULL THEN [R EXCEPT !.list[p].head = NULL]
      ELSE [R EXCEPT !.list[p].head = succ, !.prev[succ] = NULL]

(* resort_event_list: empty the list, add every event again in list order. *)
(* The index needs no clearing: adding an event again puts its entry back.  *)
Resort(Q, p) ==
  LET old == Forward(Q, p)
      S[k \in 0 .. Len(old)] ==
        IF k = 0 THEN [Q EXCEPT !.list[p].head = NULL]
        ELSE AddEvent(S[k - 1], p, old[k])
  IN  S[Len(old)]

(* events::schedule: a new timed_event at address n joins its list. *)
Schedule(Q, n, k, o, t, f) ==
  AddEvent([Q EXCEPT !.when[n] = t, !.kind[n] = k, !.data[n] = o,
                     !.forced[n] = f, !.freed = @ \ {n}],
           PriorityOf(k), n)

(* remove_event and delete. *)
Drop(Q, n) == [RemoveEvent(Q, "low", n) EXCEPT !.freed = @ \cup {n}]

Cap(t) == IF t > MaxTime THEN MaxTime ELSE t

-----------------------------------------------------------------------------

Init ==
  /\ list = [p \in Priorities |-> [head |-> NULL, tail |-> NULL]]
  /\ next = [n \in Nodes |-> NULL] /\ prev = [n \in Nodes |-> NULL]
  /\ when = [n \in Nodes |-> 0]
  /\ kind = [n \in Nodes |-> "misc"]
  /\ data = [n \in Nodes |-> NULL]
  /\ forced = [n \in Nodes |-> FALSE]
  /\ freed = Nodes
  /\ index = [k \in Indexed |-> [o \in Objects |-> NULL]]
  /\ running = NULL
  /\ now = 0 /\ lastTime = 0
  /\ state = [o \in Objects |-> "new"]

(* schedule_service_check: of the queued check and the new one, the queue   *)
(* keeps one; a forced check wins over a normal one, an earlier one over a   *)
(* later one of its kind.                                                   *)
ScheduleCheck(o, t, f) ==
  LET old  == index["check"][o]
      keep == /\ old # NULL
              /\ IF forced[old] THEN ~(f /\ t < when[old])
                                ELSE ~(f \/ t < when[old])
      Q    == IF old = NULL THEN Queue ELSE Drop(Queue, old)
  IN  /\ state[o] = "live"
      /\ ~keep
      /\ \E n \in Q.freed : Becomes(Schedule(Q, n, "check", o, t, f))
      /\ UNCHANGED <<running, clocks, state>>

(* schedule_acknowledgement_expiration: no look at the index, one more event. *)
ScheduleAckExpiration(o, t) ==
  /\ state[o] = "live"
  /\ Reack \/ index["ack"][o] = NULL
  /\ \E n \in freed : Becomes(Schedule(Queue, n, "ack", o, t, FALSE))
  /\ UNCHANGED <<running, clocks, state>>

(* schedule_new_event: reapers, status saves, ... recur; downtimes and       *)
(* program restarts do not.                                                 *)
ScheduleOther(k, t) ==
  /\ \E n \in freed : Becomes(Schedule(Queue, n, k, NULL, t, FALSE))
  /\ UNCHANGED <<running, clocks, state>>

-----------------------------------------------------------------------------
(* The dispatching loop. *)

(* adjust_timestamp_for_time_change *)
Mutant_Adjusted(t) ==
  IF t = 0 THEN 0
  ELSE IF lastTime <= now THEN Cap(t + (now - lastTime))
  ELSE t - (lastTime - now)
Adjusted(t) ==
  IF t = 0 THEN 0
  ELSE IF lastTime <= now THEN Cap(t + (now - lastTime))
  ELSE IF lastTime - now > t THEN 0
  ELSE t - (lastTime - now)

(* One turn of the loop reads the clock; a clock that went back, or ahead by *)
(* the threshold, moves the run times and sorts the lists again.            *)
ReadClock ==
  LET jumped == now < lastTime \/ now - lastTime >= Threshold
      queued == Members(Queue, "high") \cup Members(Queue, "low")
      moved  == [Queue EXCEPT !.when =
                   [n \in Nodes |-> IF n \in queued /\ Compensated(n)
                                    THEN Adjusted(when[n]) ELSE when[n]]]
  IN  /\ running = NULL
      /\ now # lastTime
      /\ lastTime' = now
      /\ Becomes(IF jumped THEN Resort(Resort(moved, "high"), "low") ELSE Queue)
      /\ UNCHANGED <<running, now, state>>

Due(p) == list[p].head # NULL /\ lastTime >= when[list[p].head]

(* The event to run leaves its list and the index. *)
Dispatch(p) ==
  /\ running = NULL /\ lastTime = now
  /\ Due(p) /\ (p = "low" => ~Due("high"))
  /\ running' = list[p].head
  /\ Becomes(PopHead(Queue, p))
  /\ UNCHANGED <<clocks, state>>

(* A check the loop may not run now is put back for later (too many checks  *)
(* running, or active checks switched off).                                 *)
Mutant_Nudge(delay) ==
  /\ running = NULL /\ lastTime = now
  /\ Due("low") /\ ~Due("high") /\ kind[list["low"].head] = "check"
  /\ Becomes([Queue EXCEPT !.when[list["low"].head] = Cap(@ + delay)])
  /\ UNCHANGED <<running, clocks, state>>
Nudge(delay) ==
  LET n == list["low"].head
      Q == RemoveEvent(Queue, "low", n)
  IN  /\ running = NULL /\ lastTime = now
      /\ Due("low") /\ ~Due("high") /\ kind[n] = "check"
      /\ Becomes(AddEvent([Q EXCEPT !.when[n] = Cap(@ + delay)], "low", n))
      /\ UNCHANGED <<running, clocks, state>>

(* Once handled, a recurring event goes back to its list, another is freed. *)
FinishEvent ==
  LET t == Cap(when[running] + Interval)
  IN  /\ running # NULL
      /\ running' = NULL
      /\ IF Recurring(running)
         THEN Becomes(AddEvent([Queue EXCEPT !.when[running] =
                                  IF t < now THEN now ELSE t],
                               "high", running))
         ELSE Becomes([Queue EXCEPT !.freed = @ \cup {running}])
      /\ UNCHANGED <<clocks, state>>

-----------------------------------------------------------------------------
(* A configuration reload, between two events. *)

(* _unschedule_service_events: every event the index finds for the service. *)
(* An erased entry is gone, so each of the two loops ends after one event.   *)
Mutant_Unscheduled(o) ==
  IF index["check"][o] = NULL THEN Queue ELSE Drop(Queue, index["check"][o])
Unscheduled(o) ==
  LET DropIndexed(Q, k) == IF Q.index[k][o] = NULL THEN Q
                           ELSE Drop(Q, Q.index[k][o])
  IN  DropIndexed(DropIndexed(Queue, "check"), "ack")

(* A service that left the configuration: its events are removed and it is  *)
(* deleted.                                                                 *)
ReloadDeleted(o) ==
  /\ running = NULL /\ state[o] = "live"
  /\ state' = [state EXCEPT ![o] = "gone"]
  /\ Becomes(Unscheduled(o))
  /\ UNCHANGED <<running, clocks>>

(* A service whose definition changed, and a new one: unscheduled if it had  *)
(* a check queued, scheduled again, and if its problem is acknowledged so is *)
(* the expiration of the acknowledgement.                                   *)
ReloadScheduled(o, t, acked) ==
  LET Q == IF index["check"][o] # NULL THEN Unscheduled(o) ELSE Queue
  IN  /\ running = NULL /\ state[o] # "gone"
      /\ acked => Reack \/ Q.index["ack"][o] = NULL
      /\ state' = [state EXCEPT ![o] = "live"]
      /\ \E n \in Q.freed :
           LET R == Schedule(Q, n, "check", o, t, FALSE)
           IN  IF acked
               THEN \E m \in R.freed : Becomes(Schedule(R, m, "ack", o, t, FALSE))
               ELSE Becomes(R)
      /\ UNCHANGED <<running, clocks>>

-----------------------------------------------------------------------------

(* The clock advances, or is set. *)
SetClock(t) ==
  /\ t # now
  /\ now' = t
  /\ UNCHANGED <<queue, running, lastTime, state>>

Later == {t \in Times : t >= now}

Next ==
  \/ \E o \in Objects, t \in Later, f \in BOOLEAN : ScheduleCheck(o, t, f)
  \/ \E o \in Objects, t \in Later : ScheduleAckExpiration(o, t)
  \/ \E k \in {"misc", "once"}, t \in Later : ScheduleOther(k, t)
  \/ ReadClock
  \/ \E p \in Priorities : Dispatch(p)
  \/ \E d \in 1 .. 2 : Nudge(d)
  \/ FinishEvent
  \/ \E o \in Objects : ReloadDeleted(o)
  \/ \E o \in Objects, t \in Later, a \in BOOLEAN : ReloadScheduled(o, t, a)
  \/ \E t \in Times : SetClock(t)

Spec == Init /\ [][Next]_vars

-----------------------------------------------------------------------------

TypeOK ==
  /\ list \in [Priorities -> [head : Pointers, tail : Pointers]]
  /\ next \in [Nodes -> Pointers] /\ prev \in [Nodes -> Pointers]
  /\ when \in [Nodes -> Times]
  /\ kind \in [Nodes -> Kinds]
  /\ data \in [Nodes -> Objects \cup {NULL}]
  /\ forced \in [Nodes -> BOOLEAN]
  /\ freed \subseteq Nodes
  /\ index \in [Indexed -> [Objects -> Pointers]]
  /\ running \in Pointers
  /\ now \in Times /\ lastTime \in Times
  /\ state \in [Objects -> {"new", "live", "gone"}]

(* The lists are well linked: walking back from the tail is walking forward *)
(* from the head reversed, unless the list is empty, whatever was added,    *)
(* removed, popped by hand or sorted again before; no event is in two       *)
(* lists, and none is freed or being run while a list still reaches it.     *)
WellLinked ==
  /\ \A p \in Priorities :
       LET f == Forward(Queue, p)
           b == Backward(Queue, p)
       IN  f # <<>> =>
             /\ Len(b) = Len(f)
             /\ \A i \in DOMAIN f : b[Len(f) + 1 - i] = f[i]
  /\ Members(Queue, "high") \cap Members(Queue, "low") = {}
  /\ (Members(Queue, "high") \cup Members(Queue, "low"))
       \cap (freed \cup {running}) = {}

(* schedule_service_check and the reload rely on quick_timed_event to find  *)
(* THE check of a service: the index entry is the check event of the low     *)
(* list, so a service never has two checks queued and none is missed.       *)
CheckIndexExact ==
  \A o \in Objects :
    {n \in Members(Queue, "low") : kind[n] = "check" /\ data[n] = o}
      = {index["check"][o]} \ {NULL}

(* "Unschedule service events" (applier/scheduler.cc): once a reload has    *)
(* deleted a service, no queued event still points to it.                   *)
NoEventOfGoneService ==
  \A n \in Members(Queue, "low") : state[data[n]] # "gone"

(* Each list is the queue that EventQueue specifies: run times in order,     *)
(* first come first served among equal run times, the first event is run.   *)
RunningFrom(p) ==
  IF running # NULL /\ PriorityOf(kind[running]) = p THEN running ELSE NULL
HighQueue == INSTANCE EventQueue WITH pending <- Forward(Queue, "high"),
                                      running <- RunningFrom("high")
LowQueue == INSTANCE EventQueue WITH pending <- Forward(Queue, "low"),
                                     running <- RunningFrom("low")
QueuesSpec == HighQueue!Spec /\ LowQueue!Spec

=============================================================================
