------------------------------ MODULE Downtime ------------------------------
(***************************************************************************)
(* Scheduled downtimes (src/objects/downtime.cc, src/xdddefault.cc): the   *)
(* sorted list of downtimes of hosts and services, the events that start,  *)
(* end and expire them, the start of flexible ones by a problem, downtimes *)
(* triggered by others, cancellation, and a restart from the retention     *)
(* file.  The counters in the objects (scheduled_downtime_depth,           *)
(* pending_flex_downtime) are what the notification viability tests and    *)
(* the check handlers look at.                                             *)
(*                                                                         *)
(* The functions of the code call each other and themselves while they     *)
(* walk the list.  `work' is what is still to be called, the next call     *)
(* first: one step is one call, up to the calls it makes, and nothing else *)
(* happens until the calls have returned: the engine has one thread here.  *)
(***************************************************************************)
EXTENDS Integers, FiniteSets, SequencesExt

CONSTANTS
  Objects, Hosts,   \* monitored objects; those of them that are hosts
  MaxId,            \* bound: downtimes ever scheduled
  MaxTime,          \* bound: horizon of the clock
  MaxPending,       \* bound: pending_flex_downtime stays there
  MaxRestarts,      \* bound: restarts of the engine
  Windows,          \* bound: <<start, end>> of the downtimes scheduled
  Duration,         \* how long flexible downtimes last
  Kinds             \* kinds of downtime users ask for

Ids == 1 .. MaxId

ASSUME DowntimeAssumption ==
  /\ Objects # {} /\ Hosts \subseteq Objects
  /\ MaxId \in Nat /\ MaxTime \in Nat /\ MaxRestarts \in Nat
  /\ MaxPending \in Nat /\ MaxPending >= MaxId
  /\ Windows \subseteq Nat \X Nat /\ Duration \in Nat \ {0}
  /\ Kinds \subseteq [fixed : BOOLEAN, triggered : BOOLEAN]

VARIABLES
  now,
  problem,      \* [Objects -> BOOLEAN]: current_state is not OK, not UP
  depth,        \* [Objects -> Int]: scheduled_downtime_depth
  pending,      \* [Objects -> Int]: pending_flex_downtime
  told,         \* [Objects -> BOOLEAN]: contacts were told of a downtime last
  list,         \* scheduled_downtime_list
  nextId,       \* next_downtime_id
  info,         \* [Ids -> what was asked for]
  inEffect,     \* [Ids -> BOOLEAN]: is_in_effect
  startFlex,    \* [Ids -> BOOLEAN]: start_flex_downtime
  waiting,      \* [Ids -> BOOLEAN]: incremented_pending_downtime
  events,       \* the downtime events of the event list, in order
  work,         \* calls to be made
  restarts

vars == <<now, problem, depth, pending, told, list, nextId, info, inEffect,
          startFlex, waiting, events, work, restarts>>
objectVars == <<depth, pending, told>>
downtimeVars == <<list, nextId, info, inEffect, startFlex, waiting>>
outside == <<now, problem, restarts>>

Expire == 0     \* an event of check_for_expired_downtime, without an id

Live == ToSet(list)
Request == [obj : Objects, fixed : BOOLEAN, by : 0 .. MaxId, start : Nat, end : Nat]
Call == [op : {"handle", "stop", "cancel"}, id : Ids]
        \cup [op : {"sweep"}, id : 0 .. MaxId, obj : Objects]
Event == [time : Nat, id : 0 .. MaxId]

Idle == work = <<>>
On(o) == {d \in Ids : info[d].obj = o}

\* the entries of s that are in S
Kept(s, S) ==
  LET kept[i \in 0 .. Len(s)] ==
        IF i = 0 THEN <<>>
        ELSE IF s[i] \in S THEN Append(kept[i - 1], s[i]) ELSE kept[i - 1]
  IN  kept[Len(s)]

Triggered(d) == Kept(list, {k \in Ids : info[k].by = d})
Calls(op, ids) == [i \in DOMAIN ids |-> [op |-> op, id |-> ids[i]]]

(* schedule_new_event: behind the events of the same time.  A second event   *)
(* of check_for_expired_downtime at the same time would change nothing.  No  *)
(* event is later than the horizon.                                          *)
Enqueue(queue, t, d) ==
  LET e == [time |-> IF t > MaxTime THEN MaxTime ELSE t, id |-> d]
  IN  IF d = Expire /\ e \in ToSet(queue) THEN queue
      ELSE InsertAt(queue, Cardinality({i \in DOMAIN queue : queue[i].time <= e.time}) + 1, e)

Init ==
  /\ now = 0 /\ problem \in [Objects -> BOOLEAN] /\ restarts = 0
  /\ depth = [o \in Objects |-> 0] /\ pending = [o \in Objects |-> 0]
  /\ told = [o \in Objects |-> FALSE]
  /\ list = <<>> /\ nextId = 1
  /\ info \in [Ids -> {[obj |-> CHOOSE o \in Objects : TRUE, fixed |-> TRUE,
                        by |-> 0, start |-> 0, end |-> 0]}]
  /\ inEffect = [d \in Ids |-> FALSE] /\ startFlex = [d \in Ids |-> FALSE]
  /\ waiting = [d \in Ids |-> FALSE]
  /\ events = <<>> /\ work = <<>>

Mutant_Schedule(o, fixed, by, w) ==
  /\ Idle /\ nextId \in Ids
  /\ w[1] < w[2] /\ w[2] > now
  /\ nextId' = IF fixed THEN nextId + 1 ELSE nextId
  /\ info' = [info EXCEPT ![nextId] =
       [obj |-> o, fixed |-> fixed, by |-> by, start |-> w[1], end |-> w[2]]]
  /\ list' = Append(list, nextId)
  /\ events' = IF by = 0 THEN Enqueue(events, w[1], nextId) ELSE events
  /\ UNCHANGED <<outside, objectVars, inEffect, startFlex, waiting, work>>

-----------------------------------------------------------------------------
(* add_downtime: behind the downtimes that start as early.                   *)
Listed(d, start) ==
  InsertAt(list, Cardinality({i \in DOMAIN list : info[list[i]].start <= start}) + 1, d)

(* add_downtime refuses what is triggered by a downtime not in the list.     *)
Refused(by) == by # 0 /\ by \notin Live

(* schedule_downtime, add_downtime and register_downtime: an old or empty    *)
(* window is refused; a downtime triggered by one that is not in the list is *)
(* not added, but its id is gone.  Triggered ones get no start event.        *)
Schedule(o, fixed, by, w) ==
  /\ Idle /\ nextId \in Ids
  /\ w[1] < w[2] /\ w[2] > now
  /\ nextId' = nextId + 1
  /\ IF Refused(by)
     THEN UNCHANGED <<list, info, events>>
     ELSE /\ info' = [info EXCEPT ![nextId] =
                        [obj |-> o, fixed |-> fixed, by |-> by,
                         start |-> w[1], end |-> w[2]]]
          /\ list' = Listed(nextId, w[1])
          /\ events' = IF by = 0 THEN Enqueue(events, w[1], nextId) ELSE events
  /\ UNCHANGED <<outside, objectVars, inEffect, startFlex, waiting, work>>

(* CMD_DEL_HOST_DOWNTIME, CMD_DEL_SVC_DOWNTIME                               *)
Cancel(d) ==
  /\ Idle /\ d \in Live
  /\ work' = <<[op |-> "cancel", id |-> d]>>
  /\ UNCHANGED <<outside, objectVars, downtimeVars, events>>

First(s) == IF s = <<>> THEN 0 ELSE Head(s)

(* CMD_DEL_DOWNTIME_BY_HOST_NAME, and the removal of a host from the         *)
(* configuration: the list is walked from its first entry.                   *)
CancelAll(o) ==
  /\ Idle /\ list # <<>>
  /\ work' = <<[op |-> "sweep", id |-> First(list), obj |-> o]>>
  /\ UNCHANGED <<outside, objectVars, downtimeVars, events>>

(* The flexible downtimes of o that a problem starts now.                    *)
Startable(o) ==
  Kept(list, {d \in On(o) :
    /\ ~info[d].fixed /\ info[d].by = 0 /\ ~inEffect[d]
    /\ info[d].start <= now /\ now <= info[d].end})

(* A check result gives o a problem.  check_pending_flex_host_downtime is    *)
(* called on every change of state, check_pending_flex_service_downtime on a *)
(* hard one and only if pending_flex_downtime says that there is any.        *)
Problem(o, hard) ==
  /\ Idle
  /\ o \in Hosts => hard /\ ~problem[o]
  /\ problem' = [problem EXCEPT ![o] = TRUE]
  /\ IF hard /\ (o \in Hosts \/ pending[o] > 0)
     THEN /\ startFlex' = [d \in Ids |-> startFlex[d] \/ d \in ToSet(Startable(o))]
          /\ work' = Calls("handle", Startable(o))
     ELSE UNCHANGED <<startFlex, work>>
  /\ UNCHANGED <<now, restarts, objectVars, list, nextId, info, inEffect, waiting,
                 events>>

Recover(o) ==
  /\ Idle /\ problem[o]
  /\ problem' = [problem EXCEPT ![o] = FALSE]
  /\ UNCHANGED <<now, restarts, objectVars, downtimeVars, events, work>>

Tick ==
  /\ Idle /\ now < MaxTime
  /\ now' = now + 1
  /\ UNCHANGED <<problem, restarts, objectVars, downtimeVars, events, work>>

(* _exec_event_scheduled_downtime: an event whose downtime is gone is lost.  *)
RunDowntimeEvent ==
  /\ Idle /\ events # <<>>
  /\ Head(events).time <= now /\ Head(events).id # Expire
  /\ events' = Tail(events)
  /\ work' = IF Head(events).id \in Live
             THEN <<[op |-> "handle", id |-> Head(events).id]>> ELSE <<>>
  /\ UNCHANGED <<outside, objectVars, downtimeVars>>

(* check_for_expired_downtime: pending_flex_downtime keeps what the expired  *)
(* downtimes added to it.                                                    *)
RunExpireEvent ==
  /\ Idle /\ events # <<>>
  /\ Head(events).time <= now /\ Head(events).id = Expire
  /\ events' = Tail(events)
  /\ list' = Kept(list, {d \in Ids : inEffect[d] \/ info[d].end >= now})
  /\ UNCHANGED <<outside, objectVars, nextId, info, inEffect, startFlex, waiting, work>>

-----------------------------------------------------------------------------
Due(op, d) == ~Idle /\ Head(work).op = op /\ Head(work).id = d
Without(d) == Kept(list, Ids \ {d})

(* A flexible downtime that no problem has started is not handled while its  *)
(* object is fine, whatever it is handled for.                               *)
NotNow(d) == ~info[d].fixed /\ ~startFlex[d] /\ ~problem[info[d].obj]

Mutant_HandleWait(d) ==
  LET o == info[d].obj IN
  /\ Due("handle", d) /\ NotNow(d)
  /\ pending' = [pending EXCEPT ![o] = IF @ < MaxPending THEN @ + 1 ELSE @]
  /\ waiting' = [waiting EXCEPT ![d] = TRUE]
  /\ events' = Enqueue(events, info[d].end, Expire)
  /\ work' = Tail(work)
  /\ UNCHANGED <<outside, depth, told, list, nextId, info, inEffect, startFlex>>

(* handle_scheduled_downtime: wait for a problem.                            *)
HandleWait(d) ==
  LET o == info[d].obj IN
  /\ Due("handle", d) /\ NotNow(d)
  /\ pending' = [pending EXCEPT ![o] = IF @ < MaxPending THEN @ + 1 ELSE @]
  /\ waiting' = [waiting EXCEPT ![d] = TRUE]
  /\ events' = Enqueue(events, info[d].end + 1, Expire)
  /\ work' = Tail(work)
  /\ UNCHANGED <<outside, depth, told, list, nextId, info, inEffect, startFlex>>

(* handle_scheduled_downtime: start.  Contacts are told if it is the only    *)
(* downtime in effect; the triggered downtimes are handled in turn.          *)
HandleStart(d) ==
  LET o == info[d].obj IN
  /\ Due("handle", d) /\ ~NotNow(d) /\ ~inEffect[d]
  /\ depth' = [depth EXCEPT ![o] = @ + 1]
  /\ told' = [told EXCEPT ![o] = @ \/ depth[o] = 0]
  /\ inEffect' = [inEffect EXCEPT ![d] = TRUE]
  /\ events' = Enqueue(events,
                       IF info[d].fixed THEN info[d].end ELSE now + Duration,
                       d)
  /\ work' = Calls("handle", Triggered(d)) \o Tail(work)
  /\ UNCHANGED <<outside, pending, list, nextId, info, startFlex, waiting>>

Mutant_HandleEnd(d) ==
  LET o == info[d].obj IN
  /\ Due("handle", d) /\ ~NotNow(d) /\ inEffect[d]
  /\ depth' = [depth EXCEPT ![o] = @ - 1]
  /\ told' = [told EXCEPT ![o] = @ /\ depth'[o] # 0]
  /\ pending' = [pending EXCEPT ![o] =
       IF ~info[d].fixed /\ @ > 0 THEN @ - 1 ELSE @]
  /\ inEffect' = [inEffect EXCEPT ![d] = FALSE]
  /\ work' = <<[op |-> "stop", id |-> d]>> \o Tail(work)
  /\ UNCHANGED <<outside, list, nextId, info, startFlex, waiting, events>>

(* handle_scheduled_downtime: end.  is_in_effect is cleared with the entry,  *)
(* by HandleStopped; nothing reads it until then.                            *)
HandleEnd(d) ==
  LET o == info[d].obj IN
  /\ Due("handle", d) /\ ~NotNow(d) /\ inEffect[d]
  /\ depth' = [depth EXCEPT ![o] = @ - 1]
  /\ told' = [told EXCEPT ![o] = @ /\ depth'[o] # 0]
  /\ pending' = [pending EXCEPT ![o] =
       IF ~info[d].fixed /\ waiting[d] /\ @ > 0 THEN @ - 1 ELSE @]
  /\ inEffect' = [inEffect EXCEPT ![d] = FALSE]
  /\ work' = <<[op |-> "stop", id |-> d]>> \o Tail(work)
  /\ UNCHANGED <<outside, list, nextId, info, startFlex, waiting, events>>

(* The loop that stops the triggered downtimes: it looks for the first one   *)
(* and handles it, until there is none.                                      *)
HandleStopTriggered(d) ==
  /\ Due("stop", d) /\ Triggered(d) # <<>>
  /\ work' = <<[op |-> "handle", id |-> Head(Triggered(d))]>> \o work
  /\ UNCHANGED <<outside, objectVars, downtimeVars, events>>

HandleStopped(d) ==
  /\ Due("stop", d) /\ Triggered(d) = <<>>
  /\ list' = Without(d)
  /\ work' = Tail(work)
  /\ UNCHANGED <<outside, objectVars, nextId, info, inEffect, startFlex, waiting, events>>

Mutant_Unschedule(d) ==
  LET o == info[d].obj IN
  /\ Due("cancel", d)
  /\ pending' = [pending EXCEPT ![o] =
       IF ~info[d].fixed /\ waiting[d] THEN @ - 1 ELSE @]
  /\ depth' = [depth EXCEPT ![o] = IF @ > 0 THEN @ - 1 ELSE @]
  /\ told' = [told EXCEPT ![o] = @ /\ depth'[o] # 0]
  /\ inEffect' = [inEffect EXCEPT ![d] = FALSE]
  /\ list' = Without(d)
  /\ work' = Calls("cancel", Triggered(d)) \o Tail(work)
  /\ UNCHANGED <<outside, nextId, info, startFlex, waiting, events>>

(* unschedule_downtime.  The event of the downtime is not found: the address *)
(* of its data is compared with the id.  The triggered ones are unscheduled. *)
Unschedule(d) ==
  LET o == info[d].obj IN
  /\ Due("cancel", d)
  /\ IF d \in Live
     THEN /\ pending' = [pending EXCEPT ![o] =
               IF ~info[d].fixed /\ waiting[d] THEN @ - 1 ELSE @]
          /\ depth' = [depth EXCEPT ![o] = IF inEffect[d] THEN @ - 1 ELSE @]
          /\ told' = [told EXCEPT ![o] =
               @ /\ ~(inEffect[d] /\ depth'[o] = 0)]
          /\ inEffect' = [inEffect EXCEPT ![d] = FALSE]
          /\ list' = Without(d)
          /\ work' = Calls("cancel", Triggered(d)) \o Tail(work)
     ELSE work' = Tail(work) /\ UNCHANGED <<objectVars, inEffect, list>>
  /\ UNCHANGED <<outside, nextId, info, startFlex, waiting, events>>

After(d) == LET place == CHOOSE i \in DOMAIN list : list[i] = d
            IN  First(SubSeq(list, place + 1, Len(list)))

(* delete_downtime_by_hostname_...: the successor is read before the entry   *)
(* is unscheduled.  If that frees the successor too, what is read from it is *)
(* undefined: the walk ends, or goes on anywhere.                            *)
Sweep ==
  /\ ~Idle /\ Head(work).op = "sweep"
  /\ LET o == Head(work).obj
         d == Head(work).id
         Onward(next) == [op |-> "sweep", id |-> next, obj |-> o]
     IN  IF d = 0 THEN work' = Tail(work)
         ELSE IF d \notin Live
         THEN \E next \in Live \cup {0} : work' = <<Onward(next)>> \o Tail(work)
         ELSE work' = (IF info[d].obj = o THEN <<[op |-> "cancel", id |-> d]>> ELSE <<>>)
                      \o <<Onward(After(d))>> \o Tail(work)
  /\ UNCHANGED <<outside, objectVars, downtimeVars, events>>

-----------------------------------------------------------------------------
(* Entries are read in the order they were saved in; one that is triggered   *)
(* by an entry not read yet is refused.                                      *)
Loaded ==
  LET read[i \in 0 .. Len(list)] ==
        IF i = 0 THEN <<>>
        ELSE IF info[list[i]].by \in {0} \cup ToSet(read[i - 1])
             THEN Append(read[i - 1], list[i]) ELSE read[i - 1]
  IN  read[Len(list)]

\* a start event for every downtime read that no other one triggers
Requeued ==
  LET queued[i \in 0 .. Len(Loaded)] ==
        IF i = 0 THEN <<>>
        ELSE IF info[Loaded[i]].by = 0
             THEN Enqueue(queued[i - 1], info[Loaded[i]].start, Loaded[i])
             ELSE queued[i - 1]
  IN  queued[Len(Loaded)]

(* sort_downtime, of a list that is built backwards: any order by start.     *)
Sorted(s) == {t \in [DOMAIN s -> ToSet(s)] :
                /\ ToSet(t) = ToSet(s)
                /\ \A i, j \in DOMAIN s :
                     i < j => info[t[i]].start <= info[t[j]].start}

(* xdddefault_validate_downtime_data: expired ones, then triggered ones      *)
(* without the one that triggers them, are dropped.                          *)
Validated(s) ==
  LET young == Kept(s, {d \in Ids : info[d].end >= now})
      left[i \in 0 .. Len(young)] ==
        IF i = 0 THEN ToSet(young)
        ELSE IF info[young[i]].by \in {0} \cup left[i - 1]
             THEN left[i - 1] ELSE left[i - 1] \ {young[i]}
  IN  Kept(young, left[Len(young)])

(* The engine stops and starts again: the retention file holds the list, not *)
(* what is in effect; a start event is queued for every downtime read.       *)
Restart ==
  /\ Idle /\ restarts < MaxRestarts
  /\ restarts' = restarts + 1
  /\ \E s \in Sorted(Loaded) : list' = Validated(s)
  /\ events' = Requeued
  /\ depth' = [o \in Objects |-> 0] /\ pending' = [o \in Objects |-> 0]
  /\ told' = [o \in Objects |-> FALSE]
  /\ inEffect' = [d \in Ids |-> FALSE] /\ startFlex' = [d \in Ids |-> FALSE]
  /\ waiting' = [d \in Ids |-> FALSE]
  /\ UNCHANGED <<now, problem, nextId, info, work>>

-----------------------------------------------------------------------------
Given == 1 .. nextId - 1

Calling ==
  \/ \E d \in Given :
       \/ HandleWait(d) \/ HandleStart(d) \/ HandleEnd(d)
       \/ HandleStopTriggered(d) \/ HandleStopped(d) \/ Unschedule(d)
  \/ Sweep

Users ==
  \/ \E o \in Objects, k \in Kinds, w \in Windows :
       \E by \in IF k.triggered THEN Given ELSE {0} :
         Schedule(o, k.fixed, by, w)
  \/ \E d \in Given : Cancel(d)
  \/ \E o \in Objects : CancelAll(o)

World ==
  \/ \E o \in Objects : Recover(o) \/ \E hard \in BOOLEAN : Problem(o, hard)
  \/ Restart

Next == Calling \/ Users \/ World \/ Tick \/ RunDowntimeEvent \/ RunExpireEvent

Spec == Init /\ [][Next]_vars

(* Calls go on; commands and check results come between two rounds of the    *)
(* loop: they keep it neither from running the events that are due nor the   *)
(* time from passing.                                                        *)
FairSpec == /\ Spec
            /\ WF_vars(Calling) /\ SF_vars(Tick)
            /\ SF_vars(RunDowntimeEvent \/ RunExpireEvent)

-----------------------------------------------------------------------------
(* The state variables keep their shape, and an id in use was given out.     *)
TypeOK ==
  /\ now \in Nat /\ problem \in [Objects -> BOOLEAN]
  /\ depth \in [Objects -> Int] /\ pending \in [Objects -> Int]
  /\ told \in [Objects -> BOOLEAN]
  /\ list \in Seq(Ids) /\ nextId \in 1 .. MaxId + 1
  /\ \A d \in Live : d < nextId
  /\ info \in [Ids -> Request]
  /\ inEffect \in [Ids -> BOOLEAN] /\ startFlex \in [Ids -> BOOLEAN]
  /\ waiting \in [Ids -> BOOLEAN]
  /\ events \in Seq(Event) /\ work \in Seq(Call) /\ restarts \in Nat

InEffect(o) == {d \in On(o) : inEffect[d]}

(* scheduled_downtime_depth counts the downtimes in effect, whatever starts, *)
(* ends, cancels or triggers them, and contacts were last told of a start if *)
(* and only if there is one: with overlapping downtimes notifications come   *)
(* back with the end of the last one, and not later.                         *)
DepthExact ==
  \A o \in Objects : /\ depth[o] = Cardinality(InEffect(o))
                     /\ told[o] <=> InEffect(o) # {}

(* pending_flex_downtime, without which a service's problem starts nothing,  *)
(* never misses a flexible downtime that waits for a problem.                *)
PendingCovers ==
  \A o \in Objects :
    Idle => pending[o] >= Cardinality({d \in Live \cap On(o) : waiting[d] /\ ~inEffect[d]})

Over(d) == d \notin Live /\ ~inEffect[d]

(* Whatever the others do, whenever its events run, and also if the engine    *)
(* restarts: a fixed downtime is over at last, a flexible one does not wait    *)
(* for ever, it takes effect or is dropped.                                    *)
Concluded ==
  \A d \in Ids :
    /\ (d \in Live /\ info[d].fixed /\ info[d].by = 0) ~> Over(d)
    /\ (d \in Live /\ ~info[d].fixed /\ info[d].by = 0) ~> (inEffect[d] \/ Over(d))

(* The calls a step makes return.                                            *)
Returns == []<>Idle

=============================================================================
