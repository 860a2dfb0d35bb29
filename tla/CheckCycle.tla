----------------------------- MODULE CheckCycle -----------------------------
(***************************************************************************)
(* The life of an active service check: its event in the queue, the loop   *)
(* that runs or nudges it (src/events/loop.cc), the plugin that executes in *)
(* its own process and reports from another thread (checks/checker.cc), the *)
(* reaper that merges and handles the results, and everything that         *)
(* (re)schedules a check (src/checks.cc): results, failed launches, the    *)
(* orphan and the freshness watchdogs, external commands, reloads.         *)
(*                                                                         *)
(* Time is relative: a date is kept as its distance from now, so that Tick *)
(* ages every date by one and the model has finitely many states without a *)
(* horizon.  A date further in the past than any test looks saturates.     *)
(* That a service has at most one check event is what EventList shows.     *)
(***************************************************************************)
EXTENDS Integers, Sequences, FiniteSets

CONSTANTS
  Services,
  OneShot,       \* services whose check_interval is 0
  Ids,           \* bound: command ids, hence plugins running at once
  None,
  MaxParallel,   \* max_parallel_service_checks, 0 for no limit
  MaxDelay,      \* bound: the farthest a check is scheduled ahead
  MaxLate,       \* bound: how late the loop comes to an event that is due
  PluginTimeout, \* service_check_timeout
  OrphanAfter,   \* latency + timeouts + 600 of check_for_orphaned_services
  FreshAfter,    \* freshness_threshold
  MaxPending,    \* bound: results to come or waiting to be reaped
  MaxCounter,    \* bound: checks counted as running
  Masters,       \* [Services -> SUBSET Services]: servicedependencies
  Features       \* what the configuration, users and plugins do in a run

AllFeatures == {"unviable", "failing", "lost", "orphans", "freshness",
                "passive", "schedule", "switch", "stop", "reload",
                "predictive"}

ASSUME CheckCycleAssumption ==
  /\ OneShot \subseteq Services
  /\ IsFiniteSet(Services) /\ IsFiniteSet(Ids)
  /\ MaxParallel \in Nat /\ MaxDelay \in Nat \ {0} /\ MaxLate \in Nat
  /\ PluginTimeout \in Nat /\ OrphanAfter \in Nat /\ FreshAfter \in Nat
  /\ MaxPending \in Nat /\ MaxCounter \in Nat
  /\ Masters \in [Services -> SUBSET Services]
  /\ \A s \in Services : s \notin Masters[s]   \* no circular dependency
  /\ Features \subseteq AllFeatures

VARIABLES
  svc,        \* the fields of each service that the cycle reads and writes
  flight,     \* _list_id, with the state of the plugin it was started for
  toReap,     \* _to_reap
  counter,    \* currently_running_service_checks
  execute,    \* execute_service_checks
  phase,      \* where the main thread is: "loop", "merge", "reap"
  asked       \* check_servicelist: services that the one whose result is being
              \* handled depends on, still to be checked

vars == <<svc, flight, toReap, counter, execute, phase, asked>>

Options == SUBSET {"force", "fresh"}
Past == -(OrphanAfter + 1)          \* dates saturate here
Dates == Past .. MaxDelay
Ages == 0 .. (FreshAfter + PluginTimeout + 1)
Event == [opts : Options, due : Dates]

Service == [event      : Event \cup {None},
            options    : Options,    \* check_options
            next       : Dates,      \* next_check
            age        : Ages,       \* of last_check
            executing  : BOOLEAN,    \* is_executing
            freshening : BOOLEAN,    \* is_being_freshened
            should     : BOOLEAN,    \* should_be_scheduled
            enabled    : BOOLEAN,    \* checks_enabled
            live       : BOOLEAN]    \* configured

Result == [svc : Services, opts : Options, resched : BOOLEAN,
           active : BOOLEAN, age : Ages]
Flight == [result : {r \in Result : r.active}, done : BOOLEAN]

ASSUME NoneAssumption == None \notin Event \cup Flight

On(f) == f \in Features
Pending(q) == Len(q) + Cardinality({i \in Ids : flight[i] # None})
Stale(v) == v.age > FreshAfter
Armed(s) == svc[s].event # None
\* the event at the head of the list, if its time has come
Due(s) == /\ Armed(s) /\ svc[s].event.due <= 0
          /\ \A o \in Services : Armed(o) => svc[s].event.due <= svc[o].event.due

-----------------------------------------------------------------------------
(* schedule_service_check: a new event replaces the queued one if it forces *)
(* what the queued one does not, or if it is earlier and as forceful.       *)
Supersedes(o, t, e) ==
  \/ "force" \in o /\ "force" \notin e.opts
  \/ t < e.due /\ ("force" \in e.opts => "force" \in o)

Schedule(v, t, o) ==
  IF ~v.enabled /\ "force" \notin o THEN v
  ELSE IF v.event = None \/ Supersedes(o, t, v.event)
  THEN [v EXCEPT !.options = o, !.next = t, !.event = [opts |-> o, due |-> t]]
  ELSE [v EXCEPT !.options = o, !.next = v.event.due]

(* A service as the configuration creates it, its first check scheduled in   *)
(* d seconds if it has a check interval.                                     *)
Fresh(s, d) ==
  [event |-> IF s \in OneShot THEN None ELSE [opts |-> {}, due |-> d],
   options |-> {}, next |-> IF s \in OneShot THEN Past ELSE d,
   age |-> FreshAfter, executing |-> FALSE, freshening |-> FALSE,
   should |-> s \notin OneShot, enabled |-> TRUE, live |-> TRUE]

Gone(s) == [Fresh(s, 0) EXCEPT !.event = None, !.live = FALSE]

Init ==
  /\ \E d \in [Services -> 0 .. MaxDelay] : svc = [s \in Services |-> Fresh(s, d[s])]
  /\ flight = [i \in Ids |-> None]
  /\ toReap = <<>>
  /\ counter = 0
  /\ execute = TRUE
  /\ phase = "loop"
  /\ asked = {}

-----------------------------------------------------------------------------
(* The end of checker::run, on the services S, with counter n and results q: *)
(* the check of s is counted and its plugin started.  A command that cannot  *)
(* be executed has its result queued at once.  A broker module that takes    *)
(* the check over at this point (checker.cc:675) is not modelled.            *)
Launched(s, o, resched) ==
  [svc |-> s, opts |-> o, resched |-> resched, active |-> TRUE, age |-> 0]

Launch(S, s, o, resched, n, q) ==
  /\ n < MaxCounter /\ Pending(q) < MaxPending
  /\ svc' = [S EXCEPT ![s].executing = TRUE]
  /\ counter' = n + 1
  /\ \/ \E i \in Ids :
          /\ flight[i] = None
          /\ flight' = [flight EXCEPT ![i] = [result |-> Launched(s, o, resched),
                                             done   |-> FALSE]]
          /\ toReap' = q
     \/ /\ On("failing")
        /\ toReap' = Append(q, Launched(s, o, resched))
        /\ UNCHANGED flight

Mutant_Saturated == MaxParallel # 0 /\ counter > MaxParallel
Saturated == MaxParallel # 0 /\ counter >= MaxParallel
MayRun(s) == "force" \in svc[s].options \/ (~Saturated /\ execute)

(* The loop finds the event due and runs the check (run_scheduled_service_check). *)
(* No broker module takes it over (checker.cc:583).                          *)
RunEvent(s) ==
  /\ phase = "loop" /\ Due(s) /\ MayRun(s)
  /\ svc[s].enabled \/ "force" \in svc[s].event.opts
  /\ LET e == svc[s].event
         v == [svc[s] EXCEPT !.event = None, !.options = {}]
     IN  Launch([svc EXCEPT ![s] = v], s, e.opts, TRUE, counter, toReap)
  /\ UNCHANGED <<execute, phase, asked>>

Mutant_NotViable(s) ==
  /\ phase = "loop" /\ Due(s) /\ MayRun(s) /\ On("unviable")
  /\ svc' = [svc EXCEPT ![s].event = None]
  /\ UNCHANGED <<flight, toReap, counter, execute, phase, asked>>

(* The check is not viable (disabled, outside its period, dependencies) or a *)
(* broker module cancels it: reschedule it, if it is to be scheduled at all, *)
(* with the options of the event.                                            *)
NotViable(s) ==
  /\ phase = "loop" /\ Due(s) /\ MayRun(s)
  /\ On("unviable") \/ (~svc[s].enabled /\ "force" \notin svc[s].event.opts)
  /\ LET v == [svc[s] EXCEPT !.event = None]
     IN  IF v.should
         THEN \E d \in 1 .. MaxDelay :
                svc' = [svc EXCEPT ![s] =
                          Schedule([v EXCEPT !.next = d], d, svc[s].event.opts)]
         ELSE svc' = [svc EXCEPT ![s] = v]
  /\ UNCHANGED <<flight, toReap, counter, execute, phase, asked>>

(* The loop may not run the check: the event is moved, from next_check on,  *)
(* by some seconds, or by the check interval if execution is switched off.  *)
Moved(v, t) ==
  [v EXCEPT !.next = t, !.event = [opts |-> v.event.opts, due |-> t]]

Nudge(s) ==
  /\ phase = "loop" /\ Due(s) /\ ~MayRun(s)
  /\ \E d \in IF ~Saturated /\ s \in OneShot THEN {0} ELSE 1 .. MaxDelay :
       LET t == svc[s].next + d
       IN  /\ t <= MaxDelay
           /\ svc' = [svc EXCEPT ![s] = Moved(@, t)]
  /\ UNCHANGED <<flight, toReap, counter, execute, phase, asked>>

-----------------------------------------------------------------------------
(* The plugin ends: checker::finished, from the thread of the process        *)
(* manager; it needs the mutex that the reaper holds while it merges.        *)
Finished(i) ==
  /\ flight[i] # None /\ ~flight[i].done /\ phase # "merge"
  /\ flight' = [flight EXCEPT ![i].done = TRUE]
  /\ UNCHANGED <<svc, toReap, counter, execute, phase, asked>>

(* The result never comes back. *)
Lose(i) ==
  /\ On("lost")
  /\ flight[i] # None /\ ~flight[i].done
  /\ flight' = [flight EXCEPT ![i] = None]
  /\ UNCHANGED <<svc, toReap, counter, execute, phase, asked>>

(* checker::reap: merge every partial result, in the order of a hash table,  *)
BeginReap ==
  /\ phase = "loop"
  /\ toReap # <<>> \/ \E i \in Ids : flight[i] # None /\ flight[i].done
  /\ phase' = "merge"
  /\ UNCHANGED <<svc, flight, toReap, counter, execute, asked>>

Merge(i) ==
  /\ phase = "merge" /\ flight[i] # None /\ flight[i].done
  /\ toReap' = Append(toReap, flight[i].result)
  /\ flight' = [flight EXCEPT ![i] = None]
  /\ UNCHANGED <<svc, counter, execute, phase, asked>>

Merged ==
  /\ phase = "merge" /\ \A i \in Ids : flight[i] # None => ~flight[i].done
  /\ phase' = "reap"
  /\ UNCHANGED <<svc, flight, toReap, counter, execute, asked>>

(* then handle the results one by one, stopping early when it takes too long. *)
AfterOne == phase' \in IF asked' = {} THEN {"reap", "loop"} ELSE {"reap"}

Mutant_Uncounted(r) == IF r.active THEN counter - 1 ELSE counter
Mutant_UncountedScheduled(r) ==
  IF r.active /\ r.resched /\ counter > 0 THEN counter - 1 ELSE counter
Uncounted(r) == IF r.active /\ counter > 0 THEN counter - 1 ELSE counter

Mutant_Cleared(v, r) ==
  IF "fresh" \in r.opts /\ ~Stale(v) THEN [v EXCEPT !.freshening = FALSE]
  ELSE [v EXCEPT !.freshening = @ /\ "fresh" \notin r.opts,
                 !.executing  = @ /\ ~r.active]
Cleared(v, r) ==
  [v EXCEPT !.freshening = @ /\ "fresh" \notin r.opts,
            !.executing  = @ /\ ~r.active]

Rescheduled(v, s, d) ==
  LET w == [v EXCEPT !.should = s \notin OneShot /\ v.enabled, !.next = d]
  IN  IF w.should THEN Schedule(w, d, {}) ELSE w

(* handle_async_service_check_result.  A change of state reschedules the     *)
(* check whatever the result asks for; near the last attempt, the services   *)
(* this one depends on are collected (checks.cc:993-1032), all of them to be *)
(* checked before it returns.                                                *)
HandleResult ==
  /\ phase = "reap" /\ asked = {} /\ toReap # <<>>
  /\ LET r == Head(toReap)
         s == r.svc
         v == Cleared(svc[s], r)
         w == [v EXCEPT !.age = r.age]
     IN  \/ \* the service is gone, or passive results are no longer accepted
            /\ ~svc[s].live \/ ~r.active
            /\ UNCHANGED <<svc, counter, asked>>
         \/ \* a freshness check that a passive result made useless
            /\ svc[s].live /\ "fresh" \in r.opts /\ ~Stale(v)
            /\ svc' = [svc EXCEPT ![s] = v]
            /\ counter' = Uncounted(r)
            /\ UNCHANGED asked
         \/ \E change \in BOOLEAN, d \in 0 .. MaxDelay :
            /\ svc[s].live /\ ("fresh" \in r.opts => Stale(v))
            /\ svc' = [svc EXCEPT ![s] = IF r.resched \/ change
                                         THEN Rescheduled(w, s, d) ELSE w]
            /\ counter' = Uncounted(r)
            /\ asked' \in {{}, Masters[s]}
  /\ toReap' = Tail(toReap)
  /\ AfterOne
  /\ UNCHANGED <<flight, execute>>

(* The end of the handler: each of them is checked unless it is executing,   *)
(* its state is recent or the check is not viable.  Plugins go on reporting. *)
NextMaster(m) ==
  /\ phase = "reap" /\ m \in asked
  /\ asked' = asked \ {m}
  /\ AfterOne
  /\ UNCHANGED execute

CheckMaster(m) ==
  /\ NextMaster(m)
  /\ On("predictive")
  /\ svc[m].live /\ svc[m].enabled /\ ~svc[m].executing
  /\ Launch(svc, m, {}, FALSE, counter, toReap)

SkipMaster(m) == NextMaster(m) /\ UNCHANGED <<svc, flight, toReap, counter>>

EndReap ==
  /\ phase = "reap" /\ asked = {} /\ toReap = <<>>
  /\ phase' = "loop"
  /\ UNCHANGED <<svc, flight, toReap, counter, execute, asked>>

-----------------------------------------------------------------------------
(* check_for_orphaned_services *)
Mutant_Overdue == {s \in Services : svc[s].live /\ svc[s].executing
                                    /\ svc[s].next < 0}
Overdue == {s \in Services : svc[s].live /\ svc[s].executing
                             /\ svc[s].next < -OrphanAfter}
Mutant_Orphans ==
  /\ On("orphans") /\ phase = "loop" /\ Overdue # {}
  /\ counter' = IF counter < Cardinality(Overdue) THEN 0
                 ELSE counter - Cardinality(Overdue)
  /\ svc' = [s \in Services |->
               IF s \in Overdue THEN [svc[s] EXCEPT !.executing = FALSE]
               ELSE svc[s]]
  /\ UNCHANGED <<flight, toReap, execute, phase, asked>>
Orphans ==
  /\ On("orphans") /\ phase = "loop" /\ Overdue # {}
  /\ counter' = IF counter < Cardinality(Overdue) THEN 0
                 ELSE counter - Cardinality(Overdue)
  /\ svc' = [s \in Services |->
               IF s \in Overdue
               THEN Schedule([svc[s] EXCEPT !.executing = FALSE], 0, {})
               ELSE svc[s]]
  /\ UNCHANGED <<flight, toReap, execute, phase, asked>>

(* check_service_result_freshness; the check period excludes some services. *)
Freshness ==
  /\ On("freshness") /\ phase = "loop"
  /\ \E S \in SUBSET {s \in Services : /\ svc[s].live
                                       /\ ~svc[s].executing /\ ~svc[s].freshening
                                       /\ Stale(svc[s])} :
       /\ S # {}
       /\ svc' = [s \in Services |->
                    IF s \in S
                    THEN Schedule([svc[s] EXCEPT !.freshening = TRUE],
                                  0, {"force", "fresh"})
                    ELSE svc[s]]
  /\ UNCHANGED <<flight, toReap, counter, execute, phase, asked>>

(* External commands.  process_passive_service_check *)
PassiveResult(s) ==
  /\ On("passive") /\ phase = "loop" /\ svc[s].live /\ Pending(toReap) < MaxPending
  /\ toReap' = Append(toReap, [svc |-> s, opts |-> {}, resched |-> FALSE,
                               active |-> FALSE, age |-> 0])
  /\ UNCHANGED <<svc, flight, counter, execute, phase, asked>>

(* cmd_schedule_check *)
ScheduleCommand(s) ==
  /\ On("schedule") /\ phase = "loop" /\ svc[s].live
  /\ \E o \in {{}, {"force"}}, t \in 0 .. MaxDelay :
       svc' = [svc EXCEPT ![s] = Schedule(@, t, o)]
  /\ UNCHANGED <<flight, toReap, counter, execute, phase, asked>>

(* disable_service_checks leaves the queued event alone. *)
DisableChecks(s) ==
  /\ On("switch") /\ phase = "loop" /\ svc[s].live /\ svc[s].enabled
  /\ svc' = [svc EXCEPT ![s] = [@ EXCEPT !.enabled = FALSE, !.should = FALSE]]
  /\ UNCHANGED <<flight, toReap, counter, execute, phase, asked>>

(* enable_service_checks *)
EnableChecks(s) ==
  /\ On("switch") /\ phase = "loop" /\ svc[s].live /\ ~svc[s].enabled
  /\ \E d \in 0 .. MaxDelay :
       LET v == [svc[s] EXCEPT !.enabled = TRUE, !.should = s \notin OneShot,
                               !.next = d]
       IN  svc' = [svc EXCEPT ![s] = IF v.should THEN Schedule(v, d, {}) ELSE v]
  /\ UNCHANGED <<flight, toReap, counter, execute, phase, asked>>

(* start_executing_service_checks, stop_executing_service_checks *)
SwitchExecution ==
  /\ On("stop") /\ phase = "loop"
  /\ execute' = ~execute
  /\ UNCHANGED <<svc, flight, toReap, counter, phase, asked>>

(* A reload, between two events, removes a service or configures it again,  *)
Reload(s) ==
  /\ On("reload") /\ phase = "loop"
  /\ svc' = [svc EXCEPT ![s] = IF svc[s].live THEN Gone(s) ELSE Fresh(s, 0)]
  /\ UNCHANGED <<flight, toReap, counter, execute, phase, asked>>

(* or modifies it: its event is taken from the queue and scheduled anew.    *)
ReloadModified(s) ==
  /\ On("reload") /\ phase = "loop"
  /\ svc[s].live /\ svc[s].enabled /\ s \notin OneShot
  /\ \E d \in 0 .. MaxDelay :
       svc' = [svc EXCEPT ![s] =
                 [@ EXCEPT !.event = [opts |-> svc[s].options, due |-> d],
                           !.next = d, !.should = TRUE]]
  /\ UNCHANGED <<flight, toReap, counter, execute, phase, asked>>

(* A second passes.  A plugin that ran for PluginTimeout is killed before,   *)
(* and an event that waited for MaxLate is handled before.                  *)
Earlier(t) == IF t = Past THEN t ELSE t - 1
Sooner(e) == IF e = None THEN None ELSE [e EXCEPT !.due = Earlier(@)]
Older(a) == IF a = FreshAfter + PluginTimeout + 1 THEN a ELSE a + 1

Tick ==
  /\ \A i \in Ids : flight[i] # None /\ ~flight[i].done
                      => flight[i].result.age < PluginTimeout
  /\ \A s \in Services : Due(s) => svc[s].event.due > -MaxLate
  /\ svc' = [s \in Services |->
               IF ~svc[s].live THEN svc[s]
               ELSE [svc[s] EXCEPT
                       !.next = Earlier(@), !.age = Older(@),
                       !.event = Sooner(@)]]
  /\ flight' = [i \in Ids |->
                  IF flight[i] = None THEN None
                  ELSE [flight[i] EXCEPT !.result.age = Older(@)]]
  /\ toReap' = [k \in DOMAIN toReap |-> [toReap[k] EXCEPT !.age = Older(@)]]
  /\ UNCHANGED <<counter, execute, phase, asked>>

-----------------------------------------------------------------------------
Reap == \/ BeginReap \/ (\E i \in Ids : Merge(i)) \/ Merged \/ HandleResult \/ EndReap
        \/ \E m \in Services : CheckMaster(m) \/ SkipMaster(m)

Next ==
  \/ \E s \in Services :
       \/ RunEvent(s) \/ NotViable(s) \/ Nudge(s)
       \/ PassiveResult(s) \/ ScheduleCommand(s)
       \/ DisableChecks(s) \/ EnableChecks(s)
       \/ Reload(s) \/ ReloadModified(s)
  \/ \E i \in Ids : Finished(i) \/ Lose(i)
  \/ Reap
  \/ Orphans \/ Freshness \/ SwitchExecution
  \/ Tick

Spec == Init /\ [][Next]_vars

(* The main thread comes back to the low priority events whatever it reaps   *)
(* in between (the reaper is a recurring event, a second later at least); it *)
(* reaps and looks for orphans at recurring events; a plugin ends or is      *)
(* killed, and its thread gets the mutex that the reaper holds for a moment; *)
(* the clock advances.                                                       *)
Fairness ==
  /\ \A s \in Services : SF_vars(RunEvent(s)) /\ SF_vars(Nudge(s))
  /\ \A i \in Ids : SF_vars(Finished(i))
  /\ WF_vars(Reap) /\ SF_vars(Orphans) /\ WF_vars(Tick)

FairSpec == Spec /\ Fairness

-----------------------------------------------------------------------------
(* Properties.                                                              *)

TypeOK ==
  /\ svc \in [Services -> Service]
  /\ flight \in [Ids -> Flight \cup {None}]
  /\ toReap \in Seq(Result)
  /\ counter \in Nat
  /\ execute \in BOOLEAN
  /\ phase \in {"loop", "merge", "reap"}
  /\ asked \subseteq Services

FlightsOf(s) == {i \in Ids : flight[i] # None /\ flight[i].result.svc = s}
QueuedOf(s) == {k \in DOMAIN toReap : toReap[k].svc = s /\ toReap[k].active}

(* A service marked as executing has a check whose result will be handled:  *)
(* no path through launch, reap, reload and watchdogs leaves the flag set   *)
(* with nothing behind it to clear it (results may not be lost).            *)
ExecutingHasCheck ==
  \A s \in Services :
    svc[s].live /\ svc[s].executing => FlightsOf(s) # {} \/ QueuedOf(s) # {}

(* A service that should be checked is never forgotten: an event is queued  *)
(* for it, or a result that reschedules it is on its way, or the orphan     *)
(* watchdog will see that it is executing.  (Freshness checks and lost      *)
(* results are excluded: each may leave a service out of the queue.)        *)
NeverForgotten ==
  \A s \in Services :
    svc[s].live /\ svc[s].should =>
      \/ Armed(s)
      \/ \E i \in FlightsOf(s) : flight[i].result.resched
      \/ \E k \in QueuedOf(s) : toReap[k].resched
      \/ On("orphans") /\ svc[s].executing

(* currently_running_service_checks is the number of checks started whose   *)
(* result has not been handled.  (Lost results, orphans given up and        *)
(* reloads are excluded: each makes the counter wrong, the last for good.)  *)
CounterExact ==
  counter = Cardinality({i \in Ids : flight[i] # None})
            + Cardinality({k \in DOMAIN toReap : toReap[k].active})

(* No more than max_parallel_service_checks plugins of scheduled checks      *)
(* execute at a time, however many on-demand checks come on top.  (Forced    *)
(* and freshness checks are excluded: they are to bypass the limit.)        *)
ParallelLimit ==
  MaxParallel # 0 =>
    Cardinality({i \in Ids : flight[i] # None /\ ~flight[i].done
                             /\ flight[i].result.resched}) <= MaxParallel

(* The orphan watchdog never gives up on a check whose plugin is running and *)
(* within its timeout.                                                       *)
NoFalseOrphan ==
  [][\A s \in Services :
       /\ svc[s].live /\ svc[s].executing
       /\ phase = "loop" /\ svc'[s].live /\ ~svc'[s].executing
       => \A i \in FlightsOf(s) :
            flight[i].done \/ flight[i].result.age >= PluginTimeout]_vars

(* Monitoring does not stop: every recurring service is checked again and   *)
(* again, whatever results are lost.                                        *)
CheckedForever ==
  \A s \in Services : []<>(\E i \in Ids : flight[i] # None
                                          /\ flight[i].result.svc = s)
=============================================================================
