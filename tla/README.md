# A TLA+ model of Centreon Engine

Centreon Engine is a monitoring scheduler. It runs plugins that check services
and hosts, at intervals and on demand, gives each object a state from the
results, and notifies contacts. This directory holds TLA+ modules translated
from its C++ source (`src/src`, headers in `src/inc`, the external commands
module in `src/modules/external_commands`), TLC configurations that check them on
small instances, and proofs for every instance.

## 1. The system

### Components, state, operations

| component | code | state | operations |
|---|---|---|---|
| event queue | `events/timed_event.cc`, `hash_timed_event.cc` | two linked lists with head and tail, an index by object | add, remove, reschedule, resort after a clock change |
| dispatching loop | `events/loop.cc` | last time read, the lists | pop and run the first due event, nudge a check that may not run, apply a reload, sleep |
| check scheduling | `checks.cc`, `configuration/applier/scheduler.cc` | `next_check`, `check_options`, `should_be_scheduled`, the event of each object | schedule, initial schedule, unschedule on reload |
| checker | `checks/checker.cc` | `_list_id`, `_to_reap_partial`, `_to_reap`, `is_executing`, `currently_running_service_checks` | run, finished (from a plugin thread), reap |
| watchdogs | `checks.cc` | `is_executing`, `is_being_freshened`, `last_check` | orphan and freshness checks, recurring events |
| service and host states | `checks.cc` | current and last state, state type, attempts, reachability | handle a result |
| acknowledgements | `objects/service.cc`, `objects/host.cc` | acknowledged flag and date | acknowledge, expire |
| downtimes | `objects/downtime.cc` | downtimes, depth per object, trigger links | schedule, start, end, cancel |
| notifications | `notifications.cc` | numbers, dates, contacts | viability, escalation, notify |
| flapping | `flapping.cc` | last 21 states, percentage | update, start, stop |
| comments | `objects/comment.cc` | comments, next id | add, delete, expire |
| commands | `commands/raw.cc`, `connector.cc` | commands in progress, connector process | run, answer, time out, restart |
| external commands | `modules/external_commands` | circular buffer shared with a reader thread | submit, process |
| retention | `retention/` | a file | save, restore |
| broker | `broker.cc`, `nebmods.cc` | callbacks by priority | call, cancel, override |
| configuration | `configuration/` | objects, a parsing thread | parse, diff, apply |
| time periods, macros, logging, status files | `timeperiod.cc`, `macros.cc`, ... | none that evolves | computations, output |

### Interactions

Everything but plugins, the command reader and the configuration parser runs in
one thread, the loop. An event of the loop launches a check
(`checker::run`). Another thread delivers the plugin's result
(`checker::finished`) under `_mut_reap`; the reaper, a recurring event, merges what arrived
with the base part kept in `_list_id` and handles results one by one. A handled
result changes states, schedules the next check, may start on-demand checks,
notifies, starts flapping. External commands and reloads act on the same fields between
two events.

### What is hard

The flags (`is_executing`, `is_being_freshened`, `should_be_scheduled`,
`check_options`), the count of running checks, the index and the lists each have
several writers, linked by conventions that no type enforces. An event lost
means a service that is silently no longer monitored. Results may be late,
lost or useless by the time they come. `PROJECT.json` lists the hazards with
their lines.

### What makes each component correct

- queue: one order, no event lost, none pointing at a deleted object;
- check cycle: a service to be scheduled always has an event or a result on its
  way; flags and counter agree with what is in flight; the limit of parallel
  checks holds; monitoring goes on whatever results are lost;
- states: a hard state after the configured number of attempts, no lost recovery;
- acknowledgements: expire, and once; comments: removed with what they describe;
- downtimes: depth equal to the number of downtimes in effect, triggered ones
  follow their trigger;
- notifications: no recovery without a problem notification, numbers in order;
- connectors: one answer per query; command buffer: no command lost unless full.

## 2. Modules

| module | models | uses |
|---|---|---|
| `EventQueue` | abstract: an ordered queue, first come first served among equals | |
| `EventList` | the linked lists, index and loop | implements `EventQueue`, twice |
| `EventListProofs` | chains, links, index; both lists implement `EventQueue` | `EventList` |
| `MC_EventList` | instance: three addresses, one service | `EventList` |
| `CheckCycle` | the life of active service checks | |
| `MC_CheckCycle` | instances: one or two services | `CheckCycle` |
| `CheckCycleProofs` | theorems on `CheckCycle` | `CheckCycle` |
| `ServiceState` | states and notifications of one service, given the results | |
| `MC_ServiceState` | instances: two problem states | `ServiceState` |
| `ServiceStateProofs` | theorems on `ServiceState` | `ServiceState` |
| `Escalation` | who is notified of a service's problems and recoveries, and when again | |
| `MC_Escalation` | instance: three contacts, eight sets of escalations | `Escalation` |
| `EscalationProofs` | theorems on `Escalation` | `Escalation` |
| `HostChecks` | checks of hosts that depend on each other, their states | |
| `MC_HostChecks` | instance: a server behind a router | `HostChecks` |
| `HostChecksProofs` | theorems on `HostChecks` | `HostChecks` |
| `CommandService` | abstract: accepted queries, answered once each | |
| `Connector` | a connector, its process and its three threads | implements `CommandService` |
| `MC_Connector` | instance: three queries, one of them synchronous | `Connector` |
| `ConnectorProofs` | theorems on `Connector` | `Connector` |
| `Downtime` | fixed, flexible and triggered downtimes of several objects | |
| `MC_Downtime` | instances: a host and its service, two downtimes | `Downtime` |
| `DowntimeProofs` | theorems on `Downtime` | `Downtime` |
| `BoundedQueue` | abstract: a queue of limited length | |
| `CommandFile` | the way of an external command, the circular buffer | implements `BoundedQueue` |
| `MC_CommandFile` | instance: two slots, five lines | `CommandFile` |
| `CommandFileProofs` | theorems on `CommandFile` | `CommandFile` |

### EventList

`list`, `next`, `prev`, `when`, `kind`, `data` are the pointers and fields of
`timed_event`; `freed` holds addresses without an object, so that an address is
reused after `delete`. The handlers are compositions of the queue operations
`AddEvent`, `RemoveEvent`, `PopHead`, `Resort`, each translated from the function of
that name. What a queue operation leaves behind (the stale tail of a list
emptied by the loop, the index entry erased by object) is kept.

Hosts follow the same code as services and are not repeated. Acknowledgement
expirations share the low priority list with the checks. `ReadClock` moves run
times when the clock jumps; the other dates the compensation moves are left out.
`ReloadScheduled` leaves out the branch of `configuration/applier/scheduler.cc:125-126`: a service
that a reload switches to passive checks, or to interval 0, only loses its queued events, the same
removal as in `ReloadDeleted`, and stays known without one.

### CheckCycle

One record per service keeps the fields the cycle reads and writes: `event`, its
check event, if one is queued (that there is at most one is `CheckIndexExact` of
`EventList`), `options`, `next`, `age` (of `last_check`), `executing`,
`freshening`, `should`, `enabled`, `live`. `flight` is `_list_id` with the state of
each plugin (running, or done and in `_to_reap_partial`); `toReap` is `_to_reap`;
`phase` says whether the main thread is in the loop, merging under the mutex, or
handling results; `asked` is the `check_servicelist` of the handler.

| action | code |
|---|---|
| `RunEvent`, `NotViable`, `Nudge` | one turn of the loop on a due check, `run_scheduled_service_check`, `checker::run` |
| `Finished`, `Lose` | `checker::finished`; a plugin whose result never comes |
| `BeginReap`, `Merge`, `Merged`, `HandleResult`, `EndReap` | `checker::reap`, `handle_async_service_check_result` |
| `CheckMaster`, `SkipMaster` | the end of that handler: predictive checks of the services in `asked` |
| `Orphans`, `Freshness` | the two watchdogs |
| `PassiveResult`, `ScheduleCommand`, `DisableChecks`, `EnableChecks`, `SwitchExecution` | external commands |
| `Reload`, `ReloadModified` | removal, addition and modification by a reload |
| `Tick` | a second passes |

Dates are distances from now, so the state space is finite without a horizon.
Whether a check is viable (period, dependencies, a broker module that cancels it) and whether a
result changes the state of the service are choices. `Features` names what a run
lets the environment do; every property says for which features it holds.

Left out: broker modules that override a check, which must then give its result themselves.
One that overrides it at PRECHECK leaves the service without an event
(`checks/checker.cc:583`), one at INITIATE leaves it counted and marked as executing
with nothing in flight (`checks/checker.cc:676`): with such a module that never answers,
`NeverForgotten`, `ExecutingHasCheck` and `CounterExact` do not hold. A result under an id that
`_list_id` does not have (`checks/checker.cc:126`) is dropped with a warning; here it never exists.

### ServiceState

One service and its host. `svc` has the fields that
`handle_async_service_check_result` and `service_notification` read and write;
`env` what they read and others write: the host, the notification period, the switch,
the contact. `Handle` is one result from start to end: `Counted` and `Changed` the
common part, `Recover` with `Reset` the OK branch, `Routed` and `Failed` the problem
branch; `NotifyNormal` is a problem or recovery notification with the side effects of
its viability test, `NotifyOther` what the other types change, `Flap` the flapping
check in the place where each branch makes it.

| action | code |
|---|---|
| `Handle` | `handle_async_service_check_result` after the scheduling part |
| `HostResult` | a host check that changes the state of the host |
| `Acknowledge`, `RemoveAcknowledgement`, `CustomNotification`, `SetNumber`, `ChangeMaxAttempts`, `SwitchNotifications`, `DisableFlapDetection` | external commands |
| `AcknowledgementExpires`, `StartDowntime`, `EndDowntime` | events of the loop |
| `ReloadAttempts` | a reload that modifies `max_check_attempts` |
| `Restart` | retention saved, engine stopped and started, retention applied |
| `PeriodCloses`, `DutyChanges`, `Tick` | time |

Four fields are history, and no action depends on them: `told` (contacts know of a
problem), `sent` (what the last step sent), `streak` (problem results in a row), `deferred`
(a closed notification period moved the date of the next notification to its next
opening, however recent the last one: the exception `RenotifySpacing` makes). Left
out: escalations and the filters of contacts (`Escalation` has them), dependencies,
downtimes of the host, event handlers, stalking, and the notification period a service takes
from its host when it has none of its own (one period is modelled, whoever has it). `Handle` takes the
state of the host from `env`; a check of the host on the way is a `HostResult` before.

### Escalation

The other half of `notifications.cc`. `rules` are the escalations that apply to the
service, `wants` the filters of contacts, both chosen at the start; `env` has the switch,
the escalation periods that are now, the contacts on duty. The service has one attempt, no
delays, and its host is up, so that every result is hard: what soft states, delays,
acknowledgements, downtimes and flapping do is in `ServiceState`.

| definition | code |
|---|---|
| `Matches`, `Escalating` | `is_valid_escalation_for_service_notification`, `should_service_notification_be_escalated` |
| `Listed`, `Accepts`, `Receivers` | `create_notification_list_from_service`, the filters of a contact, `notify_contact_of_service` |
| `Viable`, `Notified` | `check_service_notification_viability`, `service_notification` |
| `NextInterval` | `get_next_service_notification_time` |
| `Result` | `handle_async_service_check_result` |
| `Custom`, `SetNumber`, `Switch`, `DutyChanges` | external commands (the last one also a contact's period) |
| `PeriodTurns`, `Tick` | time |

`news` is history: `told` is who got the last problem notification, `fresh` says that since then
nobody's duty, no escalation period and no number was changed from outside.
Left out: broker modules that cancel a notification, the commands that notify (a
contact is notified whether they succeed or not), dependencies.

### HostChecks

`hosts` has the fields of each host that checks read and write: `again` is
`should_reschedule_current_check`, `event` its check event, `recent` says that
`last_check` is younger than the horizon of cached results and the freshness
threshold. `flights` is a bag, because a forced check does not wait for the one in
flight. `Process` is `process_host_check_result_3x`, one operator per branch: `TakeUp`,
`TakeStillDown`, `TakeDownAtOnce` (one attempt), `TakeDown`; `Finish` its common end.
Before it returns, it may run synchronous checks of the parents, one after another,
each of which is handled to its end, with checks of neighbours, before the next: `calls`
is the stack of the handlers that are not done.

| action | code |
|---|---|
| `RunEvent`, `RunDropped`, `RunFails` | `run_scheduled_host_check_3x`, `checker::run`: launched, dropped because one is in flight, refused |
| `OnDemand`, `OnDemandSync` | the check of the host that a service result asks for |
| `Result`, `Discard`, `Passive` | `handle_async_host_check_result_3x` |
| `AskParent`, `ParentAnswers`, `Conclude` | the loop over the parents of a host of one attempt |
| `Spread` | a turn of the loop that checks parents and children after a change |
| `Orphan`, `Freshness` | the two watchdogs |
| `ForceCheck`, `Disable`, `Enable` | external commands |

`alive` is the network: a plugin says that a host is up if it works and the host is
reachable through parents that work. History: `streak` counts problem results, `clean`
says that nothing disturbed that count. Left out: times (an event may run at any
moment), predictive checks of dependencies, overrides by modules, notifications,
flapping, reload and retention. A period or a dependency that forbids a check is a choice.
The two options about passive checks have their defaults: `passive_host_checks_are_soft` is off
(a passive problem is hard at once; `checks.cc:2826`, 2853, 2914, 3107), and so is
`translate_passive_host_checks` (a passive result stays DOWN or UNREACHABLE as it came;
`checks.cc:2943`, 3076, 3127). A command that cannot be executed gives a result that counts as
DOWN whatever the network (`checks/checker.cc:471`); here the answer always follows the network.

### Connector

`queries`, `results`, the four flags and the two threads' places (`pc`) are the fields of
`connector`; an action is a section under `_lock`, or a call of the process between two.
`proc`, `todo`, `asked` are the process and what is written to it and not answered.

| action | code |
|---|---|
| `RunAsync`, `RunSync`, `SendCurrent`, `Return` | the two `run` methods |
| `Start`, `Exec`, ... with a thread | `_connector_start`, by the main or the restart thread |
| `RecvVersion`, `RecvExecute`, `HandOver`, `RecvQuit`, `Finished` | `data_is_available`, `finished` in the reader thread |
| `GiveUp`, `Deliver`, `EndRestart` | `restart::_run` |
| `Reload`, `AskQuit`, `CheckQuit`, `Joined` | `set_command_line`, `_connector_close` |
| `Crash`, `Exit` | the process |

`Reload` is one step for three short ones of the code: waiting for the restart thread, setting
the command line and testing `_is_running` (`commands/connector.cc:262`, 406), with the lock released in
between. Only the reader thread can move there: it hands over an answer, which it may as
well do before, or finds the process ended, after which `_connector_close` returns at once,
as if `Reload` had not been possible. `Collect`, external, is the caller that takes an answer.

### Downtime

Functions of `downtime.cc` call each other while they walk the list; `work` is what is
still to be called, so that each action is one call. `Schedule`, `Cancel`, `CancelAll`
with `Sweep` are the users' commands, `HandleWait`, `HandleStart`, `HandleEnd`,
`HandleStopTriggered`, `HandleStopped` the branches of `handle_scheduled_downtime`,
`Unschedule` is `unschedule_downtime`, `Problem` the two `check_pending_flex` functions,
`RunDowntimeEvent` and `RunExpireEvent` the events, `Restart` the retention file written
and read. `is_in_effect` is cleared at the end of `HandleEnd`, a little earlier than in
the code, which reads it no more. For a host `Problem` is the step from UP; the code makes the same call
again when a problem turns hard or from DOWN to UNREACHABLE, which is left out.

### CommandFile

`fifo` and `stream` are the pipe and what `fgets` has buffered of it; `ring`, `head`,
`tail`, `items` the circular buffer. The worker's actions are `Poll`, `Count`, `GetLine`,
`NoLine`, `Execute` (a passive result, executed by the worker at once) and `Submit`; the
main thread's `CheckCommands`, `Take`, `NoItem`, `Process`, `StartReaping`, `Reap`,
`NoResult`. `Refused` lines are passive results for a host or service that is not
configured or takes none: the worker executes them, and no result is queued.
Passive results may overtake commands; that is not an error here. The
worker submits only what it counted free slots for, so its loop that waits for a free
slot is never entered, and is left out. Commands queued at shutdown are lost, which is
not modelled.

## 3. Runs

| run | result | question |
|---|---|---|
| `event_list` | pass | are lists and index consistent, and queues? |
| `check_cycle` | pass | does an executing service have a check on its way? |
| `check_cycle_scheduled` | pass | with predictive checks and failing launches, is the counter exact, is no service forgotten, does the limit hold? |
| `check_cycle_lost` | pass | do the watchdogs repair lost results, and only those? is every service checked for ever? |
| `service_state` | pass | with everything at once, does a confirmed problem stay hard, and is an unchanged one not notified too early? |
| `service_recovery` | pass | is every problem notified only when confirmed, and then notified, and its recovery? |
| `escalation` | pass | does a recovery go exactly to those who got the last problem notification, does a lasting problem climb to every level? |
| `host_checks` | pass | with any two disturbances, is no host's check lost, is no problem hard too early, and do states settle on what the network deserves? |
| `connector` | pass | is every accepted query sent to each process that starts, answered once, and answered at last, through crashes and reloads? |
| `downtime` | pass | is the depth of downtimes exact, does the count of pending ones miss none, do fixed downtimes end and flexible ones start or go? |
| `downtime_hang` | violation | does the end of a downtime return, with flexible downtimes triggered by a flexible one? |
| `command_file` | pass | is the circular buffer a bounded queue under its two threads, are commands executed in order, and all that were read? |

### Divergences met while modelling

`downtime_hang` shows a disagreement between the code and its own words. Others were found with
the same models (a feature or an option switched on, or the doc's claim checked in the place of the
code's) and are recorded here and under "hazards":

- a reload that modifies a service with a sticky acknowledgement queues a second
  expiration event, and a later removal of the service leaves one behind
  (`configuration/applier/scheduler.cc:1177`);
- a reload with a check in flight drops its result and leaves the count of running
  checks one too high for good (`checks/checker.cc:176`); at the limit of parallel checks
  monitoring then stops, and also without a leak a service without interval can starve;
- a freshness check whose result is discarded is not rescheduled: its service is no longer
  marked as executing (`checks.cc:281`) but in no queue until the freshness watchdog finds it
  stale again (`checks.cc:289`); a host stays marked, for the orphan watchdog (`checks.cc:2556`);
- `recovery_been_sent` is saved and restored under (description, host name)
  (`retention/dump.cc:446`, `retention/applier/service.cc:327`) but kept under (host name,
  description): a recovery that waits for its delay when the engine restarts is never sent;
- an escalation without `escalation_options` is "considered to be valid during all service states"
  in the manual (`object_definitions.rst:1316`); the code gives it no option
  (`configuration/serviceescalation.cc:51`), so it is used for broadcasts only;
- the contacts of a recovery are found again from the states an escalation and a contact are for:
  with an escalation for critical states and recoveries, or a contact who wants no
  warnings, the recovery may go to somebody who was told of nothing (`notifications.cc:1129`,
  `notifications.cc:855`); `RecoveryToTold` supposes `Uniform`;
- a flapping notification that goes out at the recovery marks the recovery as sent
  (`notifications.cc:365`);
- a reload that changes the command line of a running connector sets `_try_to_restart` to false
  (`commands/connector.cc:422`) and nothing sets it again: once the process has quit, the
  connector refuses every query for good (`commands/connector.cc:146`, 216); a start that fails
  does the same (479, 835). `Answered` therefore asks for nothing once `restart` is
  false; a synchronous run whose answer never comes waits for ever;
  a query sent while the process starts may be sent twice, and its second answer is ignored;
- a flexible downtime that a start event, not a problem, started never ends if its object
  has recovered by its end (`objects/downtime.cc:498`), though the manual says it lasts
  "even if the host or service recovers"; `unschedule_downtime` does not find its event, whose
  downtime may then be handled by the id alone; the walk that cancels the
  downtimes of a host may read a freed entry;
- lines that the worker has buffered while the circular buffer was full stay there until another
  line arrives, though all commands present are to be processed at each check
  (`modules/external_commands/src/utils.cc:360`);
- a host whose parent has no check command takes the answer of the parent asked before
  it, or UP (`checks.cc:3037`); a problem result of a host that is handled with its attempts at 1
  while it is down in a soft state makes it hard at once.

### Bounds

`Ids` bounds plugins running at once, `MaxPending` results on their way,
`MaxCounter` the counted checks, `MaxDelay` how far a check is scheduled,
`MaxLate` how late the loop is. Two ids, two results and a limit of one parallel
check are enough for every pair of checks that can interact: a check in flight
while another is handled, launched or refused. Delays of 0, 1 and 2 seconds give equal
dates, order and reversal. The dates in the past reach one second beyond the longest
threshold compared with, where they saturate. In `event_list`, three events
exercise insertion at the head, in the middle and at the tail, and removal of
each; the clock takes three values, enough to jump either way by the threshold.
In `check_cycle_scheduled` each service depends on the other one, so that
`asked` holds one service at most; the theorems hold for any `Masters`.

In `ServiceState`, dates are distances that saturate at the interval or delay they
are compared with. An interval of 0 (notify once) and of 2 (notify again, after a moment that is too early), delays of
0 and 1, a period closed for 1 second and one downtime give each test of the code both
outcomes. `MaxNumber` is enough at 1: the code only tests the number for 0. With two and
three attempts, changed on the way, a problem is soft at first, at its last retry and
hard; two problem states let it change without becoming OK. `service_recovery` leaves out
what breaks `RecoveryOwed` by itself: custom notifications, a number set by a
user, a contact off duty at the wrong time, a restart, and flapping with the option to
notify it; the hazards in `PROJECT.json` say how.

In `Escalation` three escalations (numbers 1 to 2, 2 and on, 2 only and for critical states, the
last one with interval 0) in all eight combinations, with contacts who want everything, no
recoveries or no warnings, give overlaps, levels that end, an escalation that does not
match and contacts that filter. `MaxNumber` is two more than any bound of an escalation, so that no rule
tells the saturated number from a larger one (part of `EscalationAssumption`). Two changes from
outside fall between any two notifications.

In `HostChecks` any two of the failures, repairs, lost, late, passive, forced, freshness
and on-demand checks and switches can follow each other at any two moments: a
failure and its repair, or one disturbance in the course of another. Age, scheduled checks,
watchdogs for lost results and choices of viability are not bounded. The server has one
attempt and the router two, so that both ways to take a problem occur, nested.

In `Connector` two asynchronous queries and a synchronous one meet, with one crash; ids are
reused. In `Downtime` a host and a service share two downtimes in a window of which
the clock reaches both ends and one second beyond; `pending` saturates at 3, more than two
downtimes can add without a restart. In `CommandFile` two slots wrap around with five
lines: three commands, a passive result that is accepted and one that is refused. How several
accepted results follow each other is left to the theorem `OrderKept`, which holds for
every `Safe` and `Refused`: a sixth line makes the instance too large.

Proofs found what these bounds hid. An interval of 1 second cannot tell "too early" from "at
once": with 2, `RenotifySpacing` failed when a period closed in between, which is now its
exception. With two disturbances no run reached a soft problem whose attempts somebody
lowers while a second check is in flight: the proof of `RetriesQueued` did, and `clean` (the
premise) now ends there. The cases that a result of a host falls under overlapped in `Process`,
where the code takes the first; they are nested conditions now. `NoCycles` (a host is not its own
ancestor, which the engine verifies before it starts, `config.cc:459`) and `MaxPending >= MaxId`
had been used without being stated.

`service_state` explores states without the history that its properties do not read (`VIEW`): no
action reads it either. The two problem states are symmetric: the options make no difference
between them.

### Fairness

`FairSpec` of `CheckCycle` (run `check_cycle_lost`): the loop comes back
to a due event again and again, strongly fair because the reaper interrupts it at
least a second apart; the reaper and the orphan watchdog are recurring events;
a plugin ends or is killed at its timeout, and its thread gets the mutex, which the
reaper releases; the clock advances. Nothing says that a result arrives: `Lose` may
happen instead.

`FairSpec` of `ServiceState` (run `service_recovery`): time passes, and a service
that stays in a state is found in it again, which is what `CheckedForever` of
`CheckCycle` gives. `RecoveryComes` and `ProblemComes` suppose that from some point on
nothing suppresses notifications; nothing is supposed of what happened before.

`FairSpec` of `Escalation` is the same. `LevelsReached` supposes that each level has
somebody on duty who wants the present state, and no interval of 0: without the first, the number
that a failed notification gives back keeps the problem at its level.

`FairSpec` of `HostChecks`: handlers end; a plugin ends or is killed at its timeout; the
reaper comes back to a result, the loop to a queued event, both strongly fair because
handlers run in between; the orphan watchdog recurs. `Lose` may happen instead of an
answer, `RunFails` instead of a launch, as long as not for ever. `Settled` needs no more
premise: `MaxDisturbances` makes the network stay as it is at last.

`FairSpec` of `Connector`: threads go on (weakly fair), executing a process succeeds at
last, the process answers at last and the engine goes on asking (strongly fair). `Answered`
supposes that fresh queries keep coming, because a restart is only started by one.

`FairSpec` of `Downtime`: calls go on, the clock advances to its horizon and due events
run, the latter two strongly fair because users and results come in between.
`FairSpec` of `CommandFile`: both threads go on, and the events that check for commands and
reap results recur.

## 4. Proofs

Eight modules hold the theorems listed in `PROJECT.json`. All are for every value of the
constants that satisfies the module's named assumptions; a theorem that holds only without
some features of the environment names them in its `ASSUME`, and the run of its property
switches the same ones off. Each has an inductive invariant, `IInv` or the property with the named
parts given here, that was checked on the runs' instances before it was proved.

`CheckCycleProofs`, from `CheckCycleAssumption` and `NoneAssumption`:

- `TypeCorrect`: `Spec => []TypeOK`, inductive as it stands. The lemmas on
  `Schedule`, `Launch`, `Rescheduled` and `Cleared` say what these functions return
  whoever calls them.
- `ExecutingChecked`: if no result is lost, `Spec => []ExecutingHasCheck`. Inductive
  together with `TypeOK`, whose type of `flight` says that what is in flight is an
  active check: a merged result, an active one, still clears the flag of its service.
  Steps that neither start nor end a check only have to be shown not to set the
  flag (`QuietStep`); launches put a check behind the flag (`LaunchBacks`), from the
  loop or for a service in `asked`; the queue keeps everything but
  the result handled (`AppendQueue`, `TailQueue`).
- `CounterAlwaysExact`: `[]CounterExact`, without lost results, the orphan watchdog and reloads
  (each makes the counter wrong by itself; the divergences say how). `CountStep` says that
  a step changes the counter and `Outstanding` (ids in use and active results in the
  queue) by the same amount; `AllLive` that no service was removed with its check under way.
- `ParallelLimitKept`: `[]ParallelLimit`, without what launches a check past the limit (forced and
  freshness checks) and orphans. The counter never misses a check (`CounterCovers`, which
  unlike `CounterExact` survives a lost result or a reload), and no event in the queue is forced (`AllRequested`).
- `NeverForgottenHolds`: `[]NeverForgotten`, without lost results and freshness checks. `Watched`
  says that a service to be checked that has no event has a check on its way whose result asks
  for the next one (`ResultsAsked`); `ServicesStep` gives every step one of a few shapes.
- `RunningChecksKept`: `NoFalseOrphan`, if every service is checked at intervals, checks are
  not switched off, there are no predictive checks and the watchdog's margin covers timeout and
  lateness (`Tolerant`): then the next check is never more overdue than its last one is old (`Tracked`).

`EventListProofs`, from `EventListAssumption` (addresses are finitely many, times are natural numbers):

- One invariant, `IInv`, gives all five. It says that there is a sequence of events for each list (a
  chain) that the links spell in both directions (`Linked`), that the chains are sorted and
  apart, that the index holds events of the low chain only, and every check of it (`IndexOK`), and
  that the event being run is in no chain. The sequence is a witness of the proof: the
  code has only pointers. `Walk`, with which the properties read a list, returns the chain (`LinkedWalks`).
- Each queue operation is described once, by what it does to one chain: `AddEventFacts` (the five cases of
  `add_event` all put the event behind those due no later), `RemoveEventFacts`, `PopHeadFacts` (the
  stale tail of an emptied list is never read) and `ResortFacts` (by induction on the events
  added again; ties keep their order). `AddOK`, `RemovedOK`, `ScheduleOK`, `DropOK` and `ResortOK`
  lift them to both lists and the index, and handlers compose them (`EvolvesChain`).
- `TypeCorrect`, `ListsWellLinked` and `CheckIndexAlwaysExact` hold for every value of `Reack`. A check is
  `Sole` whatever happens, since the one queued before is dropped with the entry that finds it. An
  expiration is so only without repeated acknowledgements, hence the condition of `NoEventOfGone`: `_unschedule_service_events`
  finds through the index what it drops.
- `QueuesImplemented`: `Spec => QueuesSpec`. `Keeps` is what `EventQueue` asks of an update, and
  composes (`KeepsChain`); `EveryStep` shows every action to be an update, a run or a retiming of
  each list, `HighStep` and `LowStep` map these to the steps of the two instances.

`ServiceStateProofs`, from `ServiceStateAssumption`:

- `TypeCorrect`: one lemma per function of a service, one step per action.
- `ConfirmedProblemsStayHard`: `Spec => ConfirmedStaysHard`. A problem result leaves a
  firm service (hard, attempts at the maximum) firm (`FirmTaken`, `FirmFailed`), an
  OK result leaves it OK (`RecoverCurrent`), nothing else touches state and type
  (`OtherActions`).
- `RecoveryKept`: with `Undisturbed`, `Spec => []RecoveryOwed`. The invariant is not
  inductive: when contacts know of a problem and no recovery is pending, the next OK
  result must be a hard recovery, or the number is reset at once. `Sure` adds that
  the problem is then firm, with a last hard state that is not OK. `NormalOwed`,
  `FlapOwed`, `ResetOwed`, `RecoverOwed` and `FailedOwed` follow the calls of the code.
- `EarnedProblems`: `[]EarnedProblem`, if nobody changes the attempts and the engine does not
  restart (retention raises the attempts of a hard problem). `Earned` says that the attempts of a problem never exceed its streak of problem
  results, once the streak has not reached the maximum.
- `NoUntoldRecoveries`: `[]NoUntoldRecovery`, if the service does not flap. `Informed` says that a
  notification number above 0, or a recovery not marked as sent, means that contacts know.
- `RenotificationsSpaced`: `RenotifySpacing`, with every feature. `SpacedInv` relates the date
  of the next notification to that of the last one through acknowledgements, downtimes and restarts.

`EscalationProofs`, from `EscalationAssumption`, for any contacts, escalations and filters:

- `TypeCorrect`: the only step that is not bookkeeping is that the shortest interval exists
  (`LeastNat`, from the well-foundedness of the naturals).
- `RecoveryReachesTold`: `Spec => RecoveryToTold`. The invariant `Matched` says that while `fresh`,
  the number kept is the one under which `told` were notified: those are the contacts on duty that
  it leads to (`Reached`). `ProblemKept` and `RecoveryKept` show it for results, where attempts that
  reach nobody give the number back; `ProblemReceivers` and `RecoveryReceivers` turn the
  filters and the recovery's number into `Reached`; `Saturated` is the case of the largest number.

`HostChecksProofs`, from `HostChecksAssumption` and `NoCycles`, for any network, attempts and number of
disturbances: `TypeCorrect`, `NoCheckDropped` (`[]NeverDropped`), `RetriesStayQueued` (`[]RetriesQueued`)
and `HardProblemsEarned` (`[]HardEarned`), all from one `IInv`. None is inductive, because a result that
asks for a synchronous check of a parent leaves its host half handled. `IInv` describes the stack: the
handlers under the innermost one each wait for the check of a parent and are about a
descendant of the next one's host, so that, without cycles, what runs meanwhile never touches them.
For each host, `Good` ties together event, flights, flags, attempts and streak, with the exceptions
that a handler that waits (`Parked`) makes. `OneHost` reduces a step to the host it changes.

`ConnectorProofs`, from `ConnectorAssumption`:

- `TypeCorrect`, and `ServiceKept`: `Spec => ServiceSpec`, the refinement of `CommandService`
  for any set of ids and any number of crashes. The invariant adds to the types that
  `queries`, `results`, `failed` and `hand` have no id in common (`Apart`: a query is at
  one place, else its answer would be given twice), that the query the main thread is
  about to send is not pending yet (`Unsent`), and that only the restart thread that gives up
  holds queries in `failed` (`Holding`).
- `NoQueryForgotten`: `[]EveryQuerySent`. `AllWritten` says it of every moment after a thread
  that starts the process has written the queries it found, while the other thread may
  still be at it.

`DowntimeProofs`, from `DowntimeAssumption`:

- `DepthAlwaysExact`: `Spec => []DepthExact`. With the types, the invariant says that only ids
  given out are in effect (`GivenOnly`): scheduling an id then changes the set of
  none. `HandleStart`, `HandleEnd` and `Unschedule` change the set by one element; the lemmas on
  cardinality do the rest; every other step touches neither (`OtherSteps`).
- `TypeCorrect` and `WaitingCounted` (`[]PendingCovers`). `pending` is lowered by the handling of a
  flexible downtime that has waited, and a downtime handled twice would lower it twice. `IInv` therefore
  speaks of the calls still to be made: each handle and stop in `work` is for a downtime of its own
  (`Handling`, `Cancelling`), triggers are followed away from the downtime they start with, and
  `pending` is at least the number of downtimes that wait (`Covers`).

`CommandFileProofs`, from `CommandFileAssumption`:

- `TypeCorrect`, and `OrderKept`: `[]InOrder`. The stages of a command (done, taken, buffered, read,
  in the stream, in the pipe) put behind each other give what was sent; a step moves
  an element from the head of one to the tail of the next. What a sequence keeps of a set of commands
  (`Of`) distributes over concatenation.
- `BufferIsQueue`: `Spec => QueueSpec`, the refinement of `BoundedQueue` for any number of slots.
  The invariant says that `head` is `items` slots after `tail`; arithmetic modulo
  `Slots` gives that `Submit` and `Take` do not touch the slots between.

The library's induction theorems take an operator as a parameter, which the installed provers cannot
instantiate. The modules about lists (`Downtime`, `CommandFile`, `EventList`) therefore define what the code
computes in its loops as recursive functions, and prove induction for a set of
numbers from the well-foundedness of the naturals (`Induction`), that a recursion has a solution
(`Recursion`), and from these what each function returns for lists of any length.

Only model-checked: liveness and `ENABLED`, which are out of reach of the prover. Every invariant and
every step property or refinement of a passing run has its theorem, under the conditions the theorem names.

## 5. Plan

Done: queue, check cycle, service states, escalations, host checks, connector, downtimes,
external commands; proofs of their safety properties. Left, in this order:

1. `AckExpiry`: acknowledgement and expiration, with late events.
2. `Dependencies`: notification and execution dependencies, with their periods.
3. `Flapping`, `Comments`: history, thresholds, comments they own.
4. `NebCallbacks`, `Retention`, `ConfigReload`, `Timeperiod`.

## 6. Not modelled

Commands other than connectors (`raw.cc`, one process per check) appear as flights in `CheckCycle`
and `HostChecks`. Event handlers return nothing that the engine uses. Hosts have the
notifications of services and are not repeated. Not to be modelled: configuration parsing, macros, logging, status and performance
output, which keep no state over time.
