---------------------------- MODULE HostChecks ----------------------------
(***************************************************************************)
(* Checks of hosts (checks.cc, checks/checker.cc): scheduled checks,       *)
(* checks on demand that run beside them, synchronous checks of parents,   *)
(* the states that results give to hosts, and the checks of neighbours     *)
(* that a change of state sets off.                                        *)
(*                                                                         *)
(* The main thread runs one handler at a time; a handler that waits for    *)
(* synchronous checks, or has still checks of neighbours to launch, is a   *)
(* frame of the stack calls, the innermost first.  Plugins and the network *)
(* go on meanwhile.  Times are left out: an event is queued or not, and    *)
(* may run at any time; recent says that the last check is younger than    *)
(* the horizons it is compared with.                                       *)
(***************************************************************************)
EXTENDS Naturals, FiniteSets, BagsExt, SequencesExt

CONSTANTS
  Hosts,
  Parents,         \* [Hosts -> Seq(Hosts)]
  Attempts,        \* [Hosts -> max_check_attempts]
  OnDemandOnly,    \* the sets of hosts that may be without check interval
  NoCommand,       \* hosts without check command
  MaxDisturbances, \* bound: failures, repairs, lost and passive results, ...
  Features,        \* what users and plugins do in a run
  None

AllFeatures == {"ondemand", "aggressive", "forced", "freshness", "lost",
                "late", "passive", "switch", "unviable"}

ASSUME HostChecksAssumption ==
  /\ IsFiniteSet(Hosts) /\ Parents \in [Hosts -> Seq(Hosts)]
  /\ Attempts \in [Hosts -> Nat \ {0}]
  /\ OnDemandOnly \subseteq SUBSET Hosts /\ NoCommand \subseteq Hosts
  /\ MaxDisturbances \in Nat /\ Features \subseteq AllFeatures

\* pre_flight_circular_check lets no host be its own ancestor
ASSUME NoCycles ==
  \E rank \in [Hosts -> 0 .. Cardinality(Hosts)] :
    \A h \in Hosts : \A p \in ToSet(Parents[h]) : rank[p] < rank[h]

VARIABLES
  hosts,         \* the fields of each host
  flights,       \* bag of the checks in flight or waiting for the reaper
  calls,         \* handlers of the main thread that are not done
  alive,         \* the network: whether each host itself works
  streak,        \* history: results that were a problem since the last that was not
  clean,         \* history: since then enabled, and no overlap, loss, passive result
  disturbances

vars == <<hosts, flights, calls, alive, streak, clean, disturbances>>
network == <<alive, disturbances>>
history == <<streak, clean>>

States == {"UP", "DOWN", "UNREACHABLE"}
Events == {"none", "normal", "forced", "fresh"}
On(f) == f \in Features
ParentsOf(h) == ToSet(Parents[h])
ChildrenOf(h) == {c \in Hosts : h \in ParentsOf(c)}

\* a plugin reaches a host that works behind a parent it reaches
Responds[h \in Hosts] ==
  alive[h] /\ (Parents[h] = <<>> \/ \E p \in ParentsOf(h) : Responds[p])

Init ==
  /\ \E S \in OnDemandOnly : hosts = [h \in Hosts |->
       [state |-> "UP", type |-> "HARD", attempt |-> 1, regular |-> h \notin S,
        event |-> IF h \in S THEN "none" ELSE "normal", should |-> h \notin S,
        enabled |-> TRUE, executing |-> FALSE, again |-> FALSE,
        freshening |-> FALSE, recent |-> FALSE]]
  /\ flights = EmptyBag /\ calls = <<>>
  /\ alive = [h \in Hosts |-> TRUE] /\ disturbances = 0
  /\ streak = [h \in Hosts |-> 0] /\ clean = [h \in Hosts |-> TRUE]

Of(bag, h) == {f \in BagToSet(bag) : f.host = h}
InFlight(h) == Of(flights, h)
Disturb == /\ disturbances < MaxDisturbances
           /\ disturbances' = disturbances + 1
Idle == calls = <<>>

-----------------------------------------------------------------------------
(* Scheduling and launching.                                                *)

\* a forced event takes the place of one that is not, the earlier of two
\* forced ones stays; of two others either date is as good here
Scheduled(v, kind) ==
  CASE kind = "normal" /\ ~v.enabled -> {v}
    [] kind = "normal" /\ v.enabled ->
         {[v EXCEPT !.event = IF @ = "none" THEN kind ELSE @]}
    [] OTHER -> {[v EXCEPT !.event = e] :
                   e \in IF v.event \in {"forced", "fresh"} THEN {v.event, kind}
                                                           ELSE {kind}}

Mutant_Adjusted(h, v) ==
  [v EXCEPT !.attempt = IF v.type = "HARD" \/ v.state = "UP" THEN 1
                        ELSE IF @ <= Attempts[h] THEN @ + 1
                        ELSE @]
Adjusted(h, v) ==
  [v EXCEPT !.attempt = IF v.type = "HARD" \/ v.state = "UP" THEN 1
                        ELSE IF @ < Attempts[h] THEN @ + 1
                        ELSE @]

Viable(v) == v.enabled
MayBeUnviable(v) == ~v.enabled \/ On("unviable")

\* checker::run from the attempts on, for a host whose fields are v
Launch(h, v, fresh, reschedule) ==
  /\ flights' = BagAdd(flights, [host |-> h, fresh |-> fresh,
                                 reschedule |-> reschedule, answer |-> None])
  /\ hosts' = [hosts EXCEPT ![h] = [Adjusted(h, v) EXCEPT !.executing = TRUE]]
  /\ clean' = [clean EXCEPT ![h] = @ /\ InFlight(h) = {}]
  /\ UNCHANGED streak

Mutant_RunDropped(h) ==
  /\ Idle /\ hosts[h].event = "normal" /\ hosts[h].executing
  /\ Viable(hosts[h]) /\ h \notin NoCommand
  /\ hosts' = [hosts EXCEPT ![h].event = "none"]
  /\ UNCHANGED <<flights, calls, history, network>>
\* a scheduled check of a host that is being checked: the check in flight
\* will schedule the next one
RunDropped(h) ==
  /\ Idle /\ hosts[h].event = "normal" /\ hosts[h].executing
  /\ Viable(hosts[h]) /\ h \notin NoCommand
  /\ hosts' = [hosts EXCEPT ![h].event = "none", ![h].again = TRUE]
  /\ UNCHANGED <<flights, calls, history, network>>

RunEvent(h) ==
  LET v == hosts[h] IN
  /\ Idle /\ v.event # "none" /\ h \notin NoCommand
  /\ v.event = "normal" => ~v.executing /\ Viable(v)
  /\ Launch(h, [v EXCEPT !.event = "none", !.again = TRUE], v.event = "fresh", TRUE)
  /\ UNCHANGED <<calls, network>>

\* no command, or no check allowed now: the event is queued again
RunFails(h) ==
  LET v == [hosts[h] EXCEPT !.event = "none"] IN
  /\ Idle /\ hosts[h].event # "none"
  /\ h \in NoCommand \/ (hosts[h].event = "normal" /\ MayBeUnviable(v))
  /\ \E w \in IF v.should THEN Scheduled(v, hosts[h].event) ELSE {v} :
       hosts' = [hosts EXCEPT ![h] = w]
  /\ UNCHANGED <<flights, calls, history, network>>

\* handling a result of a service asks for a check of its host
OnDemand(h) ==
  /\ On("ondemand") /\ Idle /\ Disturb /\ h \notin NoCommand
  /\ Viable(hosts[h]) /\ ~hosts[h].executing
  /\ Launch(h, hosts[h], FALSE, FALSE)
  /\ UNCHANGED <<calls, alive>>

-----------------------------------------------------------------------------
(* Results.                                                                 *)

\* determine_host_reachability
Reach(h) == IF Parents[h] = <<>> \/ \E p \in ParentsOf(h) : hosts[p].state = "UP"
            THEN "DOWN" ELSE "UNREACHABLE"

Mutant_Resumed(v, reschedule) ==
  IF reschedule /\ v.regular THEN Scheduled(v, "normal") ELSE {v}
\* the next check of a host whose result is handled
Resumed(v, reschedule) ==
  LET should == v.enabled /\ (v.regular \/ (v.type = "SOFT" /\ v.state # "UP"))
      w == [v EXCEPT !.should = should]
  IN CASE ~reschedule -> {v}
       [] reschedule /\ should -> Scheduled(w, "normal")
       [] OTHER -> {w}

\* the end of process_host_check_result_3x: then neighbours are checked
Finish(h, v, reschedule, neighbours, rest) ==
  /\ \E w \in Resumed(v, reschedule) : hosts' = [hosts EXCEPT ![h] = w]
  /\ calls' = IF neighbours = {} THEN rest
              ELSE <<[at |-> "spread", host |-> h, parents |-> <<>>,
                      verdict |-> "UP", spread |-> neighbours]>> \o rest

NotUp(S) == {g \in S : hosts[g].state # "UP"}
Up(S) == {g \in S : hosts[g].state = "UP"}
Reachable(S) == {g \in S : hosts[g].state # "UNREACHABLE"}

TakeUp(h, v, active, reschedule, rest) ==
  LET back == v.state # "UP"
      hard == ~back \/ v.type = "HARD" \/ ~active
  IN Finish(h, [v EXCEPT !.state = "UP", !.type = IF hard THEN "HARD" ELSE "SOFT",
                         !.attempt = IF back THEN 1 ELSE @],
            reschedule \/ back,
            IF back THEN NotUp(ParentsOf(h) \cup ChildrenOf(h)) ELSE {}, rest)

Mutant_TakeStillDown(h, v, new, active, reschedule, rest) ==
  LET state == IF active THEN v.state ELSE new
      hard == ~active \/ v.attempt \in {1, Attempts[h]}
      w == [v EXCEPT !.state = state, !.type = IF hard THEN "HARD" ELSE "SOFT",
                     !.attempt = IF active THEN @ ELSE 1]
  IN Finish(h, w, reschedule \/ v.type = "SOFT" \/ state # v.state, {}, rest)
TakeStillDown(h, v, new, active, reschedule, rest) ==
  LET state == IF active THEN Reach(h) ELSE new
      hard == ~active \/ v.attempt \in {1, Attempts[h]}
      w == [v EXCEPT !.state = state, !.type = IF hard THEN "HARD" ELSE "SOFT",
                     !.attempt = IF active THEN @ ELSE 1]
  IN Finish(h, w, reschedule \/ v.type = "SOFT" \/ state # v.state, {}, rest)

\* one attempt is all there is: the parents have to be checked at once
TakeDownAtOnce(h, v, new, active, rest) ==
  LET w == [v EXCEPT !.type = "HARD"] IN
  IF active
  THEN /\ hosts' = [hosts EXCEPT ![h] = w]
       /\ calls' = <<[at |-> "parents", host |-> h, parents |-> Parents[h],
                      verdict |-> "UP", spread |-> {}]>> \o rest
  ELSE Finish(h, [w EXCEPT !.state = new], TRUE, Reachable(ChildrenOf(h)), rest)

Mutant_TakeDown(h, v, new, active, rest) ==
  LET w == [v EXCEPT !.state = IF active THEN Reach(h) ELSE new, !.type = "HARD",
                     !.attempt = IF active THEN @ ELSE 1]
  IN Finish(h, w, TRUE, Up(ParentsOf(h)) \cup Reachable(ChildrenOf(h)), rest)
TakeDown(h, v, new, active, rest) ==
  LET w == [v EXCEPT !.state = IF active THEN Reach(h) ELSE new,
                     !.type = IF active THEN "SOFT" ELSE "HARD",
                     !.attempt = IF active THEN @ ELSE 1]
  IN Finish(h, w, TRUE, Up(ParentsOf(h)) \cup Reachable(ChildrenOf(h)), rest)

\* process_host_check_result_3x for a host whose fields are v
Process(h, v, new, active, reschedule, rest) ==
  /\ \/ new = "UP" /\ TakeUp(h, v, active, reschedule, rest)
     \/ /\ new # "UP" /\ v.state # "UP"
        /\ TakeStillDown(h, v, new, active, reschedule, rest)
     \/ /\ new # "UP" /\ v.state = "UP" /\ Attempts[h] = 1
        /\ TakeDownAtOnce(h, v, new, active, rest)
     \/ /\ new # "UP" /\ v.state = "UP" /\ Attempts[h] > 1
        /\ TakeDown(h, v, new, active, rest)
  /\ streak' = [streak EXCEPT ![h] =
       IF new = "UP" THEN 0 ELSE IF @ < Attempts[h] THEN @ + 1 ELSE @]

Result(f) ==
  LET h == f.host
      v == [hosts[h] EXCEPT !.freshening = @ /\ ~f.fresh, !.executing = FALSE,
                            !.again = FALSE, !.recent = TRUE]
  IN /\ Idle /\ f.answer # None /\ ~(f.fresh /\ hosts[h].recent)
     /\ flights' = BagRemove(flights, f)
     /\ Process(h, v, f.answer, TRUE, f.reschedule \/ hosts[h].again, <<>>)
     /\ clean' = [clean EXCEPT ![h] =
          IF f.answer = "UP" THEN v.enabled /\ Of(flights', h) = {} ELSE @]
     /\ UNCHANGED network

\* a freshness check of a host that is fresh again: the host stays marked as
\* executing until the orphan watchdog finds it
Discard(f) ==
  /\ Idle /\ f.answer # None /\ f.fresh /\ hosts[f.host].recent
  /\ flights' = BagRemove(flights, f)
  /\ hosts' = [hosts EXCEPT ![f.host].freshening = FALSE]
  /\ clean' = [clean EXCEPT ![f.host] = FALSE]
  /\ UNCHANGED <<calls, streak, network>>

Passive(h, new) ==
  LET v == [hosts[h] EXCEPT !.again = FALSE, !.recent = TRUE] IN
  /\ On("passive") /\ Idle /\ Disturb
  /\ Process(h, v, new, FALSE, hosts[h].again, <<>>)
  /\ clean' = [clean EXCEPT ![h] = new = "UP" /\ v.enabled /\ InFlight(h) = {}]
  /\ UNCHANGED <<flights, alive>>

-----------------------------------------------------------------------------
(* Handlers that go on: parents checked one by one, then neighbours.        *)

\* run_sync of h, whose result is handled before rest goes on
Sync(h, rest) ==
  LET v == [Adjusted(h, hosts[h]) EXCEPT !.freshening = FALSE, !.recent = TRUE]
  IN /\ Viable(hosts[h]) /\ ~hosts[h].recent /\ h \notin NoCommand
     /\ Process(h, v, IF Responds[h] THEN "UP" ELSE "DOWN", TRUE, FALSE, rest)
     /\ clean' = [clean EXCEPT ![h] =
          InFlight(h) = {} /\ (@ \/ Responds[h])]
     /\ UNCHANGED flights

\* aggressive host checking: a result of a service waits for its host
OnDemandSync(h) ==
  On("aggressive") /\ Idle /\ Disturb /\ Sync(h, <<>>) /\ UNCHANGED alive

Top == Head(calls)

\* run_sync_host_check_3x leaves the verdict alone if the parent has no command
Judged(f, verdict) ==
  [f EXCEPT !.at = "parents", !.verdict = verdict,
            !.parents = IF verdict = "UP" THEN <<>> ELSE Tail(@)]

AskParent ==
  /\ calls # <<>> /\ Top.at = "parents" /\ Top.parents # <<>>
  /\ LET p == Head(Top.parents) IN
     \/ Sync(p, <<[Top EXCEPT !.at = "asked"]>> \o Tail(calls)) /\ UNCHANGED network
     \/ /\ p \in NoCommand \/ hosts[p].recent \/ MayBeUnviable(hosts[p])
        /\ calls' = <<Judged(Top, IF p \in NoCommand THEN Top.verdict
                                                    ELSE hosts[p].state)>>
                    \o Tail(calls)
        /\ UNCHANGED <<hosts, flights, history, network>>

ParentAnswers ==
  /\ calls # <<>> /\ Top.at = "asked"
  /\ calls' = <<Judged(Top, hosts[Head(Top.parents)].state)>> \o Tail(calls)
  /\ UNCHANGED <<hosts, flights, history, network>>

Conclude ==
  LET h == Top.host IN
  /\ calls # <<>> /\ Top.at = "parents" /\ Top.parents = <<>>
  /\ Finish(h, [hosts[h] EXCEPT !.state =
                  IF Top.verdict = "UP" \/ Parents[h] = <<>> THEN "DOWN"
                                                             ELSE "UNREACHABLE"],
            TRUE, Reachable(ChildrenOf(h)), Tail(calls))
  /\ UNCHANGED <<flights, history, network>>

\* one neighbour is checked, unless it is being checked or was just now
Spread(g) ==
  /\ calls # <<>> /\ Top.at = "spread" /\ g \in Top.spread
  /\ calls' = (IF Top.spread = {g} THEN <<>>
               ELSE <<[Top EXCEPT !.spread = @ \ {g}]>>) \o Tail(calls)
  /\ LET v == hosts[g] IN
     \/ /\ Viable(v) /\ ~v.recent /\ ~v.executing /\ g \notin NoCommand
        /\ Launch(g, v, FALSE, FALSE) /\ UNCHANGED network
     \/ /\ MayBeUnviable(v) \/ v.recent \/ v.executing \/ g \in NoCommand
        /\ UNCHANGED <<hosts, flights, history, network>>

-----------------------------------------------------------------------------
(* Watchdogs and commands.                                                  *)

Orphan(h) ==
  /\ Idle /\ hosts[h].executing
  /\ \/ InFlight(h) = {} /\ UNCHANGED disturbances
     \/ InFlight(h) # {} /\ On("late") /\ Disturb   \* the result is only late
  /\ \E w \in Scheduled([hosts[h] EXCEPT !.executing = FALSE], "normal") :
       hosts' = [hosts EXCEPT ![h] = w]
  /\ UNCHANGED <<flights, calls, history, alive>>

Freshness(h) ==
  LET v == hosts[h] IN
  /\ On("freshness") /\ Idle /\ ~v.executing /\ ~v.freshening /\ ~v.recent
  /\ Disturb
  /\ \E w \in Scheduled([v EXCEPT !.freshening = TRUE], "fresh") :
       hosts' = [hosts EXCEPT ![h] = w]
  /\ UNCHANGED <<flights, calls, history, alive>>

ForceCheck(h) ==
  /\ On("forced") /\ Idle /\ Disturb
  /\ \E w \in Scheduled(hosts[h], "forced") : hosts' = [hosts EXCEPT ![h] = w]
  /\ UNCHANGED <<flights, calls, history, alive>>

Disable(h) ==
  /\ On("switch") /\ Idle /\ hosts[h].enabled /\ Disturb
  /\ hosts' = [hosts EXCEPT ![h].enabled = FALSE, ![h].should = FALSE]
  /\ clean' = [clean EXCEPT ![h] = FALSE]
  /\ UNCHANGED <<flights, calls, streak, alive>>

Enable(h) ==
  LET v == [hosts[h] EXCEPT !.enabled = TRUE, !.should = hosts[h].regular] IN
  /\ Idle /\ ~hosts[h].enabled
  /\ \E w \in IF v.should THEN Scheduled(v, "normal") ELSE {v} :
       hosts' = [hosts EXCEPT ![h] = w]
  /\ UNCHANGED <<flights, calls, history, network>>

-----------------------------------------------------------------------------
(* Plugins, the network and time.                                           *)

Answer(f) ==
  /\ f.answer = None
  /\ flights' = BagAdd(BagRemove(flights, f),
       [f EXCEPT !.answer = IF Responds[f.host] THEN "UP" ELSE "DOWN"])
  /\ UNCHANGED <<hosts, calls, history, network>>

Lose(f) ==
  /\ On("lost") /\ f.answer = None /\ Disturb
  /\ flights' = BagRemove(flights, f)
  /\ clean' = [clean EXCEPT ![f.host] = FALSE]
  /\ UNCHANGED <<hosts, calls, streak, alive>>

Change(h) ==
  /\ Disturb
  /\ alive' = [alive EXCEPT ![h] = ~@]
  /\ UNCHANGED <<hosts, flights, calls, history>>

Age(h) ==
  /\ hosts[h].recent
  /\ hosts' = [hosts EXCEPT ![h].recent = FALSE]
  /\ UNCHANGED <<flights, calls, history, network>>

Handling == \/ AskParent \/ ParentAnswers \/ Conclude
            \/ \E g \in Hosts : Spread(g)

Next ==
  \/ Handling
  \/ \E h \in Hosts :
       \/ RunDropped(h) \/ RunEvent(h) \/ RunFails(h)
       \/ OnDemand(h) \/ OnDemandSync(h) \/ Orphan(h) \/ Freshness(h)
       \/ ForceCheck(h) \/ Disable(h) \/ Enable(h) \/ Change(h) \/ Age(h)
       \/ \E new \in States : Passive(h, new)
       \/ \E f \in InFlight(h) : Result(f) \/ Discard(f) \/ Answer(f) \/ Lose(f)

Spec == Init /\ [][Next]_vars

(* Handlers end, plugins end, results are reaped, queued checks run in the  *)
(* end when they may, and the orphan watchdog recurs.                       *)
FairSpec ==
  /\ Spec /\ WF_vars(Handling)
  /\ \A h \in Hosts :
       /\ WF_vars(\E f \in InFlight(h) : Answer(f))
       /\ SF_vars(\E f \in InFlight(h) : Result(f) \/ Discard(f))
       /\ SF_vars(RunEvent(h) \/ RunDropped(h))
       /\ SF_vars(InFlight(h) = {} /\ Orphan(h))

-----------------------------------------------------------------------------
Frame == [at : {"parents", "asked", "spread"}, host : Hosts,
          parents : Seq(Hosts), verdict : States, spread : SUBSET Hosts]
Flight == [host : Hosts, fresh : BOOLEAN, reschedule : BOOLEAN,
           answer : {None, "UP", "DOWN"}]
Host == [state : States, type : {"HARD", "SOFT"}, attempt : Nat,
         event : Events, should : BOOLEAN, enabled : BOOLEAN,
         executing : BOOLEAN, again : BOOLEAN, freshening : BOOLEAN,
         recent : BOOLEAN, regular : BOOLEAN]

TypeOK ==
  /\ hosts \in [Hosts -> Host]
  /\ \A h \in Hosts : hosts[h].attempt \in 1 .. Attempts[h]
  /\ IsABag(flights) /\ BagToSet(flights) \subseteq Flight
  /\ calls \in Seq(Frame)
  /\ alive \in [Hosts -> BOOLEAN] /\ clean \in [Hosts -> BOOLEAN]
  /\ streak \in [Hosts -> Nat] /\ disturbances \in 0 .. MaxDisturbances

(* No check gets lost: whenever the main thread is back in its loop, a host *)
(* that is to be checked regularly has a check queued, or is marked as      *)
(* executing and then either its check in flight schedules the next one, or *)
(* the watchdog will.                                                       *)
NeverDropped ==
  Idle => \A h \in Hosts :
    hosts[h].regular /\ hosts[h].enabled /\ hosts[h].event = "none" =>
      /\ hosts[h].executing
      /\ InFlight(h) = {} \/ hosts[h].again

(* A host without check interval is not left alone with a problem that is   *)
(* still to be confirmed, unless checks overlapped, were lost, or so.       *)
RetriesQueued ==
  Idle => \A h \in Hosts :
    clean[h] /\ hosts[h].state # "UP" /\ hosts[h].type = "SOFT" =>
      hosts[h].event # "none" \/ hosts[h].executing

(* A problem becomes hard only after as many results as there are attempts, *)
(* unless checks of the host overlapped, one was lost, or a passive result  *)
(* said so.                                                                 *)
HardEarned ==
  \A h \in Hosts :
    clean[h] /\ hosts[h].state # "UP" /\ hosts[h].type = "HARD" =>
      streak[h] = Attempts[h]

(* When the network stays as it is, every host that is checked regularly    *)
(* gets the state it deserves: up if it answers, unreachable if none of its *)
(* parents is up, else down.                                                *)
Right(h) ==
  /\ hosts[h].type = "HARD"
  /\ hosts[h].state = IF Responds[h] THEN "UP" ELSE Reach(h)
Settled ==
  <>[](\A h \in Hosts \ NoCommand :
         hosts[h].regular /\ hosts[h].enabled => Right(h))
=============================================================================
