-------------------------- MODULE CheckCycleProofs --------------------------
(***************************************************************************)
(* Proofs about CheckCycle, for every set of services and every bound, each *)
(* for the features under which its property holds:                        *)
(*   - types (TypeCorrect), and a check under way behind every service     *)
(*     marked as executing (ExecutingChecked);                             *)
(*   - the counter is exact (CounterAlwaysExact) where nothing bypasses it, *)
(*     and the limit holds (ParallelLimitKept): Outstanding counts ids and *)
(*     active results, CountStep says what a step does to both sides;      *)
(*   - no service is forgotten (NeverForgottenHolds), by the shapes of the *)
(*     few steps that take an event from the queue (ServicesStep);         *)
(*   - no running plugin is given up (RunningChecksKept), by the age of    *)
(*     the check against the date of the next one.                         *)
(***************************************************************************)
EXTENDS CheckCycle, SequenceTheorems, FiniteSetTheorems, WellFoundedInduction,
        TLAPS

USE CheckCycleAssumption DEF CheckCycleAssumption

-----------------------------------------------------------------------------
(* Types.                                                                   *)

LEMMA DatesFacts == 0 .. MaxDelay \subseteq Dates /\ 0 \in Dates /\ Past \in Dates
BY DEF Dates, Past

LEMMA OptionsFacts ==
  {} \in Options /\ {"force"} \in Options /\ {"force", "fresh"} \in Options
BY DEF Options

LEMMA AgesFacts == 0 \in Ages /\ FreshAfter \in Ages
BY DEF Ages

(* schedule_service_check keeps a service well-formed and touches neither   *)
(* the execution flag nor the configuration.                                *)
LEMMA ScheduleType ==
  ASSUME NEW v \in Service, NEW t \in Dates, NEW o \in Options
  PROVE  Schedule(v, t, o) \in Service
BY DEF Schedule, Supersedes, Service, Event

LEMMA ScheduleKeeps ==
  ASSUME NEW v \in Service, NEW t \in Dates, NEW o \in Options
  PROVE  /\ Schedule(v, t, o).live = v.live
         /\ Schedule(v, t, o).executing = v.executing
BY DEF Schedule, Supersedes, Service, Event

LEMMA FreshType ==
  ASSUME NEW s \in Services, NEW d \in 0 .. MaxDelay
  PROVE  Fresh(s, d) \in Service
<1>1. d \in Dates /\ Past \in Dates /\ {} \in Options /\ FreshAfter \in Ages
  BY DatesFacts, OptionsFacts, AgesFacts
<1>2. [opts |-> {}, due |-> d] \in Event
  BY <1>1 DEF Event
<1> QED
  BY <1>1, <1>2 DEF Fresh, Service

LEMMA GoneType == ASSUME NEW s \in Services PROVE Gone(s) \in Service
<1>1. Fresh(s, 0) \in Service
  BY FreshType
<1> QED
  BY <1>1 DEF Gone, Service

(* The end of checker::run, whatever services, counter and queue it is      *)
(* applied to.                                                              *)
LEMMA LaunchType ==
  ASSUME TypeOK, NEW S \in [Services -> Service], NEW s \in Services,
         NEW o \in Options, NEW resched \in BOOLEAN, NEW n \in Nat,
         NEW q \in Seq(Result), Launch(S, s, o, resched, n, q)
  PROVE  /\ svc' \in [Services -> Service]
         /\ flight' \in [Ids -> Flight \cup {None}]
         /\ toReap' \in Seq(Result)
         /\ counter' \in Nat
<1>1. Launched(s, o, resched) \in Result
  BY AgesFacts DEF Launched, Result
<1>2. [result |-> Launched(s, o, resched), done |-> FALSE] \in Flight
  BY <1>1 DEF Flight, Launched
<1>3. svc' \in [Services -> Service]
  <2>1. svc' = [S EXCEPT ![s].executing = TRUE]
    BY DEF Launch
  <2>2. ASSUME NEW v \in Service PROVE [v EXCEPT !.executing = TRUE] \in Service
    BY DEF Service
  <2> QED
    BY <2>1, <2>2
<1>4. toReap' \in Seq(Result)
  <2>1. Append(q, Launched(s, o, resched)) \in Seq(Result)
    BY <1>1, AppendProperties
  <2> QED
    BY <2>1 DEF Launch
<1>5. flight' \in [Ids -> Flight \cup {None}]
  BY <1>2 DEF Launch, TypeOK
<1>6. counter' \in Nat
  BY DEF Launch
<1> QED
  BY <1>3, <1>4, <1>5, <1>6

LEMMA RescheduledType ==
  ASSUME NEW v \in Service, NEW s \in Services, NEW d \in 0 .. MaxDelay
  PROVE  Rescheduled(v, s, d) \in Service
<1> DEFINE w == [v EXCEPT !.should = s \notin OneShot /\ v.enabled, !.next = d]
<1>1. d \in Dates /\ {} \in Options
  BY DatesFacts, OptionsFacts
<1>2. w \in Service
  BY <1>1 DEF Service
<1>3. Schedule(w, d, {}) \in Service
  BY <1>1, <1>2, ScheduleType
<1> QED
  BY <1>2, <1>3 DEF Rescheduled

LEMMA ClearedType ==
  ASSUME NEW v \in Service, NEW r \in Result
  PROVE  Cleared(v, r) \in Service
BY DEF Cleared, Service, Result

LEMMA MovedType ==
  ASSUME NEW v \in Service, v.event \in Event, NEW t \in Dates
  PROVE  Moved(v, t) \in Service
<1>1. [opts |-> v.event.opts, due |-> t] \in Event
  BY DEF Event
<1> QED
  BY <1>1 DEF Moved, Service

LEMMA InitType == Init => TypeOK
<1> SUFFICES ASSUME Init PROVE TypeOK
  OBVIOUS
<1>1. svc \in [Services -> Service]
  BY FreshType DEF Init
<1>2. toReap \in Seq(Result)
  BY EmptySeq DEF Init
<1> QED
  BY <1>1, <1>2 DEF Init, TypeOK

LEMMA HandleResultType ==
  ASSUME TypeOK, HandleResult
  PROVE  TypeOK'
<1>1. toReap \in Seq(Result) /\ toReap # <<>> /\ svc \in [Services -> Service]
      /\ counter \in Nat
  BY DEF HandleResult, TypeOK
<1> DEFINE r == Head(toReap)
           s == r.svc
           v == Cleared(svc[s], r)
           w == [v EXCEPT !.age = r.age]
<1>2. r \in Result /\ Tail(toReap) \in Seq(Result)
  BY <1>1, HeadTailProperties
<1>3. s \in Services /\ r.age \in Ages
  BY <1>2 DEF Result
<1>4. v \in Service
  BY <1>1, <1>2, <1>3, ClearedType
<1>5. w \in Service
  BY <1>3, <1>4 DEF Service
<1>6. Uncounted(r) \in Nat
  BY <1>1 DEF Uncounted
<1>7. /\ phase' \in {"loop", "merge", "reap"} /\ UNCHANGED <<flight, execute>>
      /\ toReap' = Tail(toReap)
  BY DEF HandleResult, AfterOne
<1>8. asked' \subseteq Services
  BY <1>3 DEF HandleResult, TypeOK
<1>9. svc' \in [Services -> Service] /\ counter' \in Nat
  <2>1. CASE UNCHANGED <<svc, counter>>
    BY <1>1, <2>1
  <2>2. CASE svc' = [svc EXCEPT ![s] = v] /\ counter' = Uncounted(r)
    BY <1>1, <1>3, <1>4, <1>6, <2>2
  <2>3. ASSUME NEW change \in BOOLEAN, NEW d \in 0 .. MaxDelay,
               svc' = [svc EXCEPT ![s] = IF r.resched \/ change
                                         THEN Rescheduled(w, s, d) ELSE w],
               counter' = Uncounted(r)
        PROVE  svc' \in [Services -> Service] /\ counter' \in Nat
    <3>1. Rescheduled(w, s, d) \in Service
      BY <1>3, <1>5, RescheduledType
    <3> QED
      BY <1>1, <1>3, <1>5, <1>6, <2>3, <3>1
  <2> QED
    BY <2>1, <2>2, <2>3 DEF HandleResult
<1> QED
  BY <1>2, <1>7, <1>8, <1>9 DEF TypeOK

LEMMA TickType ==
  ASSUME TypeOK, Tick
  PROVE  TypeOK'
<1>1. \A t \in Dates : Earlier(t) \in Dates
  BY DEF Earlier, Dates, Past
<1>2. \A a \in Ages : Older(a) \in Ages
  BY DEF Older, Ages
<1>3. svc' \in [Services -> Service]
  <2> SUFFICES ASSUME NEW s \in Services PROVE svc'[s] \in Service
    BY DEF Tick
  <2>1. svc[s] \in Service
    BY DEF TypeOK
  <2>2. Sooner(svc[s].event) \in Event \cup {None}
    BY <1>1, <2>1 DEF Sooner, Service, Event
  <2> QED
    BY <1>1, <1>2, <2>1, <2>2 DEF Tick, Service
<1>4. \A r \in Result : [r EXCEPT !.age = Older(@)] \in Result
  BY <1>2 DEF Result
<1>5. flight' \in [Ids -> Flight \cup {None}]
  <2> SUFFICES ASSUME NEW i \in Ids, flight[i] # None
               PROVE  [flight[i] EXCEPT !.result.age = Older(@)] \in Flight
    BY DEF Tick
  <2> QED
    BY <1>2 DEF TypeOK, Flight, Result
<1>6. toReap' \in Seq(Result)
  <2>1. /\ Len(toReap) \in Nat /\ DOMAIN toReap = 1 .. Len(toReap)
        /\ \A k \in 1 .. Len(toReap) : toReap[k] \in Result
    BY LenProperties, ElementOfSeq DEF TypeOK
  <2>2. toReap' \in [1 .. Len(toReap) -> Result]
    BY <1>4, <2>1 DEF Tick
  <2> QED
    BY <2>1, <2>2, SeqDef
<1> QED
  BY <1>3, <1>5, <1>6 DEF Tick, TypeOK

LEMMA NextType == TypeOK /\ [Next]_vars => TypeOK'
<1> SUFFICES ASSUME TypeOK, [Next]_vars PROVE TypeOK'
  OBVIOUS
<1> USE DEF TypeOK
<1>0. \A d \in 0 .. MaxDelay : d \in Dates
  BY DatesFacts
<1>1. ASSUME NEW s \in Services, RunEvent(s) PROVE TypeOK'
  <2> DEFINE v == [svc[s] EXCEPT !.event = None, !.options = {}]
             S == [svc EXCEPT ![s] = v]
  <2>1. svc[s].event.opts \in Options
    BY <1>1 DEF RunEvent, Due, Armed, Service, Event
  <2> HIDE DEF v
  <2>2. S \in [Services -> Service]
    <3>1. ASSUME NEW x \in Service PROVE [x EXCEPT !.event = None] \in Service
      BY DEF Service
    <3>2. ASSUME NEW x \in Service PROVE [x EXCEPT !.options = {}] \in Service
      BY OptionsFacts DEF Service
    <3>3. v = [[svc[s] EXCEPT !.event = None] EXCEPT !.options = {}]
      BY DEF v
    <3>4. v \in Service
      BY <3>1, <3>2, <3>3
    <3> QED
      BY <3>4
  <2> USE DEF v
  <2>3. Launch(S, s, svc[s].event.opts, TRUE, counter, toReap)
    BY <1>1 DEF RunEvent
  <2> HIDE DEF S
  <2>4. /\ svc' \in [Services -> Service]
        /\ flight' \in [Ids -> Flight \cup {None}]
        /\ toReap' \in Seq(Result) /\ counter' \in Nat
    BY <2>1, <2>2, <2>3, LaunchType
  <2> QED
    BY <1>1, <2>4 DEF RunEvent
<1>2. ASSUME NEW s \in Services, NotViable(s) PROVE TypeOK'
  <2>1. svc[s].event.opts \in Options /\ svc[s] \in Service
    BY <1>2 DEF NotViable, Due, Armed, Service, Event
  <2> DEFINE v == [svc[s] EXCEPT !.event = None]
  <2>2. v \in Service
    BY <2>1 DEF Service
  <2>3. ASSUME NEW d \in 1 .. MaxDelay
        PROVE  Schedule([v EXCEPT !.next = d], d, svc[s].event.opts) \in Service
    <3>1. d \in Dates
      BY <1>0
    <3>2. [v EXCEPT !.next = d] \in Service
      BY <2>2, <3>1 DEF Service
    <3> QED
      BY <2>1, <3>1, <3>2, ScheduleType
  <2>4. \/ svc' = [svc EXCEPT ![s] = v]
        \/ \E d \in 1 .. MaxDelay :
             svc' = [svc EXCEPT ![s] = Schedule([v EXCEPT !.next = d], d, svc[s].event.opts)]
    BY <1>2 DEF NotViable
  <2> HIDE DEF v
  <2>5. svc' \in [Services -> Service]
    BY <2>2, <2>3, <2>4
  <2> QED
    BY <1>2, <2>5 DEF NotViable
<1>3. ASSUME NEW s \in Services, Nudge(s) PROVE TypeOK'
  <2>1. PICK d \in IF ~Saturated /\ s \in OneShot THEN {0} ELSE 1 .. MaxDelay :
          /\ svc[s].next + d <= MaxDelay
          /\ svc' = [svc EXCEPT ![s] = Moved(svc[s], svc[s].next + d)]
    BY <1>3 DEF Nudge
  <2>2. svc[s].next \in Dates /\ svc[s].event \in Event
    BY <1>3 DEF Nudge, Due, Armed, Service
  <2>3. d \in Nat
    BY <2>1
  <2>4. svc[s].next + d \in Dates
    BY <2>1, <2>2, <2>3 DEF Dates, Past
  <2>5. Moved(svc[s], svc[s].next + d) \in Service
    BY <2>2, <2>4, MovedType
  <2>6. svc' \in [Services -> Service]
    BY <2>1, <2>5
  <2> QED
    BY <1>3, <2>6 DEF Nudge
<1>4. ASSUME NEW s \in Services, PassiveResult(s) PROVE TypeOK'
  <2>1. [svc |-> s, opts |-> {}, resched |-> FALSE, active |-> FALSE, age |-> 0]
          \in Result
    BY OptionsFacts, AgesFacts DEF Result
  <2>2. toReap' \in Seq(Result)
    BY <1>4, <2>1, AppendProperties DEF PassiveResult
  <2> QED
    BY <1>4, <2>2 DEF PassiveResult
<1>5. ASSUME NEW s \in Services, ScheduleCommand(s) PROVE TypeOK'
  <2>1. \A o \in {{}, {"force"}}, t \in 0 .. MaxDelay :
          Schedule(svc[s], t, o) \in Service
    BY <1>0, OptionsFacts, ScheduleType
  <2>2. PICK o \in {{}, {"force"}}, t \in 0 .. MaxDelay :
          svc' = [svc EXCEPT ![s] = Schedule(svc[s], t, o)]
    BY <1>5 DEF ScheduleCommand
  <2>3. svc' \in [Services -> Service]
    BY <2>1, <2>2
  <2> QED
    BY <1>5, <2>3 DEF ScheduleCommand
<1>6. ASSUME NEW s \in Services, DisableChecks(s) PROVE TypeOK'
  BY ZenonT(60), <1>6 DEF DisableChecks, Service
<1>7. ASSUME NEW s \in Services, EnableChecks(s) PROVE TypeOK'
  <2>1. PICK d \in 0 .. MaxDelay :
          LET v == [svc[s] EXCEPT !.enabled = TRUE, !.should = s \notin OneShot,
                                  !.next = d]
          IN  svc' = [svc EXCEPT ![s] = IF v.should THEN Schedule(v, d, {}) ELSE v]
    BY <1>7 DEF EnableChecks
  <2> DEFINE v == [svc[s] EXCEPT !.enabled = TRUE, !.should = s \notin OneShot,
                                 !.next = d]
  <2>2. v \in Service
    <3>1. svc[s] \in Service /\ d \in Dates
      BY <1>0
    <3> QED
      BY <3>1 DEF Service
  <2>3. Schedule(v, d, {}) \in Service
    BY <1>0, <2>2, OptionsFacts, ScheduleType
  <2>4. svc' \in [Services -> Service]
    BY <2>1, <2>2, <2>3
  <2> QED
    BY <1>7, <2>4 DEF EnableChecks
<1>8. ASSUME NEW s \in Services, Reload(s) PROVE TypeOK'
  BY <1>8, FreshType, GoneType DEF Reload
<1>9. ASSUME NEW s \in Services, ReloadModified(s) PROVE TypeOK'
  <2> DEFINE v(d) == [svc[s] EXCEPT !.event = [opts |-> svc[s].options, due |-> d],
                                    !.next = d, !.should = TRUE]
  <2>1. PICK d \in 0 .. MaxDelay : svc' = [svc EXCEPT ![s] = v(d)]
    BY <1>9 DEF ReloadModified
  <2>2. svc[s] \in Service /\ d \in Dates
    BY <1>0
  <2>3. [opts |-> svc[s].options, due |-> d] \in Event
    BY <2>2 DEF Service, Event
  <2>4. v(d) \in Service
    BY <2>2, <2>3 DEF Service
  <2>5. svc' \in [Services -> Service]
    BY <2>1, <2>4
  <2> QED
    BY <1>9, <2>5 DEF ReloadModified
<1>10. ASSUME NEW i \in Ids, Finished(i) PROVE TypeOK'
  BY <1>10 DEF Finished, Flight
<1>11. ASSUME NEW i \in Ids, Lose(i) PROVE TypeOK'
  BY <1>11 DEF Lose
<1>12. ASSUME NEW i \in Ids, Merge(i) PROVE TypeOK'
  <2>1. flight[i].result \in Result
    BY <1>12 DEF Merge, Flight
  <2>2. toReap' \in Seq(Result)
    BY <1>12, <2>1, AppendProperties DEF Merge
  <2> QED
    BY <1>12, <2>2 DEF Merge
<1>13. CASE BeginReap \/ Merged \/ EndReap
  BY <1>13 DEF BeginReap, Merged, EndReap
<1>14. CASE HandleResult
  BY <1>14, HandleResultType
<1>15. CASE Orphans
  <2>1. Cardinality(Overdue) \in Nat
    BY FS_Subset, FS_CardinalityType DEF Overdue
  <2>2. \A s \in Services : [svc[s] EXCEPT !.executing = FALSE] \in Service
    BY ZenonT(60) DEF Service
  <2>3. \A s \in Services :
          Schedule([svc[s] EXCEPT !.executing = FALSE], 0, {}) \in Service
    BY <2>2, DatesFacts, OptionsFacts, ScheduleType
  <2>4. svc' \in [Services -> Service] /\ counter' \in Nat
    BY <1>15, <2>1, <2>3 DEF Orphans
  <2> QED
    BY <1>15, <2>4 DEF Orphans
<1>16. CASE Freshness
  <2>1. \A s \in Services : [svc[s] EXCEPT !.freshening = TRUE] \in Service
    BY ZenonT(60) DEF Service
  <2>2. \A s \in Services :
          Schedule([svc[s] EXCEPT !.freshening = TRUE], 0, {"force", "fresh"})
            \in Service
    BY <2>1, DatesFacts, OptionsFacts, ScheduleType
  <2>3. svc' \in [Services -> Service]
    BY <1>16, <2>2 DEF Freshness
  <2> QED
    BY <1>16, <2>3 DEF Freshness
<1>17. CASE SwitchExecution
  BY <1>17 DEF SwitchExecution
<1>18. CASE Tick
  BY <1>18, TickType
<1>19. CASE UNCHANGED vars
  BY <1>19 DEF vars
<1>20. ASSUME NEW m \in Services, CheckMaster(m) \/ SkipMaster(m) PROVE TypeOK'
  <2>1. /\ phase' \in {"loop", "merge", "reap"} /\ UNCHANGED execute
        /\ asked' \subseteq Services
    BY <1>20 DEF CheckMaster, SkipMaster, NextMaster, AfterOne
  <2>2. CASE SkipMaster(m)
    BY <2>1, <2>2 DEF SkipMaster
  <2>3. CASE CheckMaster(m)
    <3>1. Launch(svc, m, {}, FALSE, counter, toReap)
      BY <2>3 DEF CheckMaster
    <3>2. /\ svc' \in [Services -> Service]
          /\ flight' \in [Ids -> Flight \cup {None}]
          /\ toReap' \in Seq(Result) /\ counter' \in Nat
      BY <3>1, OptionsFacts, LaunchType
    <3> QED
      BY <2>1, <3>2
  <2> QED
    BY <1>20, <2>2, <2>3
<1> HIDE DEF TypeOK
<1> QED
  BY <1>1, <1>2, <1>3, <1>4, <1>5, <1>6, <1>7, <1>8, <1>9, <1>10, <1>11, <1>12,
     <1>13, <1>14, <1>15, <1>16, <1>17, <1>18, <1>19, <1>20 DEF Next, Reap

(* Every reachable state is well-formed: in particular the count of running *)
(* checks, an unsigned integer in the code, is never decremented below 0.   *)
THEOREM TypeCorrect == Spec => []TypeOK
<1> QED
  BY InitType, NextType, PTL DEF Spec

-----------------------------------------------------------------------------
(* ExecutingHasCheck.  It is inductive together with TypeOK, which says     *)
(* that what is in flight is active: so is what Merge puts in the queue,    *)
(* and a result that is handled takes the flag of its own service with it.  *)

InFlight(s) == \E i \in Ids : flight[i] # None /\ flight[i].result.svc = s
InQueue(q, s) == \E k \in DOMAIN q : q[k].svc = s /\ q[k].active
Runs(v) == v.live /\ v.executing

LEMMA ScheduleRuns ==
  ASSUME NEW v \in Service, NEW t \in Dates, NEW o \in Options
  PROVE  Runs(Schedule(v, t, o)) => Runs(v)
<1> QED
  BY ScheduleKeeps DEF Runs

LEMMA RescheduledKeeps ==
  ASSUME NEW v \in Service, NEW s \in Services, NEW d \in 0 .. MaxDelay
  PROVE  Runs(Rescheduled(v, s, d)) => Runs(v)
<1> DEFINE w == [v EXCEPT !.should = s \notin OneShot /\ v.enabled, !.next = d]
<1>1. d \in Dates /\ {} \in Options
  BY DatesFacts, OptionsFacts
<1>2. w \in Service /\ (Runs(w) => Runs(v))
  BY <1>1 DEF Service, Runs
<1> HIDE DEF w
<1>3. Runs(Schedule(w, d, {})) => Runs(w)
  BY <1>1, <1>2, ScheduleRuns
<1> QED
  BY <1>2, <1>3 DEF Rescheduled, w

LEMMA BackedDef ==
  ExecutingHasCheck <=>
    \A s \in Services : Runs(svc[s]) => InFlight(s) \/ InQueue(toReap, s)
BY DEF ExecutingHasCheck, FlightsOf, QueuedOf, InFlight, InQueue, Runs

LEMMA BackedDefPrime ==
  ExecutingHasCheck' <=>
    \A s \in Services : Runs(svc'[s]) => InFlight(s)' \/ InQueue(toReap', s)
BY DEF ExecutingHasCheck, FlightsOf, QueuedOf, InFlight, InQueue, Runs

LEMMA AppendQueue ==
  ASSUME NEW q \in Seq(Result), NEW r \in Result
  PROVE  /\ \A s \in Services : InQueue(q, s) => InQueue(Append(q, r), s)
         /\ r.active => InQueue(Append(q, r), r.svc)
<1>1. /\ Len(q) \in Nat /\ DOMAIN q = 1 .. Len(q)
      /\ DOMAIN Append(q, r) = 1 .. Len(q) + 1
      /\ \A k \in 1 .. Len(q) : Append(q, r)[k] = q[k]
      /\ Append(q, r)[Len(q) + 1] = r
  BY LenProperties, AppendProperties
<1> QED
  BY <1>1 DEF InQueue

LEMMA TailQueue ==
  ASSUME NEW q \in Seq(Result), q # <<>>, NEW s \in Services,
         InQueue(q, s), ~(Head(q).active /\ Head(q).svc = s)
  PROVE  InQueue(Tail(q), s)
<1>1. /\ Len(q) \in Nat /\ DOMAIN q = 1 .. Len(q)
      /\ Head(q) = q[1]
      /\ Tail(q) \in Seq(Result) /\ Len(Tail(q)) = Len(q) - 1
      /\ \A k \in 1 .. Len(Tail(q)) : Tail(q)[k] = q[k + 1]
  BY LenProperties, HeadTailProperties
<1>2. DOMAIN Tail(q) = 1 .. Len(q) - 1
  BY <1>1, LenProperties
<1>3. PICK k \in 1 .. Len(q) : q[k].svc = s /\ q[k].active
  BY <1>1 DEF InQueue
<1>4. k # 1
  BY <1>1, <1>3
<1>5. k - 1 \in 1 .. Len(q) - 1 /\ Tail(q)[k - 1] = q[k]
  BY <1>1, <1>3, <1>4
<1> QED
  BY <1>2, <1>3, <1>5 DEF InQueue

(* A step that starts and ends no check may clear the flag, not set it.     *)
LEMMA QuietStep ==
  ASSUME ExecutingHasCheck, UNCHANGED <<flight, toReap>>,
         \A s \in Services : Runs(svc'[s]) => Runs(svc[s])
  PROVE  ExecutingHasCheck'
BY BackedDef, BackedDefPrime DEF InFlight

(* Launch sets the flag of a service and puts a check behind it.            *)
LEMMA LaunchBacks ==
  ASSUME TypeOK, NEW S \in [Services -> Service], NEW s \in Services,
         NEW o \in Options, NEW resched \in BOOLEAN, NEW n \in Nat,
         NEW q \in Seq(Result), Launch(S, s, o, resched, n, q),
         \A x \in Services : Runs(S[x]) => InFlight(x) \/ InQueue(q, x)
  PROVE  ExecutingHasCheck'
<1> DEFINE r == Launched(s, o, resched)
<1>1. r \in Result /\ r.svc = s /\ r.active
  BY AgesFacts DEF Launched, Result
<1>2. \A x \in Services : x # s /\ Runs(svc'[x]) => Runs(S[x])
  BY DEF Launch, Runs
<1>3. ASSUME NEW i \in Ids, flight[i] = None, toReap' = q,
             flight' = [flight EXCEPT ![i] = [result |-> r, done |-> FALSE]]
      PROVE  ExecutingHasCheck'
  <2>1. [result |-> r, done |-> FALSE] \in Flight
    BY <1>1 DEF Flight
  <2>2. flight'[i] # None /\ flight'[i].result.svc = s
    BY <1>1, <1>3, <2>1, NoneAssumption DEF TypeOK
  <2>3. \A x \in Services : InFlight(x) => InFlight(x)'
    BY <1>3 DEF InFlight, TypeOK
  <2>4. InFlight(s)'
    BY <2>2 DEF InFlight
  <2> QED
    BY <1>2, <1>3, <2>3, <2>4, BackedDefPrime
<1>4. ASSUME toReap' = Append(q, r), UNCHANGED flight
      PROVE  ExecutingHasCheck'
  <2>1. \A x \in Services : InFlight(x) => InFlight(x)'
    BY <1>4 DEF InFlight
  <2>2. \A x \in Services : InQueue(q, x) => InQueue(toReap', x)
    BY <1>1, <1>4, AppendQueue
  <2>3. InQueue(toReap', s)
    BY <1>1, <1>4, AppendQueue
  <2> QED
    BY <1>2, <2>1, <2>2, <2>3, BackedDefPrime
<1> QED
  BY <1>3, <1>4 DEF Launch

(* Handling the result at the head clears the flag of its own service.      *)
LEMMA HandleResultBacks ==
  ASSUME TypeOK, ExecutingHasCheck, HandleResult
  PROVE  ExecutingHasCheck'
<1>1. toReap \in Seq(Result) /\ toReap # <<>> /\ svc \in [Services -> Service]
      /\ counter \in Nat
  BY DEF HandleResult, TypeOK
<1> DEFINE r == Head(toReap)
           s == r.svc
           v == Cleared(svc[s], r)
           w == [v EXCEPT !.age = r.age]
<1>2. r \in Result /\ Tail(toReap) \in Seq(Result)
  BY <1>1, HeadTailProperties
<1>3. s \in Services /\ r.age \in Ages
  BY <1>2 DEF Result
<1>4. v \in Service /\ w \in Service
  <2>1. v \in Service
    BY <1>1, <1>2, <1>3, ClearedType
  <2> QED
    BY <1>3, <2>1 DEF Service
<1>5. (Runs(v) => Runs(svc[s]) /\ ~r.active) /\ (Runs(w) => Runs(v))
  BY <1>1, <1>2, <1>3, <1>4 DEF Runs, Cleared, Service, Result
<1>6. \A x \in Services :
        Runs(svc[x]) /\ ~(r.active /\ s = x) => InFlight(x) \/ InQueue(Tail(toReap), x)
  BY <1>1, TailQueue, BackedDef
<1>7. toReap' = Tail(toReap) /\ UNCHANGED flight
  BY DEF HandleResult
<1>8. CASE (~svc[s].live \/ ~r.active) /\ UNCHANGED svc
  BY <1>6, <1>7, <1>8, BackedDefPrime DEF InFlight, Runs
<1>9. CASE svc' = [svc EXCEPT ![s] = v]
  <2>1. \A x \in Services : Runs(svc'[x]) => Runs(svc[x]) /\ ~(r.active /\ s = x)
    BY <1>1, <1>5, <1>9
  <2> QED
    BY <1>6, <1>7, <2>1, BackedDefPrime DEF InFlight
<1>10. ASSUME NEW change \in BOOLEAN, NEW d \in 0 .. MaxDelay,
              svc' = [svc EXCEPT ![s] = IF r.resched \/ change
                                        THEN Rescheduled(w, s, d) ELSE w]
       PROVE  ExecutingHasCheck'
  <2>1. Rescheduled(w, s, d) \in Service /\ (Runs(Rescheduled(w, s, d)) => Runs(w))
    BY <1>3, <1>4, RescheduledType, RescheduledKeeps
  <2>2. \A x \in Services : Runs(svc'[x]) => Runs(svc[x]) /\ ~(r.active /\ s = x)
    BY <1>1, <1>5, <1>10, <2>1
  <2> QED
    BY <1>6, <1>7, <2>2, BackedDefPrime DEF InFlight
<1> QED
  BY <1>8, <1>9, <1>10 DEF HandleResult

(* A check that ages is the same check.                                     *)
LEMMA AgedFlight ==
  ASSUME NEW f \in Flight
  PROVE  /\ [f EXCEPT !.result.age = Older(@)] \in Flight
         /\ [f EXCEPT !.result.age = Older(@)].result.svc = f.result.svc
<1>1. /\ Older(f.result.age) \in Ages
      /\ f.result \in Result /\ f.result.active
  BY DEF Older, Ages, Flight, Result
<1>2. [f EXCEPT !.result.age = Older(@)].result
        = [f.result EXCEPT !.age = Older(f.result.age)]
  BY DEF Flight
<1>3. [f EXCEPT !.result.age = Older(@)].done = f.done
  BY DEF Flight
<1> QED
  BY <1>1, <1>2, <1>3 DEF Flight, Result

LEMMA ExecutingNext ==
  TypeOK /\ ExecutingHasCheck /\ "lost" \notin Features /\ [Next]_vars
    => ExecutingHasCheck'
<1> SUFFICES ASSUME TypeOK, ExecutingHasCheck, "lost" \notin Features, [Next]_vars
             PROVE  ExecutingHasCheck'
  OBVIOUS
<1> USE DEF TypeOK
<1>0. \A d \in 0 .. MaxDelay : d \in Dates
  BY DatesFacts
<1>1. ASSUME NEW s \in Services, RunEvent(s) PROVE ExecutingHasCheck'
  <2> DEFINE v == [svc[s] EXCEPT !.event = None, !.options = {}]
             S == [svc EXCEPT ![s] = v]
  <2>1. svc[s].event.opts \in Options
    BY <1>1 DEF RunEvent, Due, Armed, Service, Event
  <2>2. S \in [Services -> Service]
    BY ZenonT(60), OptionsFacts DEF Service
  <2>3. \A x \in Services : Runs(S[x]) => InFlight(x) \/ InQueue(toReap, x)
    <3>1. \A x \in Services : Runs(S[x]) => Runs(svc[x])
      BY DEF Runs, Service
    <3> QED
      BY <3>1, BackedDef
  <2>4. Launch(S, s, svc[s].event.opts, TRUE, counter, toReap)
    BY <1>1 DEF RunEvent
  <2> HIDE DEF S
  <2> QED
    BY <2>1, <2>2, <2>3, <2>4, LaunchBacks
<1>2. ASSUME NEW s \in Services, NotViable(s) PROVE ExecutingHasCheck'
  <2> DEFINE v == [svc[s] EXCEPT !.event = None]
  <2>1. svc[s].event.opts \in Options /\ svc[s] \in Service
    BY <1>2 DEF NotViable, Due, Armed, Service, Event
  <2>2. v \in Service /\ (Runs(v) => Runs(svc[s]))
    BY <2>1 DEF Service, Runs
  <2>3. ASSUME NEW d \in 1 .. MaxDelay
        PROVE  Runs(Schedule([v EXCEPT !.next = d], d, svc[s].event.opts))
                 => Runs(svc[s])
    <3>1. d \in Dates
      BY <1>0
    <3>2. [v EXCEPT !.next = d] \in Service
          /\ (Runs([v EXCEPT !.next = d]) => Runs(svc[s]))
      BY <2>2, <3>1 DEF Service, Runs
    <3> QED
      BY <2>1, <3>1, <3>2, ScheduleRuns
  <2> HIDE DEF v
  <2>4. \A x \in Services : Runs(svc'[x]) => Runs(svc[x])
    BY <1>2, <2>2, <2>3 DEF NotViable, v
  <2> QED
    BY <1>2, <2>4, QuietStep DEF NotViable
<1>3. ASSUME NEW s \in Services, Nudge(s) PROVE ExecutingHasCheck'
  <2>1. \A x \in Services : Runs(svc'[x]) => Runs(svc[x])
    BY <1>3 DEF Nudge, Moved, Runs, Service
  <2> QED
    BY <1>3, <2>1, QuietStep DEF Nudge
<1>4. ASSUME NEW s \in Services, PassiveResult(s) PROVE ExecutingHasCheck'
  <2> DEFINE r == [svc |-> s, opts |-> {}, resched |-> FALSE,
                   active |-> FALSE, age |-> 0]
  <2>1. r \in Result
    BY OptionsFacts, AgesFacts DEF Result
  <2>2. \A x \in Services : InQueue(toReap, x) => InQueue(toReap', x)
    BY <1>4, <2>1, AppendQueue DEF PassiveResult
  <2> QED
    BY <1>4, <2>2, BackedDef, BackedDefPrime DEF PassiveResult, InFlight
<1>5. ASSUME NEW s \in Services, ScheduleCommand(s) PROVE ExecutingHasCheck'
  <2>1. PICK o \in {{}, {"force"}}, t \in 0 .. MaxDelay :
          svc' = [svc EXCEPT ![s] = Schedule(svc[s], t, o)]
    BY <1>5 DEF ScheduleCommand
  <2>2. Runs(Schedule(svc[s], t, o)) => Runs(svc[s])
    BY <1>0, OptionsFacts, ScheduleRuns
  <2>3. \A x \in Services : Runs(svc'[x]) => Runs(svc[x])
    BY <2>1, <2>2
  <2> QED
    BY <1>5, <2>3, QuietStep DEF ScheduleCommand
<1>6. ASSUME NEW s \in Services, DisableChecks(s) PROVE ExecutingHasCheck'
  <2>1. \A x \in Services : Runs(svc'[x]) => Runs(svc[x])
    BY <1>6 DEF DisableChecks, Runs, Service
  <2> QED
    BY <1>6, <2>1, QuietStep DEF DisableChecks
<1>7. ASSUME NEW s \in Services, EnableChecks(s) PROVE ExecutingHasCheck'
  <2>1. PICK d \in 0 .. MaxDelay :
          LET v == [svc[s] EXCEPT !.enabled = TRUE, !.should = s \notin OneShot,
                                  !.next = d]
          IN  svc' = [svc EXCEPT ![s] = IF v.should THEN Schedule(v, d, {}) ELSE v]
    BY <1>7 DEF EnableChecks
  <2> DEFINE v == [svc[s] EXCEPT !.enabled = TRUE, !.should = s \notin OneShot,
                                 !.next = d]
  <2>2. v \in Service /\ (Runs(v) => Runs(svc[s]))
    <3>1. svc[s] \in Service /\ d \in Dates
      BY <1>0
    <3> QED
      BY <3>1 DEF Service, Runs
  <2>3. Runs(Schedule(v, d, {})) => Runs(svc[s])
    BY <1>0, <2>2, OptionsFacts, ScheduleRuns
  <2>4. \A x \in Services : Runs(svc'[x]) => Runs(svc[x])
    BY <2>1, <2>2, <2>3
  <2> QED
    BY <1>7, <2>4, QuietStep DEF EnableChecks
<1>8. ASSUME NEW s \in Services, Reload(s) PROVE ExecutingHasCheck'
  <2>1. ~Runs(Gone(s)) /\ ~Runs(Fresh(s, 0))
    BY DEF Runs, Gone, Fresh
  <2>2. \A x \in Services : Runs(svc'[x]) => Runs(svc[x])
    BY <1>8, <2>1 DEF Reload
  <2> QED
    BY <1>8, <2>2, QuietStep DEF Reload
<1>9. ASSUME NEW s \in Services, ReloadModified(s) PROVE ExecutingHasCheck'
  <2>1. \A x \in Services : Runs(svc'[x]) => Runs(svc[x])
    BY <1>9 DEF ReloadModified, Runs, Service
  <2> QED
    BY <1>9, <2>1, QuietStep DEF ReloadModified
<1>10. ASSUME NEW i \in Ids, Finished(i) PROVE ExecutingHasCheck'
  <2>1. \A x \in Services : InFlight(x) => InFlight(x)'
    BY <1>10, NoneAssumption DEF Finished, InFlight, Flight
  <2> QED
    BY <1>10, <2>1, BackedDef, BackedDefPrime DEF Finished
<1>11. ASSUME NEW i \in Ids, Lose(i) PROVE ExecutingHasCheck'
  BY <1>11 DEF Lose, On
<1>12. ASSUME NEW i \in Ids, Merge(i) PROVE ExecutingHasCheck'
  <2> DEFINE r == flight[i].result
  <2>1. r \in Result /\ r.active
    BY <1>12 DEF Merge, Flight
  <2>2. /\ \A x \in Services : InQueue(toReap, x) => InQueue(toReap', x)
        /\ InQueue(toReap', r.svc)
    BY <1>12, <2>1, AppendQueue DEF Merge
  <2>3. \A x \in Services : InFlight(x) => InFlight(x)' \/ x = r.svc
    BY <1>12 DEF Merge, InFlight
  <2> QED
    BY <1>12, <2>2, <2>3, BackedDef, BackedDefPrime DEF Merge
<1>13. CASE BeginReap \/ Merged \/ EndReap
  BY <1>13, QuietStep DEF BeginReap, Merged, EndReap
<1>14. CASE HandleResult
  BY <1>14, HandleResultBacks
<1>15. CASE Orphans
  <2>1. \A s \in Services : ~[svc[s] EXCEPT !.executing = FALSE].executing
                            /\ [svc[s] EXCEPT !.executing = FALSE] \in Service
    BY ZenonT(60) DEF Service
  <2>4. \A s \in Services : ~Runs([svc[s] EXCEPT !.executing = FALSE])
    BY <2>1 DEF Runs
  <2>2. \A s \in Services :
          ~Runs(Schedule([svc[s] EXCEPT !.executing = FALSE], 0, {}))
    BY <2>1, <2>4, DatesFacts, OptionsFacts, ScheduleRuns
  <2>3. \A s \in Services : Runs(svc'[s]) => Runs(svc[s])
    BY <1>15, <2>2 DEF Orphans
  <2> QED
    BY <1>15, <2>3, QuietStep DEF Orphans
<1>16. CASE Freshness
  <2>1. \A s \in Services : [svc[s] EXCEPT !.freshening = TRUE] \in Service
          /\ (Runs([svc[s] EXCEPT !.freshening = TRUE]) => Runs(svc[s]))
    BY ZenonT(60) DEF Service, Runs
  <2>2. \A s \in Services :
          Runs(Schedule([svc[s] EXCEPT !.freshening = TRUE], 0, {"force", "fresh"}))
            => Runs(svc[s])
    BY <2>1, DatesFacts, OptionsFacts, ScheduleRuns
  <2>3. \A s \in Services : Runs(svc'[s]) => Runs(svc[s])
    BY <1>16, <2>2 DEF Freshness
  <2> QED
    BY <1>16, <2>3, QuietStep DEF Freshness
<1>17. CASE SwitchExecution
  BY <1>17, QuietStep DEF SwitchExecution
<1>18. CASE Tick
  <2>1. \A s \in Services : Runs(svc'[s]) => Runs(svc[s])
    BY <1>18 DEF Tick, Runs, Service
  <2>2. \A s \in Services : InFlight(s) => InFlight(s)'
    <3>1. \A i \in Ids : flight[i] # None =>
            /\ flight[i] \in Flight
            /\ flight'[i] = [flight[i] EXCEPT !.result.age = Older(@)]
      <4>1. \A i \in Ids : flight[i] # None => flight[i] \in Flight
        OBVIOUS
      <4> QED
        BY <1>18, <4>1 DEF Tick
    <3>2. \A i \in Ids : flight[i] # None =>
            flight'[i] # None /\ flight'[i].result.svc = flight[i].result.svc
      <4> TAKE i \in Ids
      <4> HAVE flight[i] # None
      <4>1. /\ [flight[i] EXCEPT !.result.age = Older(@)] \in Flight
            /\ [flight[i] EXCEPT !.result.age = Older(@)].result.svc
                 = flight[i].result.svc
        BY <3>1, AgedFlight
      <4>2. None \notin Flight
        BY NoneAssumption
      <4> QED
        BY <3>1, <4>1, <4>2
    <3> QED
      BY <3>2 DEF InFlight
  <2>3. \A s \in Services : InQueue(toReap, s) => InQueue(toReap', s)
    <3>1. /\ DOMAIN toReap' = DOMAIN toReap
          /\ \A k \in DOMAIN toReap : /\ toReap[k] \in Result
                                      /\ toReap'[k].svc = toReap[k].svc
                                      /\ toReap'[k].active = toReap[k].active
      <4>1. \A k \in DOMAIN toReap : toReap[k] \in Result
        BY LenProperties, ElementOfSeq
      <4> QED
        BY <1>18, <4>1 DEF Tick, Result
    <3> QED
      BY <3>1 DEF InQueue
  <2> QED
    BY <2>1, <2>2, <2>3, BackedDef, BackedDefPrime
<1>19. CASE UNCHANGED vars
  BY <1>19, QuietStep DEF vars
<1>20. ASSUME NEW m \in Services, CheckMaster(m) \/ SkipMaster(m)
       PROVE  ExecutingHasCheck'
  <2>1. CASE SkipMaster(m)
    BY <2>1, QuietStep DEF SkipMaster
  <2>2. CASE CheckMaster(m)
    <3>1. Launch(svc, m, {}, FALSE, counter, toReap)
      BY <2>2 DEF CheckMaster
    <3> QED
      BY <3>1, OptionsFacts, LaunchBacks, BackedDef
  <2> QED
    BY <1>20, <2>1, <2>2
<1> HIDE DEF TypeOK
<1> QED
  BY <1>1, <1>2, <1>3, <1>4, <1>5, <1>6, <1>7, <1>8, <1>9, <1>10, <1>11, <1>12,
     <1>13, <1>14, <1>15, <1>16, <1>17, <1>18, <1>19, <1>20 DEF Next, Reap

(* If no result is lost, a service marked as executing always has a check   *)
(* that will clear the mark: the orphan watchdog is needed for lost results *)
(* only.                                                                    *)
THEOREM ExecutingChecked ==
  ASSUME "lost" \notin Features
  PROVE  Spec => []ExecutingHasCheck
<1>1. Init => ExecutingHasCheck
  BY DEF Init, Fresh, ExecutingHasCheck
<1>2. TypeOK /\ ExecutingHasCheck /\ [Next]_vars => ExecutingHasCheck'
  BY ExecutingNext
<1> QED
  BY <1>1, <1>2, TypeCorrect, PTL DEF Spec

-----------------------------------------------------------------------------
(* Counting.  Outstanding is what CounterExact compares the counter with:   *)
(* the ids in use and the active results in the queue.                      *)

Used == {i \in Ids : flight[i] # None}
Active(q) == {k \in DOMAIN q : q[k].active}
Outstanding == Cardinality(Used) + Cardinality(Active(toReap))

LEMMA UsedFinite == IsFiniteSet(Used) /\ Cardinality(Used) \in Nat
<1>1. IsFiniteSet(Used)
  BY FS_Subset DEF Used
<1> QED
  BY <1>1, FS_CardinalityType

LEMMA ActiveFinite ==
  ASSUME NEW q \in Seq(Result)
  PROVE  IsFiniteSet(Active(q)) /\ Cardinality(Active(q)) \in Nat
<1>1. Len(q) \in Nat /\ DOMAIN q = 1 .. Len(q)
  BY LenProperties
<1>2. IsFiniteSet(1 .. Len(q))
  BY <1>1, FS_Interval
<1>3. IsFiniteSet(Active(q))
  BY <1>1, <1>2, FS_Subset DEF Active
<1> QED
  BY <1>3, FS_CardinalityType

(* A result that is appended counts if it is active,                        *)
LEMMA AppendCounts ==
  ASSUME NEW q \in Seq(Result), NEW r \in Result
  PROVE  Cardinality(Active(Append(q, r)))
           = Cardinality(Active(q)) + (IF r.active THEN 1 ELSE 0)
<1>1. /\ Len(q) \in Nat /\ DOMAIN q = 1 .. Len(q)
      /\ DOMAIN Append(q, r) = 1 .. Len(q) + 1
      /\ \A k \in 1 .. Len(q) : Append(q, r)[k] = q[k]
      /\ Append(q, r)[Len(q) + 1] = r
  BY LenProperties, AppendProperties
<1>2. r.active \in BOOLEAN
  BY DEF Result
<1>3. Active(Append(q, r)) = Active(q) \cup (IF r.active THEN {Len(q) + 1} ELSE {})
  BY <1>1, <1>2 DEF Active
<1>4. Len(q) + 1 \notin Active(q) /\ IsFiniteSet(Active(q)) /\ Cardinality(Active(q)) \in Nat
  <2>1. Active(q) \subseteq 1 .. Len(q)
    <3>1. DOMAIN q = 1 .. Len(q)
      BY <1>1
    <3> QED
      BY ONLY <3>1 DEF Active
  <2>2. Len(q) + 1 \notin 1 .. Len(q)
    <3>1. Len(q) \in Nat
      BY <1>1
    <3> QED
      BY ONLY <3>1
  <2>3. Len(q) + 1 \notin Active(q)
    BY ONLY <2>1, <2>2
  <2>4. IsFiniteSet(Active(q)) /\ Cardinality(Active(q)) \in Nat
    BY ActiveFinite
  <2> QED
    BY ONLY <2>3, <2>4
<1>5. Cardinality(Active(q) \cup {Len(q) + 1}) = Cardinality(Active(q)) + 1
  BY <1>4, FS_AddElement
<1>6. CASE r.active
  BY <1>3, <1>5, <1>6
<1>7. CASE ~r.active
  <2>1. Active(Append(q, r)) = Active(q)
    BY <1>3, <1>7
  <2> QED
    BY <1>4, <1>7, <2>1
<1> QED
  BY <1>2, <1>6, <1>7

(* and so does the one at the head, when it is taken.                       *)
LEMMA TailCounts ==
  ASSUME NEW q \in Seq(Result), q # <<>>
  PROVE  Cardinality(Active(q))
           = Cardinality(Active(Tail(q))) + (IF Head(q).active THEN 1 ELSE 0)
<1> DEFINE later == Active(q) \ {1}
           shift == [k \in Active(Tail(q)) |-> k + 1]
<1>1. /\ Len(q) \in Nat /\ Len(q) > 0 /\ DOMAIN q = 1 .. Len(q)
      /\ Head(q) = q[1] /\ Head(q) \in Result
      /\ Tail(q) \in Seq(Result) /\ Len(Tail(q)) = Len(q) - 1
      /\ \A k \in 1 .. Len(Tail(q)) : Tail(q)[k] = q[k + 1]
  BY LenProperties, HeadTailProperties, EmptySeq
<1>2. DOMAIN Tail(q) = 1 .. Len(q) - 1
  BY <1>1, LenProperties
<1>3. Active(Tail(q)) = {k \in 1 .. Len(q) - 1 : q[k + 1].active}
  BY <1>1, <1>2 DEF Active
<1>4. \A k \in Active(Tail(q)) : k \in Nat /\ k + 1 \in later
  BY <1>1, <1>3 DEF Active
<1>5. shift \in [Active(Tail(q)) -> later]
  BY <1>4
<1>6. shift \in Injection(Active(Tail(q)), later)
  BY <1>4, <1>5 DEF Injection, IsInjective
<1>7. ASSUME NEW n \in later PROVE \E k \in Active(Tail(q)) : shift[k] = n
  <2>1. n \in 2 .. Len(q) /\ q[n].active
    BY <1>1, <1>7 DEF Active
  <2>2. n - 1 \in Active(Tail(q)) /\ (n - 1) + 1 = n
    BY <1>1, <1>3, <2>1
  <2> QED
    BY <2>2
<1>8. shift \in Surjection(Active(Tail(q)), later)
  BY <1>5, <1>7 DEF Surjection
<1>9. ExistsBijection(Active(Tail(q)), later)
  BY <1>6, <1>8 DEF ExistsBijection, Bijection
<1>10. Cardinality(later) = Cardinality(Active(Tail(q)))
  BY <1>1, <1>9, ActiveFinite, FS_Bijection
<1>11. 1 \in Active(q) <=> Head(q).active
  BY <1>1 DEF Active
<1>12. Head(q).active \in BOOLEAN
  BY <1>1 DEF Result
<1>13. Cardinality(later) = IF Head(q).active THEN Cardinality(Active(q)) - 1
                                             ELSE Cardinality(Active(q))
  <2>1. IsFiniteSet(Active(q))
    BY ActiveFinite
  <2>2. Cardinality(Active(q) \ {1}) = IF 1 \in Active(q)
                                      THEN Cardinality(Active(q)) - 1
                                      ELSE Cardinality(Active(q))
    BY ONLY <2>1, FS_RemoveElement
  <2> QED
    BY ONLY <1>11, <1>12, <2>2
<1>14. Cardinality(Active(q)) \in Nat /\ Cardinality(Active(Tail(q))) \in Nat
  BY <1>1, ActiveFinite
<1> QED
  BY <1>10, <1>12, <1>13, <1>14

LEMMA OutstandingType == TypeOK => Outstanding \in Nat
BY UsedFinite, ActiveFinite DEF TypeOK, Outstanding

(* A launch adds one check to those of the queue it is given.               *)
LEMMA LaunchCounts ==
  ASSUME TypeOK, NEW S, NEW s \in Services, NEW o \in Options,
         NEW resched \in BOOLEAN, NEW n, NEW q \in Seq(Result),
         Launch(S, s, o, resched, n, q)
  PROVE  Outstanding' = Cardinality(Used) + Cardinality(Active(q)) + 1
<1> DEFINE r == Launched(s, o, resched)
<1>1. r \in Result /\ r.active
  BY AgesFacts DEF Launched, Result
<1>2. Cardinality(Active(q)) \in Nat /\ Cardinality(Used) \in Nat
  BY ActiveFinite, UsedFinite
<1>3. ASSUME NEW i \in Ids, flight[i] = None, toReap' = q,
             flight' = [flight EXCEPT ![i] = [result |-> r, done |-> FALSE]]
      PROVE  Outstanding' = Cardinality(Used) + Cardinality(Active(q)) + 1
  <2>1. [result |-> r, done |-> FALSE] # None
    <3>1. [result |-> r, done |-> FALSE] \in Flight
      BY <1>1 DEF Flight
    <3> QED
      BY <3>1, NoneAssumption
  <2>2. Used' = Used \cup {i} /\ i \notin Used
    BY <1>3, <2>1 DEF Used, TypeOK
  <2>3. Cardinality(Used') = Cardinality(Used) + 1
    BY <2>2, UsedFinite, FS_AddElement
  <2> QED
    BY <1>2, <1>3, <2>3 DEF Outstanding
<1>4. ASSUME toReap' = Append(q, r), UNCHANGED flight
      PROVE  Outstanding' = Cardinality(Used) + Cardinality(Active(q)) + 1
  <2>1. Used' = Used
    BY <1>4 DEF Used
  <2>2. Cardinality(Active(toReap')) = Cardinality(Active(q)) + 1
    BY <1>1, <1>4, AppendCounts
  <2> QED
    BY <1>2, <2>1, <2>2 DEF Outstanding
<1> QED
  BY <1>3, <1>4 DEF Launch

(* A step that leaves checks and counter alone. *)
LEMMA QuietCounts ==
  ASSUME UNCHANGED <<flight, toReap>>
  PROVE  Outstanding' = Outstanding
BY DEF Outstanding, Used, Active

(* A step counts what it does to Outstanding: no check is outstanding that  *)
(* the counter misses, and without reloads and losses it counts no other.   *)
AllLive == \A s \in Services : svc[s].live
CounterCovers == counter >= Outstanding
Counted ==
  /\ CounterCovers'
  /\ (AllLive /\ "lost" \notin Features /\ counter = Outstanding)
       => counter' = Outstanding'

LEMMA QuietCounted ==
  ASSUME CounterCovers, UNCHANGED <<flight, toReap, counter>>
  PROVE  Counted
BY QuietCounts DEF Counted, CounterCovers

LEMMA HandleResultCounts ==
  ASSUME TypeOK, CounterCovers, HandleResult
  PROVE  Counted
<1>1. toReap \in Seq(Result) /\ toReap # <<>> /\ counter \in Nat
  BY DEF HandleResult, TypeOK
<1> DEFINE r == Head(toReap)
           rest == Cardinality(Used) + Cardinality(Active(Tail(toReap)))
<1>2. r \in Result /\ Tail(toReap) \in Seq(Result)
  BY <1>1, HeadTailProperties
<1>3. /\ Cardinality(Used) \in Nat
      /\ Cardinality(Active(Tail(toReap))) \in Nat
      /\ r.active \in BOOLEAN /\ r.svc \in Services
  BY <1>2, UsedFinite, ActiveFinite DEF Result
<1>4. Outstanding = rest + (IF r.active THEN 1 ELSE 0) /\ rest \in Nat
  BY <1>1, <1>3, TailCounts DEF Outstanding
<1>5. Uncounted(r) \in Nat /\ Uncounted(r) >= rest
      /\ (counter = Outstanding => Uncounted(r) = rest)
  BY <1>1, <1>3, <1>4 DEF Uncounted, CounterCovers
<1>6. Outstanding' = rest
  BY DEF HandleResult, Outstanding, Used
<1>7. CASE (~svc[r.svc].live \/ ~r.active) /\ UNCHANGED counter
  BY <1>1, <1>3, <1>4, <1>6, <1>7 DEF Counted, AllLive, CounterCovers
<1>8. CASE counter' = Uncounted(r)
  BY <1>5, <1>6, <1>8 DEF Counted, CounterCovers
<1> QED
  BY <1>7, <1>8 DEF HandleResult

LEMMA CountStep ==
  ASSUME TypeOK, CounterCovers, "orphans" \notin Features, [Next]_vars
  PROVE  Counted
<1>0. /\ flight \in [Ids -> Flight \cup {None}] /\ toReap \in Seq(Result)
      /\ svc \in [Services -> Service] /\ counter \in Nat
      /\ Outstanding \in Nat /\ Cardinality(Used) \in Nat
      /\ Cardinality(Active(toReap)) \in Nat /\ IsFiniteSet(Used)
  BY OutstandingType, UsedFinite, ActiveFinite DEF TypeOK
<1>1. ASSUME NEW s \in Services, RunEvent(s) PROVE Counted
  <2>1. svc[s].event.opts \in Options
    BY <1>0, <1>1 DEF RunEvent, Due, Armed, Service, Event
  <2>2. PICK S : Launch(S, s, svc[s].event.opts, TRUE, counter, toReap)
    BY <1>1 DEF RunEvent
  <2>3. Outstanding' = Outstanding + 1
    BY <1>0, <2>1, <2>2, LaunchCounts DEF Outstanding
  <2>4. counter' = counter + 1
    BY <2>2 DEF Launch
  <2> QED
    BY <1>0, <2>3, <2>4 DEF Counted, CounterCovers
<1>2. ASSUME NEW s \in Services,
             \/ NotViable(s) \/ Nudge(s) \/ ScheduleCommand(s)
             \/ DisableChecks(s) \/ EnableChecks(s)
             \/ Reload(s) \/ ReloadModified(s)
      PROVE  Counted
  BY <1>2, QuietCounted DEF NotViable, Nudge, ScheduleCommand, DisableChecks,
                            EnableChecks, Reload, ReloadModified
<1>3. ASSUME NEW s \in Services, PassiveResult(s) PROVE Counted
  <2> DEFINE r == [svc |-> s, opts |-> {}, resched |-> FALSE,
                   active |-> FALSE, age |-> 0]
  <2>1. r \in Result /\ ~r.active
    BY OptionsFacts, AgesFacts DEF Result
  <2>2. toReap' = Append(toReap, r) /\ UNCHANGED <<flight, counter>>
    BY <1>3 DEF PassiveResult
  <2>3. Cardinality(Active(toReap')) = Cardinality(Active(toReap))
    BY <1>0, <2>1, <2>2, AppendCounts
  <2>4. Outstanding' = Outstanding
    BY <2>2, <2>3 DEF Outstanding, Used
  <2> QED
    BY <2>2, <2>4 DEF Counted, CounterCovers
<1>4. ASSUME NEW i \in Ids, Finished(i) PROVE Counted
  <2>1. [flight[i] EXCEPT !.done = TRUE] \in Flight
    BY <1>0, <1>4 DEF Finished, Flight
  <2>2. Used' = Used
    BY <1>0, <1>4, <2>1, NoneAssumption DEF Finished, Used
  <2> QED
    BY <1>4, <2>2 DEF Finished, Counted, CounterCovers, Outstanding
<1>5. ASSUME NEW i \in Ids, Lose(i) PROVE Counted
  <2>1. Used' = Used \ {i} /\ i \in Used
    BY <1>0, <1>5 DEF Lose, Used
  <2>2. Cardinality(Used') = Cardinality(Used) - 1
    BY <1>0, <2>1, FS_RemoveElement
  <2>3. Outstanding' = Outstanding - 1
    BY <1>0, <1>5, <2>2 DEF Lose, Outstanding
  <2> QED
    BY <1>0, <1>5, <2>3 DEF Lose, Counted, CounterCovers, On
<1>6. ASSUME NEW i \in Ids, Merge(i) PROVE Counted
  <2>1. flight[i].result \in Result /\ flight[i].result.active
    BY <1>0, <1>6 DEF Merge, Flight
  <2>2. Used' = Used \ {i} /\ i \in Used
    BY <1>0, <1>6 DEF Merge, Used
  <2>3. Cardinality(Used') = Cardinality(Used) - 1
    BY <1>0, <2>2, FS_RemoveElement
  <2>4. Cardinality(Active(toReap')) = Cardinality(Active(toReap)) + 1
    BY <1>0, <1>6, <2>1, AppendCounts DEF Merge
  <2>5. Outstanding' = Outstanding
    BY <1>0, <2>3, <2>4 DEF Outstanding
  <2> QED
    BY <1>6, <2>5 DEF Merge, Counted, CounterCovers
<1>7. CASE BeginReap \/ Merged \/ EndReap \/ Freshness \/ SwitchExecution
           \/ UNCHANGED vars
  BY <1>7, QuietCounted DEF BeginReap, Merged, EndReap, Freshness,
                            SwitchExecution, vars
<1>8. CASE HandleResult
  BY <1>8, HandleResultCounts
<1>9. CASE Orphans
  BY <1>9 DEF Orphans, On
<1>10. CASE Tick
  <2>1. \A i \in Ids : flight'[i] # None <=> flight[i] # None
    <3> TAKE i \in Ids
    <3>1. CASE flight[i] = None
      BY <1>10, <3>1 DEF Tick
    <3>2. CASE flight[i] # None
      <4>1. flight[i] \in Flight
        BY <1>0, <3>2
      <4>2. [flight[i] EXCEPT !.result.age = Older(@)] \in Flight
        BY <4>1, AgedFlight
      <4> QED
        BY <1>10, <3>2, <4>2, NoneAssumption DEF Tick
    <3> QED
      BY <3>1, <3>2
  <2>2. \A k \in DOMAIN toReap : toReap[k] \in Result
    BY <1>0, LenProperties, ElementOfSeq
  <2>3. /\ DOMAIN toReap' = DOMAIN toReap
        /\ \A k \in DOMAIN toReap : toReap'[k].active = toReap[k].active
    BY <1>10, <2>2 DEF Tick, Result
  <2>4. Active(toReap') = Active(toReap)
    BY <2>3 DEF Active
  <2>5. Used' = Used
    BY <2>1 DEF Used
  <2> QED
    BY <1>10, <2>4, <2>5 DEF Tick, Counted, CounterCovers, Outstanding
<1>11. ASSUME NEW m \in Services, CheckMaster(m) PROVE Counted
  <2>1. Launch(svc, m, {}, FALSE, counter, toReap)
    BY <1>11 DEF CheckMaster
  <2>2. Outstanding' = Outstanding + 1
    BY <1>0, <2>1, OptionsFacts, LaunchCounts DEF Outstanding
  <2>3. counter' = counter + 1
    BY <2>1 DEF Launch
  <2> QED
    BY <1>0, <2>2, <2>3 DEF Counted, CounterCovers
<1>12. ASSUME NEW m \in Services, SkipMaster(m) PROVE Counted
  BY <1>12, QuietCounted DEF SkipMaster
<1> QED
  BY <1>1, <1>2, <1>3, <1>4, <1>5, <1>6, <1>7, <1>8, <1>9, <1>10, <1>11, <1>12
     DEF Next, Reap

-----------------------------------------------------------------------------
(* One service through one step.  Four properties need to know what a step  *)
(* does to the event, the options and the dates of a service; Tame says it  *)
(* for all of them.                                                         *)

Obliged(v) == v.live /\ v.should

\* the options that users and the freshness watchdog ask for
Requestable ==
  {x \in {"force", "fresh"} :
     "freshness" \in Features \/ (x = "force" /\ "schedule" \in Features)}
Requested(v) == /\ v.options \subseteq Requestable
                /\ v.event # None => v.event.opts \subseteq Requestable

\* no event is lost, and what should be scheduled can be
Kept(v, w) ==
  Obliged(w) =>
    /\ w.enabled
    /\ \/ w.event # None
       \/ /\ Obliged(v) /\ v.event = None
          /\ w.executing = v.executing /\ w.freshening = v.freshening

\* next_check is the date of the event, which is not overdue
OnTime(v) ==
  v.live => /\ v.enabled /\ v.should
            /\ v.event # None => v.next = v.event.due /\ v.next >= -MaxLate

\* what OnTime and NoFalseOrphan suppose
Recurrent == OneShot = {} /\ "switch" \notin Features

Tame(v, w) ==
  /\ "reload" \notin Features => w.live = v.live
  /\ Requested(v) => Requested(w)
  /\ (Obliged(v) => v.enabled) => Kept(v, w)
  /\ Recurrent /\ OnTime(v) =>
       /\ OnTime(w)
       /\ w.live /\ w.executing =>
            v.live /\ v.executing /\ (w.next = v.next \/ w.next >= -MaxLate)

(* schedule_service_check: nothing, or an event, the old or the new one.    *)
LEMMA ScheduleShape ==
  ASSUME NEW v \in Service, NEW t \in Dates, NEW o \in Options
  PROVE  LET w == Schedule(v, t, o) IN
         /\ w \in Service
         /\ w.live = v.live /\ w.executing = v.executing
         /\ w.freshening = v.freshening /\ w.should = v.should
         /\ w.enabled = v.enabled
         /\ \/ ~v.enabled /\ "force" \notin o /\ w = v
            \/ /\ w.options = o /\ w.event # None /\ w.next = w.event.due
               /\ \/ w.event = v.event
                  \/ w.event.opts = o /\ w.event.due = t
<1>1. [opts |-> o, due |-> t] # None
  <2>1. [opts |-> o, due |-> t] \in Event
    BY DEF Event
  <2> QED
    BY <2>1, NoneAssumption
<1>2. CASE ~v.enabled /\ "force" \notin o
  BY <1>2 DEF Schedule
<1>3. CASE /\ v.enabled \/ "force" \in o
           /\ v.event = None \/ Supersedes(o, t, v.event)
  <2> DEFINE w == [v EXCEPT !.options = o, !.next = t, !.event = [opts |-> o, due |-> t]]
  <2>1. Schedule(v, t, o) = w
    BY <1>3 DEF Schedule
  <2>2. w \in Service /\ w.options = o /\ w.next = t /\ w.event = [opts |-> o, due |-> t]
        /\ w.live = v.live /\ w.executing = v.executing
        /\ w.freshening = v.freshening /\ w.should = v.should
        /\ w.enabled = v.enabled
    BY DEF Service, Event
  <2> HIDE DEF w
  <2> QED
    BY <1>1, <2>1, <2>2
<1>4. CASE /\ v.enabled \/ "force" \in o
           /\ ~(v.event = None \/ Supersedes(o, t, v.event))
  <2> DEFINE w == [v EXCEPT !.options = o, !.next = v.event.due]
  <2>1. Schedule(v, t, o) = w
    BY <1>4 DEF Schedule
  <2>2. v.event \in Event
    BY <1>4 DEF Service
  <2>3. w \in Service /\ w.options = o /\ w.next = v.event.due /\ w.event = v.event
        /\ w.live = v.live /\ w.executing = v.executing
        /\ w.freshening = v.freshening /\ w.should = v.should
        /\ w.enabled = v.enabled
    BY <2>2 DEF Service, Event
  <2> HIDE DEF w
  <2> QED
    BY <1>4, <2>1, <2>3
<1> QED
  BY <1>2, <1>3, <1>4

(* Scheduling at a date that is not past is tame, whoever asks for it.      *)
LEMMA ScheduleTame ==
  ASSUME NEW v \in Service, NEW t \in 0 .. MaxDelay, NEW o \in Options,
         o \subseteq Requestable
  PROVE  Tame(v, Schedule(v, t, o))
<1> DEFINE w == Schedule(v, t, o)
<1>1. t \in Dates /\ t >= 0 /\ t >= -MaxLate
  BY DatesFacts
<1>2. /\ w \in Service
      /\ w.live = v.live /\ w.executing = v.executing
      /\ w.freshening = v.freshening /\ w.should = v.should
      /\ w.enabled = v.enabled
      /\ \/ ~v.enabled /\ "force" \notin o /\ w = v
         \/ /\ w.options = o /\ w.event # None /\ w.next = w.event.due
            /\ \/ w.event = v.event
               \/ w.event.opts = o /\ w.event.due = t
  BY <1>1, ScheduleShape
<1> HIDE DEF w
<1>3. v.live \in BOOLEAN /\ v.executing \in BOOLEAN /\ v.should \in BOOLEAN
  BY DEF Service
<1>4. Requested(v) => Requested(w)
  BY <1>2 DEF Requested
<1>5. (Obliged(v) => v.enabled) => Kept(v, w)
  BY <1>2 DEF Obliged, Kept
<1>6. Recurrent /\ OnTime(v) =>
        /\ OnTime(w)
        /\ w.live /\ w.executing =>
             v.live /\ v.executing /\ (w.next = v.next \/ w.next >= -MaxLate)
  BY <1>1, <1>2 DEF OnTime
<1> QED
  BY <1>2, <1>4, <1>5, <1>6 DEF Tame, w

LEMMA SameTame == ASSUME NEW v \in Service PROVE Tame(v, v)
<1>1. v.live \in BOOLEAN /\ v.executing \in BOOLEAN
  BY DEF Service
<1> QED
  BY DEF Tame, Kept, Obliged

LEMMA NotViableTame ==
  ASSUME TypeOK, NEW s \in Services, NotViable(s)
  PROVE  Tame(svc[s], svc'[s])
<1> DEFINE e == svc[s].event
           v == [svc[s] EXCEPT !.event = None]
<1>1. svc[s] \in Service /\ e \in Event /\ e.opts \in Options
      /\ svc \in [Services -> Service]
  BY DEF NotViable, Due, Armed, TypeOK, Service, Event
<1>2. /\ v \in Service /\ v.event = None
      /\ v.live = svc[s].live /\ v.should = svc[s].should
      /\ v.enabled = svc[s].enabled /\ v.executing = svc[s].executing
      /\ v.freshening = svc[s].freshening /\ v.options = svc[s].options
      /\ v.should \in BOOLEAN
  BY <1>1 DEF Service
<1>3. ASSUME v.should, NEW d \in 1 .. MaxDelay,
             svc' = [svc EXCEPT ![s] = Schedule([v EXCEPT !.next = d], d, e.opts)]
      PROVE  Tame(svc[s], svc'[s])
  <2> DEFINE u == [v EXCEPT !.next = d]
             w == Schedule(u, d, e.opts)
  <2>1. d \in Dates /\ d >= -MaxLate
    BY DatesFacts
  <2>2. /\ u \in Service /\ u.event = None
        /\ u.live = v.live /\ u.should = v.should
        /\ u.enabled = v.enabled /\ u.executing = v.executing
        /\ u.freshening = v.freshening /\ u.options = v.options
    BY <1>2, <2>1 DEF Service
  <2> HIDE DEF u, v, e
  <2>3. /\ w.live = u.live /\ w.executing = u.executing
        /\ w.freshening = u.freshening /\ w.should = u.should
        /\ w.enabled = u.enabled
        /\ \/ ~u.enabled /\ "force" \notin e.opts /\ w = u
           \/ /\ w.options = e.opts /\ w.event # None /\ w.next = w.event.due
              /\ \/ w.event = u.event
                 \/ w.event.opts = e.opts /\ w.event.due = d
    BY <1>1, <2>1, <2>2, ScheduleShape
  <2>4. svc'[s] = w
    BY <1>1, <1>3 DEF u, v, e
  <2> HIDE DEF w
  <2>5. Requested(svc[s]) => Requested(w)
    BY <1>1, <1>2, <2>2, <2>3, NoneAssumption DEF Requested, e
  <2>6. (Obliged(svc[s]) => svc[s].enabled) => Kept(svc[s], w)
    BY <1>2, <1>3, <2>2, <2>3 DEF Obliged, Kept
  <2>7. OnTime(svc[s]) =>
          /\ OnTime(w)
          /\ w.live /\ w.executing =>
               svc[s].live /\ svc[s].executing
               /\ (w.next = svc[s].next \/ w.next >= -MaxLate)
    BY <1>2, <1>3, <2>1, <2>2, <2>3 DEF OnTime
  <2> QED
    BY <1>2, <2>2, <2>3, <2>4, <2>5, <2>6, <2>7 DEF Tame
<1>4. ASSUME ~v.should, svc' = [svc EXCEPT ![s] = v]
      PROVE  Tame(svc[s], svc'[s])
  <2>1. svc'[s] = v
    BY <1>1, <1>4
  <2> HIDE DEF v
  <2>2. svc[s].next = v.next
    BY <1>1 DEF v, Service
  <2> QED
    BY <1>2, <1>4, <2>1, <2>2 DEF Tame, Requested, Obliged, Kept, OnTime
<1> QED
  BY <1>2, <1>3, <1>4 DEF NotViable

LEMMA NudgeTame ==
  ASSUME TypeOK, NEW s \in Services, Nudge(s)
  PROVE  Tame(svc[s], svc'[s])
<1>1. PICK d \in IF ~Saturated /\ s \in OneShot THEN {0} ELSE 1 .. MaxDelay :
        /\ svc[s].next + d <= MaxDelay
        /\ svc' = [svc EXCEPT ![s] = Moved(svc[s], svc[s].next + d)]
  BY DEF Nudge
<1>2. svc[s] \in Service /\ svc[s].event \in Event /\ d \in Nat
      /\ svc[s].next \in Dates /\ svc[s].event # None
  BY <1>1 DEF Nudge, Due, Armed, TypeOK, Service
<1> DEFINE t == svc[s].next + d
           w == Moved(svc[s], t)
<1>3. t \in Dates /\ t >= svc[s].next
  BY <1>1, <1>2 DEF Dates, Past
<1> HIDE DEF t
<1>4. [opts |-> svc[s].event.opts, due |-> t] \in Event
  BY <1>2, <1>3 DEF Event
<1>5. [opts |-> svc[s].event.opts, due |-> t] # None
  BY <1>4, NoneAssumption
<1>6. /\ w.live = svc[s].live /\ w.should = svc[s].should
      /\ w.enabled = svc[s].enabled /\ w.executing = svc[s].executing
      /\ w.freshening = svc[s].freshening /\ w.options = svc[s].options
      /\ w.event = [opts |-> svc[s].event.opts, due |-> t] /\ w.next = t
  BY <1>2, <1>4 DEF Moved, Service
<1>7. svc'[s] = w
  BY <1>1 DEF t, TypeOK
<1> HIDE DEF w
<1>8. t \in Int /\ svc[s].next \in Int
  BY <1>2, <1>3 DEF Dates, Past
<1>9. Requested(svc[s]) => Requested(w)
  BY <1>2, <1>6 DEF Requested
<1>10. (Obliged(svc[s]) => svc[s].enabled) => Kept(svc[s], w)
  BY <1>5, <1>6 DEF Obliged, Kept
<1>11. OnTime(svc[s]) =>
         /\ OnTime(w)
         /\ w.live /\ w.executing =>
              svc[s].live /\ svc[s].executing
              /\ (w.next = svc[s].next \/ w.next >= -MaxLate)
  BY <1>2, <1>3, <1>6, <1>8 DEF OnTime
<1> QED
  BY <1>6, <1>7, <1>9, <1>10, <1>11 DEF Tame

LEMMA EnabledTame ==
  ASSUME NEW v \in Service, NEW u \in Service, NEW t \in Dates, ~Recurrent,
         u.enabled = TRUE, u.live = v.live, u.options = v.options, u.event = v.event
  PROVE  Tame(v, Schedule(u, t, {}))
<1>1. ASSUME NEW o \in Options, o = {}
      PROVE  Tame(v, Schedule(u, t, o))
  <2> DEFINE w == Schedule(u, t, o)
  <2>1. /\ w \in Service
        /\ w.live = u.live /\ w.executing = u.executing
        /\ w.freshening = u.freshening /\ w.should = u.should
        /\ w.enabled = u.enabled
        /\ \/ ~u.enabled /\ "force" \notin o /\ w = u
           \/ /\ w.options = o /\ w.event # None /\ w.next = w.event.due
              /\ \/ w.event = u.event
                 \/ w.event.opts = o /\ w.event.due = t
    BY <1>1, ScheduleShape
  <2> HIDE DEF w
  <2>2. w.live = v.live /\ w.enabled /\ w.event # None
    BY <2>1
  <2>3. Requested(v) => Requested(w)
    BY <1>1, <2>1, <2>2 DEF Requested
  <2> QED
    BY <2>2, <2>3 DEF Tame, Kept, Obliged, w
<1> QED
  BY <1>1, OptionsFacts

LEMMA SwitchTame ==
  ASSUME TypeOK, NEW s \in Services, DisableChecks(s) \/ EnableChecks(s)
  PROVE  Tame(svc[s], svc'[s])
<1>1. svc[s] \in Service /\ svc \in [Services -> Service]
  BY DEF TypeOK
<1>2. ~Recurrent
  BY DEF DisableChecks, EnableChecks, On, Recurrent
<1>3. CASE DisableChecks(s)
  <2> DEFINE w == [svc[s] EXCEPT !.enabled = FALSE, !.should = FALSE]
  <2>1. svc'[s] = w
    BY <1>1, <1>3 DEF DisableChecks
  <2>2. w.live = svc[s].live /\ w.options = svc[s].options
        /\ w.event = svc[s].event /\ ~w.should
    BY <1>1 DEF Service
  <2> HIDE DEF w
  <2> QED
    BY <1>2, <2>1, <2>2 DEF Tame, Requested, Kept, Obliged
<1>4. CASE EnableChecks(s)
  <2> DEFINE v(d) == [svc[s] EXCEPT !.enabled = TRUE, !.should = s \notin OneShot,
                                    !.next = d]
  <2>1. PICK d \in 0 .. MaxDelay :
          svc' = [svc EXCEPT ![s] = IF v(d).should THEN Schedule(v(d), d, {}) ELSE v(d)]
    BY <1>4 DEF EnableChecks
  <2> DEFINE u == v(d)
  <2>2. d \in Dates /\ {} \in Options
    BY DatesFacts, OptionsFacts
  <2>3. u \in Service /\ u.live = svc[s].live /\ u.options = svc[s].options
        /\ u.event = svc[s].event /\ u.enabled = TRUE
    BY <1>1, <2>2 DEF Service
  <2>4. svc'[s] = IF u.should THEN Schedule(u, d, {}) ELSE u
    BY <1>1, <2>1
  <2> HIDE DEF u, v
  <2>5. ~u.should => Tame(svc[s], u)
    BY <1>2, <2>3 DEF Tame, Requested, Kept, Obliged
  <2>6. Tame(svc[s], Schedule(u, d, {}))
    BY <1>1, <1>2, <2>2, <2>3, EnabledTame
  <2> QED
    BY <2>4, <2>5, <2>6
<1> QED
  BY <1>3, <1>4

LEMMA ReloadTame ==
  ASSUME TypeOK, NEW s \in Services, Reload(s) \/ ReloadModified(s)
  PROVE  Tame(svc[s], svc'[s])
<1>1. svc[s] \in Service /\ svc \in [Services -> Service]
  BY DEF TypeOK
<1>2. \A o \in Options, d \in Dates : [opts |-> o, due |-> d] # None
  <2>1. \A o \in Options, d \in Dates : [opts |-> o, due |-> d] \in Event
    BY DEF Event
  <2> QED
    BY <2>1, NoneAssumption
<1>3. CASE Reload(s)
  <2>1. "reload" \in Features
    BY <1>3 DEF Reload, On
  <2>2. CASE svc'[s] = Gone(s)
    <3>1. ~Gone(s).live /\ Gone(s).options = {} /\ Gone(s).event = None
      BY DEF Gone, Fresh
    <3> QED
      BY <2>1, <2>2, <3>1 DEF Tame, Requested, Kept, Obliged, OnTime
  <2>3. CASE svc'[s] = Fresh(s, 0)
    <3> DEFINE w == Fresh(s, 0)
    <3>1. /\ w.options = {} /\ w.enabled /\ ~w.executing
          /\ w.event = IF s \in OneShot THEN None ELSE [opts |-> {}, due |-> 0]
          /\ w.next = IF s \in OneShot THEN Past ELSE 0
          /\ w.should = (s \notin OneShot)
      BY DEF Fresh
    <3>2. s \notin OneShot => w.event # None
      BY <1>2, <3>1, DatesFacts, OptionsFacts
    <3>3. svc'[s] = w
      BY <2>3
    <3>7. s \notin OneShot => w.event.due = w.next /\ w.next >= -MaxLate
      BY <3>1
    <3> HIDE DEF w
    <3>4. Requested(w)
      BY <3>1 DEF Requested
    <3>5. Kept(svc[s], w)
      BY <3>1, <3>2 DEF Kept, Obliged
    <3>6. Recurrent => OnTime(w)
      BY <3>1, <3>7 DEF OnTime, Recurrent
    <3> QED
      BY <2>1, <3>1, <3>3, <3>4, <3>5, <3>6 DEF Tame
  <2> QED
    BY <1>1, <1>3, <2>2, <2>3 DEF Reload
<1>4. CASE ReloadModified(s)
  <2> DEFINE v(d) == [svc[s] EXCEPT !.event = [opts |-> svc[s].options, due |-> d],
                                    !.next = d, !.should = TRUE]
  <2>1. PICK d \in 0 .. MaxDelay : svc' = [svc EXCEPT ![s] = v(d)]
    BY <1>4 DEF ReloadModified
  <2> DEFINE w == v(d)
  <2>2. d \in Dates /\ d >= -MaxLate
    BY DatesFacts
  <2>6. svc[s].options \in Options /\ svc[s].live /\ svc[s].enabled
    BY <1>1, <1>4 DEF Service, ReloadModified
  <2>3. /\ w.live = svc[s].live /\ w.options = svc[s].options
        /\ w.event = [opts |-> svc[s].options, due |-> d] /\ w.next = d
        /\ w.enabled = svc[s].enabled /\ w.should
        /\ w.executing = svc[s].executing
    BY <1>1 DEF Service
  <2>4. w.event # None
    BY <1>2, <2>2, <2>3, <2>6
  <2>5. svc'[s] = w
    BY <1>1, <2>1
  <2> HIDE DEF w
  <2>7. Requested(svc[s]) => Requested(w)
    BY <2>3 DEF Requested
  <2>8. Kept(svc[s], w) /\ OnTime(w)
    BY <2>2, <2>3, <2>4, <2>6 DEF Kept, Obliged, OnTime
  <2> QED
    BY <2>2, <2>3, <2>5, <2>6, <2>7, <2>8 DEF Tame
<1> QED
  BY <1>3, <1>4

\* a watchdog changes one flag of a service and schedules its check now
LEMMA WatchdogTame ==
  ASSUME NEW v \in Service, NEW u \in Service, NEW o \in Options,
         u.live = v.live, u.should = v.should, u.enabled = v.enabled,
         u.options = v.options, u.event = v.event, u.next = v.next,
         u.executing => v.executing,
         o \subseteq Requestable
  PROVE  Tame(v, Schedule(u, 0, o))
<1> DEFINE w == Schedule(u, 0, o)
<1>1. /\ w.live = u.live /\ w.executing = u.executing /\ w.should = u.should
      /\ w.enabled = u.enabled
      /\ \/ ~u.enabled /\ "force" \notin o /\ w = u
         \/ /\ w.options = o /\ w.event # None /\ w.next = w.event.due
            /\ \/ w.event = u.event
               \/ w.event.opts = o /\ w.event.due = 0
  BY DatesFacts, ScheduleShape
<1> HIDE DEF w
<1>2. 0 >= -MaxLate /\ v.live \in BOOLEAN /\ v.should \in BOOLEAN
  BY DEF Service
<1>3. (Obliged(v) => v.enabled) => Kept(v, w)
  BY <1>1, <1>2 DEF Kept, Obliged
<1>4. Requested(v) => Requested(w)
  BY <1>1 DEF Requested
<1>5. OnTime(v) =>
        /\ OnTime(w)
        /\ w.live /\ w.executing =>
             v.live /\ v.executing /\ (w.next = v.next \/ w.next >= -MaxLate)
  BY <1>1, <1>2 DEF OnTime
<1> QED
  BY <1>1, <1>3, <1>4, <1>5 DEF Tame, w

(* The steps that neither start nor end a check.                            *)
Quiet ==
  \/ \E s \in Services :
       \/ NotViable(s) \/ Nudge(s) \/ ScheduleCommand(s)
       \/ DisableChecks(s) \/ EnableChecks(s)
       \/ Reload(s) \/ ReloadModified(s)
       \/ SkipMaster(s)
  \/ Orphans \/ Freshness
  \/ BeginReap \/ Merged \/ EndReap \/ SwitchExecution \/ UNCHANGED vars

LEMMA QuietTame ==
  ASSUME TypeOK, Quiet
  PROVE  /\ UNCHANGED <<flight, toReap>>
         /\ \A s \in Services : Tame(svc[s], svc'[s])
<1>0. svc \in [Services -> Service] /\ \A s \in Services : svc[s] \in Service
  BY DEF TypeOK
<1>1. ASSUME NEW s \in Services,
             \/ NotViable(s) \/ Nudge(s) \/ ScheduleCommand(s)
             \/ DisableChecks(s) \/ EnableChecks(s)
             \/ Reload(s) \/ ReloadModified(s)
      PROVE  /\ UNCHANGED <<flight, toReap>>
             /\ \A x \in Services : Tame(svc[x], svc'[x])
  <2>1. UNCHANGED <<flight, toReap>> /\ \A x \in Services \ {s} : svc'[x] = svc[x]
    BY <1>0, <1>1 DEF NotViable, Nudge, ScheduleCommand, DisableChecks,
                      EnableChecks, Reload, ReloadModified
  <2>2. CASE ScheduleCommand(s)
    <3>1. PICK o \in {{}, {"force"}}, t \in 0 .. MaxDelay :
            svc' = [svc EXCEPT ![s] = Schedule(svc[s], t, o)]
      BY <2>2 DEF ScheduleCommand
    <3>2. o \subseteq Requestable /\ o \in Options
      BY <2>2, OptionsFacts DEF ScheduleCommand, On, Requestable
    <3>3. Tame(svc[s], Schedule(svc[s], t, o))
      BY <1>0, <3>2, ScheduleTame
    <3> QED
      BY <1>0, <2>1, <3>1, <3>3, SameTame
  <2>3. CASE ~ScheduleCommand(s)
    <3>1. Tame(svc[s], svc'[s])
      BY <1>1, <2>3, NotViableTame, NudgeTame, SwitchTame, ReloadTame
    <3> QED
      BY <1>0, <2>1, <3>1, SameTame
  <2> QED
    BY <2>2, <2>3
<1>2. CASE Orphans
  <2>1. ASSUME NEW s \in Services
        PROVE  Tame(svc[s], Schedule([svc[s] EXCEPT !.executing = FALSE], 0, {}))
    <3> DEFINE u == [svc[s] EXCEPT !.executing = FALSE]
    <3>1. u \in Service /\ u.live = svc[s].live /\ u.should = svc[s].should
          /\ u.enabled = svc[s].enabled /\ u.options = svc[s].options
          /\ u.event = svc[s].event /\ u.next = svc[s].next /\ ~u.executing
      BY <1>0 DEF Service
    <3> HIDE DEF u
    <3> QED
      BY <1>0, <3>1, OptionsFacts, WatchdogTame DEF u
  <2> QED
    BY <1>0, <1>2, <2>1, SameTame DEF Orphans
<1>3. CASE Freshness
  <2>1. ASSUME NEW s \in Services
        PROVE  Tame(svc[s], Schedule([svc[s] EXCEPT !.freshening = TRUE], 0,
                                     {"force", "fresh"}))
    <3> DEFINE u == [svc[s] EXCEPT !.freshening = TRUE]
    <3>1. u \in Service /\ u.live = svc[s].live /\ u.should = svc[s].should
          /\ u.enabled = svc[s].enabled /\ u.options = svc[s].options
          /\ u.event = svc[s].event /\ u.next = svc[s].next
          /\ u.executing = svc[s].executing
      BY <1>0 DEF Service
    <3>2. {"force", "fresh"} \subseteq Requestable
      <4>1. "freshness" \in Features
        BY <1>3 DEF Freshness, On
      <4> QED
        BY <4>1 DEF Requestable
    <3> HIDE DEF u
    <3> QED
      BY <1>0, <3>1, <3>2, OptionsFacts, WatchdogTame DEF u
  <2> QED
    BY <1>0, <1>3, <2>1, SameTame DEF Freshness
<1>4. CASE \/ BeginReap \/ Merged \/ EndReap \/ SwitchExecution \/ UNCHANGED vars
           \/ \E m \in Services : SkipMaster(m)
  BY <1>0, <1>4, SameTame DEF BeginReap, Merged, EndReap, SwitchExecution,
                              SkipMaster, vars
<1> QED
  BY <1>1, <1>2, <1>3, <1>4 DEF Quiet

(* The check of a service starts: its event and its options are used up.    *)
LEMMA RunEventShape ==
  ASSUME TypeOK, NEW s \in Services, RunEvent(s)
  PROVE  LET w == svc'[s] IN
         /\ \A x \in Services \ {s} : svc'[x] = svc[x]
         /\ w.event = None /\ w.options = {} /\ w.next = svc[s].next
         /\ w.live = svc[s].live /\ w.should = svc[s].should
         /\ w.enabled = svc[s].enabled
<1>1. svc[s] \in Service /\ svc \in [Services -> Service]
  BY DEF TypeOK
<1> DEFINE v == [svc[s] EXCEPT !.event = None, !.options = {}]
           w == [v EXCEPT !.executing = TRUE]
<1>2. svc' = [[svc EXCEPT ![s] = v] EXCEPT ![s].executing = TRUE]
  BY DEF RunEvent, Launch
<1>3. svc' = [svc EXCEPT ![s] = w]
  BY <1>1, <1>2
<1>4. w.event = None /\ w.options = {} /\ w.next = svc[s].next
      /\ w.live = svc[s].live /\ w.should = svc[s].should
      /\ w.enabled = svc[s].enabled
  BY <1>1 DEF Service
<1> HIDE DEF w
<1> QED
  BY <1>1, <1>3, <1>4

(* What the result r makes of its service v: dropped, discarded, or handled *)
(* and, if it asks for it or the state changed, scheduled again.            *)
Ended(v, w, r) ==
  /\ w \in Service /\ w.live = v.live /\ w.enabled = v.enabled
  /\ Requested(v) => Requested(w)
  /\ \/ w = v /\ (~v.live \/ ~r.active)
     \/ /\ w.executing => v.executing /\ ~r.active
        /\ w.event = v.event /\ w.should = v.should /\ w.next = v.next
        /\ "fresh" \in r.opts \/ ~r.resched
     \/ /\ w.executing => v.executing /\ ~r.active
        /\ w.should => w.enabled /\ w.event # None
        /\ OneShot = {} /\ v.enabled => w.should
        /\ w.should => /\ w.next = w.event.due
                       /\ w.event = v.event \/ w.event.due >= 0

LEMMA RescheduledShape ==
  ASSUME NEW v \in Service, NEW s \in Services, NEW d \in 0 .. MaxDelay
  PROVE  LET w == Rescheduled(v, s, d) IN
         /\ w \in Service /\ w.live = v.live /\ w.executing = v.executing
         /\ w.enabled = v.enabled
         /\ Requested(v) => Requested(w)
         /\ w.should => w.enabled /\ w.event # None
         /\ OneShot = {} /\ v.enabled => w.should
         /\ w.should => /\ w.next = w.event.due
                        /\ w.event = v.event \/ w.event.due >= 0
<1> DEFINE u == [v EXCEPT !.should = s \notin OneShot /\ v.enabled, !.next = d]
<1>1. d \in Dates /\ d >= 0
  BY DatesFacts
<1>2. /\ u \in Service /\ u.live = v.live /\ u.executing = v.executing
      /\ u.enabled = v.enabled /\ u.event = v.event /\ u.options = v.options
      /\ u.should = (s \notin OneShot /\ v.enabled)
  BY <1>1 DEF Service
<1>3. Rescheduled(v, s, d) = IF u.should THEN Schedule(u, d, {}) ELSE u
  BY DEF Rescheduled
<1> HIDE DEF u
<1>4. CASE u.should = FALSE
  BY <1>2, <1>3, <1>4 DEF Requested
<1>5. CASE u.should = TRUE
  <2>1. v.enabled
    BY <1>2, <1>5
  <2>2. ASSUME NEW o \in Options, o = {}, NEW w, w = Schedule(u, d, o)
        PROVE  /\ w \in Service /\ w.live = v.live /\ w.executing = v.executing
               /\ w.enabled = v.enabled /\ w.should = TRUE
               /\ Requested(v) => Requested(w)
               /\ w.event # None /\ w.next = w.event.due
               /\ w.event = v.event \/ w.event.due >= 0
    <3>1. /\ w \in Service
          /\ w.live = u.live /\ w.executing = u.executing
          /\ w.freshening = u.freshening /\ w.should = u.should
          /\ w.enabled = u.enabled
          /\ \/ ~u.enabled /\ "force" \notin o /\ w = u
             \/ /\ w.options = o /\ w.event # None /\ w.next = w.event.due
                /\ \/ w.event = u.event
                   \/ w.event.opts = o /\ w.event.due = d
      BY <1>1, <1>2, <2>2, ScheduleShape
    <3>2. w.options = o /\ w.event # None /\ w.next = w.event.due
          /\ (w.event = v.event \/ (w.event.opts = o /\ w.event.due = d))
      BY <1>2, <2>1, <3>1
    <3>3. Requested(v) => Requested(w)
      BY <2>2, <3>2 DEF Requested
    <3> QED
      BY <1>1, <1>2, <1>5, <3>1, <3>2, <3>3
  <2> QED
    BY <1>3, <1>5, <2>1, <2>2, OptionsFacts
<1> QED
  BY <1>2, <1>4, <1>5

LEMMA HandleShape ==
  ASSUME TypeOK, HandleResult
  PROVE  \E r \in Result :
           /\ r = Head(toReap) /\ r.svc \in Services
           /\ Ended(svc[r.svc], svc'[r.svc], r)
           /\ \A x \in Services \ {r.svc} : svc'[x] = svc[x]
<1>1. toReap \in Seq(Result) /\ toReap # <<>> /\ svc \in [Services -> Service]
  BY DEF HandleResult, TypeOK
<1> DEFINE r == Head(toReap)
           s == r.svc
           v == Cleared(svc[s], r)
           w == [v EXCEPT !.age = r.age]
<1>2. r \in Result
  BY <1>1, HeadTailProperties
<1>3. s \in Services /\ r.age \in Ages /\ r.active \in BOOLEAN /\ svc[s] \in Service
  BY <1>1, <1>2 DEF Result
<1>4. /\ v \in Service /\ v.live = svc[s].live /\ v.enabled = svc[s].enabled
      /\ v.should = svc[s].should /\ v.next = svc[s].next
      /\ v.event = svc[s].event /\ v.options = svc[s].options
      /\ v.executing => svc[s].executing /\ ~r.active
  <2>1. v \in Service
    BY <1>2, <1>3, ClearedType
  <2> QED
    BY <1>3, <2>1 DEF Cleared, Service
<1>5. /\ w \in Service /\ w.live = v.live /\ w.enabled = v.enabled
      /\ w.should = v.should /\ w.next = v.next
      /\ w.event = v.event /\ w.options = v.options
      /\ w.executing = v.executing
  BY <1>3, <1>4 DEF Service
<1> DEFINE Shape == /\ Ended(svc[s], svc'[s], r)
                    /\ \A x \in Services \ {s} : svc'[x] = svc[x]
<1>6. ASSUME (~svc[s].live \/ ~r.active) /\ UNCHANGED svc PROVE Shape
  BY <1>3, <1>6 DEF Ended
<1>7. ASSUME svc' = [svc EXCEPT ![s] = v] /\ "fresh" \in r.opts PROVE Shape
  <2> HIDE DEF v
  <2>1. Ended(svc[s], v, r)
    BY <1>4, <1>7 DEF Ended, Requested
  <2> QED
    BY <1>1, <1>3, <1>7, <2>1
<1>8. ASSUME NEW change \in BOOLEAN, NEW d \in 0 .. MaxDelay,
             svc' = [svc EXCEPT ![s] = IF r.resched \/ change
                                       THEN Rescheduled(w, s, d) ELSE w]
      PROVE  Shape
  <2> DEFINE z == Rescheduled(w, s, d)
             y == IF r.resched \/ change THEN z ELSE w
  <2>0. svc' = [svc EXCEPT ![s] = y]
    BY <1>8
  <2>1. /\ z \in Service /\ z.live = w.live /\ z.executing = w.executing
        /\ z.enabled = w.enabled
        /\ Requested(w) => Requested(z)
        /\ z.should => z.enabled /\ z.event # None
        /\ OneShot = {} /\ w.enabled => z.should
        /\ z.should => /\ z.next = z.event.due
                       /\ z.event = w.event \/ z.event.due >= 0
    BY <1>3, <1>5, RescheduledShape
  <2> HIDE DEF z, w, v
  <2>2. Requested(svc[s]) => Requested(w)
    BY <1>4, <1>5 DEF Requested
  <2>3. Ended(svc[s], z, r)
    BY <1>4, <1>5, <2>1, <2>2 DEF Ended
  <2>4. ~r.resched => Ended(svc[s], w, r)
    BY <1>4, <1>5, <2>2 DEF Ended
  <2>5. Ended(svc[s], y, r)
    BY <2>3, <2>4
  <2> HIDE DEF y
  <2> QED
    BY <1>1, <1>3, <2>0, <2>5
<1>9. Shape
  BY <1>6, <1>7, <1>8 DEF HandleResult
<1> QED
  BY <1>2, <1>3, <1>9

(* A service that another one depends on is checked: it keeps its event and *)
(* all that decides when it is checked next.                                *)
LEMMA CheckMasterShape ==
  ASSUME TypeOK, NEW m \in Services, CheckMaster(m)
  PROVE  LET w == svc'[m] IN
         /\ \A x \in Services \ {m} : svc'[x] = svc[x]
         /\ w.event = svc[m].event /\ w.options = svc[m].options
         /\ w.next = svc[m].next /\ w.live = svc[m].live
         /\ w.should = svc[m].should /\ w.enabled = svc[m].enabled
<1>1. svc[m] \in Service /\ svc \in [Services -> Service]
  BY DEF TypeOK
<1>2. svc' = [svc EXCEPT ![m] = [svc[m] EXCEPT !.executing = TRUE]]
  BY <1>1 DEF CheckMaster, Launch
<1> QED
  BY <1>1, <1>2 DEF Service

\* a second passes for one service
Ticked(v, w) ==
  /\ w.live = v.live /\ w.should = v.should /\ w.enabled = v.enabled
  /\ w.executing = v.executing /\ w.options = v.options
  /\ w.next = (IF v.live THEN Earlier(v.next) ELSE v.next)
  /\ w.event = None <=> v.event = None
  /\ w.event # None =>
       /\ w.event.opts = v.event.opts
       /\ v.live => w.event.due = Earlier(v.event.due)

LEMMA TickShape ==
  ASSUME TypeOK, Tick, NEW s \in Services
  PROVE  Ticked(svc[s], svc'[s])
<1>1. svc[s] \in Service /\ svc[s].live \in BOOLEAN
  BY DEF TypeOK, Service
<1>2. CASE svc[s].live = FALSE
  <2>1. svc'[s] = svc[s]
    BY <1>2 DEF Tick
  <2> QED
    BY <1>2, <2>1 DEF Ticked
<1>3. CASE svc[s].live = TRUE
  <2> DEFINE e == Sooner(svc[s].event)
             w == [svc[s] EXCEPT !.next = Earlier(@), !.age = Older(@), !.event = e]
  <2>1. svc'[s] = w
    BY <1>3 DEF Tick
  <2>2. /\ w.live = svc[s].live /\ w.should = svc[s].should
        /\ w.enabled = svc[s].enabled /\ w.executing = svc[s].executing
        /\ w.options = svc[s].options /\ w.next = Earlier(svc[s].next)
        /\ w.event = e
    BY <1>1 DEF Service
  <2>3. CASE svc[s].event = None
    BY <1>3, <2>1, <2>2, <2>3 DEF Ticked, Sooner
  <2>4. CASE svc[s].event # None
    <3>1. svc[s].event \in Event
      BY <1>1, <2>4 DEF Service
    <3>2. /\ e = [svc[s].event EXCEPT !.due = Earlier(@)]
          /\ e.opts = svc[s].event.opts /\ e.due = Earlier(svc[s].event.due)
      BY <2>4, <3>1 DEF Sooner, Event
    <3>3. Earlier(svc[s].event.due) \in Dates
      BY <3>1 DEF Earlier, Event, Dates, Past
    <3>4. e \in Event
      BY <3>1, <3>2, <3>3 DEF Event
    <3>5. e # None
      BY <3>4, NoneAssumption
    <3> HIDE DEF e
    <3> QED
      BY <1>3, <2>1, <2>2, <2>4, <3>2, <3>5 DEF Ticked
  <2> QED
    BY <2>3, <2>4
<1> QED
  BY <1>1, <1>2, <1>3

(* What the next step does to the services, by kind of step.                *)
Started(s) ==
  LET w == svc'[s] IN
  /\ \A x \in Services \ {s} : svc'[x] = svc[x]
  /\ w.event = None /\ w.options = {} /\ w.next = svc[s].next
  /\ w.live = svc[s].live /\ w.should = svc[s].should
  /\ w.enabled = svc[s].enabled

Checked(m) ==
  LET w == svc'[m] IN
  /\ \A x \in Services \ {m} : svc'[x] = svc[x]
  /\ w.event = svc[m].event /\ w.options = svc[m].options
  /\ w.next = svc[m].next /\ w.live = svc[m].live
  /\ w.should = svc[m].should /\ w.enabled = svc[m].enabled

Handled(r) ==
  /\ r = Head(toReap) /\ r.svc \in Services
  /\ Ended(svc[r.svc], svc'[r.svc], r)
  /\ \A x \in Services \ {r.svc} : svc'[x] = svc[x]

ServicesStep ==
  \/ \E s \in Services : RunEvent(s) /\ Started(s)
  \/ \E m \in Services : CheckMaster(m) /\ Checked(m)
  \/ /\ Quiet /\ UNCHANGED <<flight, toReap>>
     /\ \A s \in Services : Tame(svc[s], svc'[s])
  \/ /\ \/ \E s \in Services : PassiveResult(s)
        \/ \E i \in Ids : Finished(i) \/ Lose(i) \/ Merge(i)
     /\ UNCHANGED svc
  \/ HandleResult /\ \E r \in Result : Handled(r)
  \/ Tick /\ \A s \in Services : Ticked(svc[s], svc'[s])

LEMMA ServicesNext == ASSUME TypeOK, [Next]_vars PROVE ServicesStep
<1>1. ASSUME NEW s \in Services, RunEvent(s) PROVE ServicesStep
  <2>1. Started(s)
    BY <1>1, RunEventShape DEF Started
  <2> QED
    BY <1>1, <2>1 DEF ServicesStep
<1>2. CASE Quiet
  BY <1>2, QuietTame DEF ServicesStep
<1>3. CASE \/ \E s \in Services : PassiveResult(s)
           \/ \E i \in Ids : Finished(i) \/ Lose(i) \/ Merge(i)
  <2>1. UNCHANGED svc
    BY <1>3 DEF PassiveResult, Finished, Lose, Merge
  <2> QED
    BY <1>3, <2>1 DEF ServicesStep
<1>4. CASE HandleResult
  <2>1. \E r \in Result : Handled(r)
    BY <1>4, HandleShape DEF Handled
  <2> QED
    BY <1>4, <2>1 DEF ServicesStep
<1>5. CASE Tick
  BY <1>5, TickShape DEF ServicesStep
<1>6. ASSUME NEW m \in Services, CheckMaster(m) PROVE ServicesStep
  <2>1. Checked(m)
    BY <1>6, CheckMasterShape DEF Checked
  <2> QED
    BY <1>6, <2>1 DEF ServicesStep
<1> QED
  BY <1>1, <1>2, <1>3, <1>4, <1>5, <1>6 DEF Next, Reap, Quiet

\* without reloads no service comes or goes
LEMMA LiveStep ==
  ASSUME TypeOK, "reload" \notin Features, ServicesStep, NEW x \in Services
  PROVE  svc'[x].live = svc[x].live
<1>1. CASE \E s \in Services : RunEvent(s) /\ Started(s)
  BY <1>1 DEF Started
<1>2. CASE \A s \in Services : Tame(svc[s], svc'[s])
  BY <1>2 DEF Tame
<1>3. ASSUME NEW r \in Result, Handled(r) PROVE svc'[x].live = svc[x].live
  BY <1>3 DEF Handled, Ended
<1>4. CASE \A s \in Services : Ticked(svc[s], svc'[s])
  BY <1>4 DEF Ticked
<1>5. CASE \E m \in Services : Checked(m)
  BY <1>5 DEF Checked
<1> QED
  BY <1>1, <1>2, <1>3, <1>4, <1>5 DEF ServicesStep

\* no one asks for an option that the features do not have
AllRequested == \A s \in Services : Requested(svc[s])

LEMMA RequestedStep ==
  ASSUME TypeOK, AllRequested, ServicesStep
  PROVE  AllRequested'
<1> SUFFICES ASSUME NEW x \in Services PROVE Requested(svc'[x])
  BY DEF AllRequested
<1>0. Requested(svc[x])
  BY DEF AllRequested
<1>1. CASE \E s \in Services : RunEvent(s) /\ Started(s)
  BY <1>0, <1>1 DEF Started, Requested
<1>2. CASE \A s \in Services : Tame(svc[s], svc'[s])
  BY <1>0, <1>2 DEF Tame
<1>3. ASSUME NEW r \in Result, Handled(r) PROVE Requested(svc'[x])
  BY <1>0, <1>3 DEF Handled, Ended
<1>4. CASE \A s \in Services : Ticked(svc[s], svc'[s])
  BY <1>0, <1>4 DEF Ticked, Requested
<1>5. CASE \E m \in Services : Checked(m)
  BY <1>0, <1>5 DEF Checked, Requested
<1> QED
  BY <1>0, <1>1, <1>2, <1>3, <1>4, <1>5 DEF ServicesStep

LEMMA InitRequested == Init => AllRequested
BY DEF Init, AllRequested, Requested, Fresh

LEMMA InitCounts == Init => AllLive /\ counter = Outstanding
<1> SUFFICES ASSUME Init PROVE AllLive /\ counter = Outstanding
  OBVIOUS
<1>1. Used = {} /\ Active(toReap) = {}
  BY EmptySeq DEF Init, Used, Active
<1>2. Outstanding = 0
  BY <1>1, FS_EmptySet DEF Outstanding
<1> QED
  BY <1>2 DEF Init, AllLive, Fresh

(* CounterExact.  currently_running_service_checks is exact as long as no   *)
(* result is lost, nothing is given up as orphaned and no service is        *)
(* removed with its result under way, whatever else happens: launches that  *)
(* fail, predictive checks, forced and freshness checks, discarded results. *)
THEOREM CounterAlwaysExact ==
  ASSUME Features \cap {"lost", "orphans", "reload"} = {}
  PROVE  Spec => []CounterExact
<1> DEFINE IInv == TypeOK /\ AllLive /\ counter = Outstanding
<1>1. Init => IInv
  BY InitType, InitCounts
<1>2. IInv /\ [Next]_vars => IInv'
  <2> SUFFICES ASSUME IInv, [Next]_vars PROVE IInv'
    OBVIOUS
  <2>1. CounterCovers
    BY OutstandingType DEF CounterCovers, TypeOK
  <2>2. Counted
    BY <2>1, CountStep
  <2>3. \A s \in Services : svc'[s].live = svc[s].live
    BY ServicesNext, LiveStep
  <2> QED
    BY <2>2, <2>3, NextType DEF Counted, AllLive
<1>3. IInv => CounterExact
  BY DEF CounterExact, Outstanding, Used, Active
<1> QED
  BY <1>1, <1>2, <1>3, PTL DEF Spec

\* the plugins that ParallelLimit bounds
Running == {i \in Ids : flight[i] # None /\ ~flight[i].done
                        /\ flight[i].result.resched}

LEMMA RunningUsed ==
  Cardinality(Running) \in Nat /\ Cardinality(Running) <= Cardinality(Used)
<1>1. Running \subseteq Used
  BY DEF Running, Used
<1> QED
  BY <1>1, UsedFinite, FS_Subset, FS_CardinalityType

LEMMA RunningUsedPrime ==
  /\ Cardinality(Running') \in Nat /\ Cardinality(Used') \in Nat
  /\ Cardinality(Running') <= Cardinality(Used')
<1>1. Running' \subseteq Used' /\ IsFiniteSet(Used')
  BY FS_Subset DEF Running, Used
<1> QED
  BY <1>1, FS_Subset, FS_CardinalityType

LEMMA RunningShrinks ==
  ASSUME Running' \subseteq Running
  PROVE  Cardinality(Running') <= Cardinality(Running)
<1>1. IsFiniteSet(Running)
  <2>1. Running \subseteq Used
    BY DEF Running, Used
  <2> QED
    BY <2>1, UsedFinite, FS_Subset
<1> QED
  BY <1>1, FS_Subset

LEMMA AgedFields ==
  ASSUME NEW f \in Flight
  PROVE  LET g == [f EXCEPT !.result.age = Older(@)] IN
         /\ g.done = f.done
         /\ g.result.svc = f.result.svc /\ g.result.resched = f.result.resched
         /\ g.result.opts = f.result.opts
         /\ g.result.age = Older(f.result.age)
BY DEF Flight, Result

(* Only the loop starts the plugin of a scheduled check.                    *)
LEMMA RunningStep ==
  ASSUME TypeOK, [Next]_vars, ServicesStep, \A s \in Services : ~RunEvent(s)
  PROVE  Running' \subseteq Running
<1>0. flight \in [Ids -> Flight \cup {None}]
  BY DEF TypeOK
<1>1. CASE UNCHANGED flight
  BY <1>1 DEF Running
<1>2. ASSUME NEW i \in Ids, Finished(i) \/ Lose(i) \/ Merge(i)
      PROVE  Running' \subseteq Running
  <2>1. i \notin Running'
    <3>1. Finished(i) => flight[i] \in Flight
      BY <1>0 DEF Finished
    <3> QED
      BY <1>0, <1>2, <3>1 DEF Finished, Lose, Merge, Running, Flight
  <2>2. \A j \in Ids \ {i} : flight'[j] = flight[j]
    BY <1>0, <1>2 DEF Finished, Lose, Merge
  <2> QED
    BY <2>1, <2>2 DEF Running
<1>3. ASSUME NEW m \in Services, CheckMaster(m) PROVE Running' \subseteq Running
  <2>1. CASE UNCHANGED flight
    BY <2>1 DEF Running
  <2>2. ASSUME NEW i \in Ids,
               flight' = [flight EXCEPT ![i] = [result |-> Launched(m, {}, FALSE),
                                                done   |-> FALSE]]
        PROVE  Running' \subseteq Running
    <3>1. flight'[i].result.resched = FALSE
          /\ \A j \in Ids \ {i} : flight'[j] = flight[j]
      BY <1>0, <2>2 DEF Launched
    <3> QED
      BY <3>1 DEF Running
  <2> QED
    BY <1>3, <2>1, <2>2 DEF CheckMaster, Launch
<1>4. CASE Tick
  <2> SUFFICES ASSUME NEW i \in Running' PROVE i \in Running
    OBVIOUS
  <2>1. i \in Ids /\ flight'[i] # None /\ ~flight'[i].done /\ flight'[i].result.resched
    BY DEF Running
  <2>2. flight[i] # None /\ flight'[i] = [flight[i] EXCEPT !.result.age = Older(@)]
    BY <1>4, <2>1 DEF Tick
  <2>3. flight[i] \in Flight
    BY <1>0, <2>1, <2>2
  <2>4. /\ flight'[i].done = flight[i].done
        /\ flight'[i].result.resched = flight[i].result.resched
    BY <2>2, <2>3, AgedFields
  <2> QED
    BY <2>1, <2>2, <2>4 DEF Running
<1>5. ASSUME HandleResult \/ \E s \in Services : PassiveResult(s)
      PROVE  UNCHANGED flight
  BY <1>5 DEF HandleResult, PassiveResult
<1> QED
  BY <1>1, <1>2, <1>3, <1>4, <1>5 DEF ServicesStep

(* ParallelLimit.  Without forced checks and without the orphan watchdog,   *)
(* which takes running plugins off the counter, no more than                *)
(* max_parallel_service_checks plugins of scheduled checks execute at once: *)
(* the counter never misses a check, and only an event that is not forced   *)
(* and finds the counter below the limit starts one.                        *)
THEOREM ParallelLimitKept ==
  ASSUME Features \cap {"schedule", "freshness", "orphans"} = {}
  PROVE  Spec => []ParallelLimit
<1> DEFINE IInv == TypeOK /\ AllRequested /\ CounterCovers /\ ParallelLimit
<1>0. ParallelLimit <=> (MaxParallel # 0 => Cardinality(Running) <= MaxParallel)
  BY DEF ParallelLimit, Running
<1>1. Init => IInv
  <2> SUFFICES ASSUME Init PROVE IInv
    OBVIOUS
  <2>1. Running = {}
    BY DEF Init, Running
  <2>2. CounterCovers
    BY InitType, InitCounts, OutstandingType DEF CounterCovers, TypeOK
  <2> QED
    BY <1>0, <2>1, <2>2, FS_EmptySet, InitType, InitRequested
<1>2. IInv /\ [Next]_vars => IInv'
  <2> SUFFICES ASSUME IInv, [Next]_vars PROVE IInv'
    OBVIOUS
  <2>1. ServicesStep /\ TypeOK' /\ AllRequested'
    BY ServicesNext, RequestedStep, NextType
  <2>2. CounterCovers'
    BY CountStep DEF Counted
  <2>3. ParallelLimit' <=> (MaxParallel # 0 => Cardinality(Running') <= MaxParallel)
    BY DEF ParallelLimit, Running
  <2>4. ASSUME MaxParallel # 0, NEW s \in Services, RunEvent(s)
        PROVE  Cardinality(Running') <= MaxParallel
    <3>1. "force" \notin svc[s].options
      BY DEF AllRequested, Requested, Requestable
    <3>2. counter \in Nat /\ counter < MaxParallel /\ counter' = counter + 1
      BY <2>4, <3>1 DEF RunEvent, MayRun, Saturated, Launch, TypeOK
    <3>3. /\ Cardinality(Running') \in Nat /\ Cardinality(Used') \in Nat
          /\ Cardinality(Running') <= Cardinality(Used')
      BY <2>1, RunningUsedPrime
    <3>4. Cardinality(Active(toReap)') \in Nat
      BY <2>1, ActiveFinite DEF TypeOK, Active
    <3>5. counter' >= Cardinality(Used') + Cardinality(Active(toReap)')
      BY <2>2 DEF CounterCovers, Outstanding
    <3> QED
      BY <3>2, <3>3, <3>4, <3>5
  <2>5. ASSUME MaxParallel # 0, \A s \in Services : ~RunEvent(s)
        PROVE  Cardinality(Running') <= MaxParallel
    <3>1. Cardinality(Running') <= Cardinality(Running)
      BY <2>1, <2>5, RunningStep, RunningShrinks
    <3>2. Cardinality(Running') \in Nat /\ Cardinality(Running) \in Nat
      BY <2>1, RunningUsed, RunningUsedPrime
    <3> QED
      BY <1>0, <2>5, <3>1, <3>2
  <2> QED
    BY <2>1, <2>2, <2>3, <2>4, <2>5
<1> QED
  BY <1>1, <1>2, PTL DEF Spec

-----------------------------------------------------------------------------
(* NeverForgotten.  A service that should be scheduled has its checks       *)
(* enabled and an event, or a check under way that reschedules it.          *)

PromisedIn(q, s) == \E k \in DOMAIN q : q[k].svc = s /\ q[k].active /\ q[k].resched
PromisedBy(s) == \E i \in Ids : flight[i] # None /\ flight[i].result.svc = s
                                /\ flight[i].result.resched
Promised(s) == PromisedBy(s) \/ PromisedIn(toReap, s)
Watched == \A s \in Services :
             Obliged(svc[s]) => /\ svc[s].enabled
                                /\ svc[s].event # None \/ Promised(s)

\* no result asks for more than anyone requested
Asked(r) == r.opts \subseteq Requestable
ResultsAsked ==
  /\ \A i \in Ids : flight[i] # None => Asked(flight[i].result)
  /\ \A k \in DOMAIN toReap : Asked(toReap[k])

LEMMA AppendPromises ==
  ASSUME NEW q \in Seq(Result), NEW r \in Result
  PROVE  /\ \A s \in Services : PromisedIn(q, s) => PromisedIn(Append(q, r), s)
         /\ r.active /\ r.resched => PromisedIn(Append(q, r), r.svc)
         /\ Asked(r) /\ (\A k \in DOMAIN q : Asked(q[k]))
              => \A k \in DOMAIN Append(q, r) : Asked(Append(q, r)[k])
<1>1. /\ Len(q) \in Nat /\ DOMAIN q = 1 .. Len(q)
      /\ DOMAIN Append(q, r) = 1 .. Len(q) + 1
      /\ \A k \in 1 .. Len(q) : Append(q, r)[k] = q[k]
      /\ Append(q, r)[Len(q) + 1] = r
  BY LenProperties, AppendProperties
<1> QED
  BY <1>1 DEF PromisedIn

LEMMA TailPromises ==
  ASSUME NEW q \in Seq(Result), q # <<>>
  PROVE  /\ Tail(q) \in Seq(Result)
         /\ \A s \in Services :
              PromisedIn(q, s)
              /\ ~(Head(q).active /\ Head(q).resched /\ Head(q).svc = s)
                => PromisedIn(Tail(q), s)
         /\ (\A k \in DOMAIN q : Asked(q[k]))
              => Asked(Head(q)) /\ \A k \in DOMAIN Tail(q) : Asked(Tail(q)[k])
<1>1. /\ Len(q) \in Nat /\ Len(q) > 0 /\ DOMAIN q = 1 .. Len(q)
      /\ Head(q) = q[1]
      /\ Tail(q) \in Seq(Result) /\ Len(Tail(q)) = Len(q) - 1
      /\ \A k \in 1 .. Len(Tail(q)) : Tail(q)[k] = q[k + 1]
  BY LenProperties, HeadTailProperties, EmptySeq
<1>2. DOMAIN Tail(q) = 1 .. Len(q) - 1
  BY <1>1, LenProperties
<1>3. ASSUME NEW s \in Services, PromisedIn(q, s),
             ~(Head(q).active /\ Head(q).resched /\ Head(q).svc = s)
      PROVE  PromisedIn(Tail(q), s)
  <2>1. PICK k \in 1 .. Len(q) : q[k].svc = s /\ q[k].active /\ q[k].resched
    BY <1>1, <1>3 DEF PromisedIn
  <2>2. k # 1
    BY <1>1, <1>3, <2>1
  <2>3. k - 1 \in 1 .. Len(q) - 1 /\ Tail(q)[k - 1] = q[k]
    BY <1>1, <2>1, <2>2
  <2> QED
    BY <1>2, <2>1, <2>3 DEF PromisedIn
<1>4. ASSUME \A k \in DOMAIN q : Asked(q[k])
      PROVE  Asked(Head(q)) /\ \A k \in DOMAIN Tail(q) : Asked(Tail(q)[k])
  <2>1. \A k \in 1 .. Len(q) - 1 : k + 1 \in 1 .. Len(q)
    BY <1>1
  <2> QED
    BY <1>1, <1>2, <1>4, <2>1
<1> QED
  BY <1>1, <1>3, <1>4

LEMMA LaunchPromises ==
  ASSUME TypeOK, NEW S, NEW s \in Services, NEW o \in Options,
         NEW resched \in BOOLEAN, NEW n, NEW q \in Seq(Result),
         Launch(S, s, o, resched, n, q)
  PROVE  /\ \A x \in Services : PromisedBy(x) \/ PromisedIn(q, x) => Promised(x)'
         /\ resched => Promised(s)'
         /\ (/\ o \subseteq Requestable
             /\ \A i \in Ids : flight[i] # None => Asked(flight[i].result)
             /\ \A k \in DOMAIN q : Asked(q[k]))
              => ResultsAsked'
<1> DEFINE r == Launched(s, o, resched)
<1>1. r \in Result /\ r.active /\ r.svc = s /\ r.resched = resched /\ r.opts = o
  BY AgesFacts DEF Launched, Result
<1>2. ASSUME NEW i \in Ids, flight[i] = None, toReap' = q,
             flight' = [flight EXCEPT ![i] = [result |-> r, done |-> FALSE]]
      PROVE  /\ \A x \in Services : PromisedBy(x) \/ PromisedIn(q, x) => Promised(x)'
             /\ resched => Promised(s)'
             /\ (/\ o \subseteq Requestable
                 /\ \A j \in Ids : flight[j] # None => Asked(flight[j].result)
                 /\ \A k \in DOMAIN q : Asked(q[k]))
                  => ResultsAsked'
  <2>1. [result |-> r, done |-> FALSE] \in Flight
    BY <1>1 DEF Flight
  <2>2. [result |-> r, done |-> FALSE].result = r
    OBVIOUS
  <2>3. /\ flight'[i] # None /\ flight'[i].result = r
        /\ \A j \in Ids \ {i} : flight'[j] = flight[j]
    BY <1>2, <2>1, <2>2, NoneAssumption DEF TypeOK
  <2> HIDE DEF r
  <2>4. \A x \in Services : PromisedBy(x) => PromisedBy(x)'
    BY <1>2, <2>3 DEF PromisedBy
  <2>5. resched => PromisedBy(s)'
    BY <1>1, <2>3 DEF PromisedBy
  <2>6. Asked(r) <=> o \subseteq Requestable
    BY <1>1 DEF Asked
  <2> QED
    BY <1>2, <2>3, <2>4, <2>5, <2>6 DEF Promised, ResultsAsked, PromisedIn
<1>3. ASSUME toReap' = Append(q, r), UNCHANGED flight
      PROVE  /\ \A x \in Services : PromisedBy(x) \/ PromisedIn(q, x) => Promised(x)'
             /\ resched => Promised(s)'
             /\ (/\ o \subseteq Requestable
                 /\ \A j \in Ids : flight[j] # None => Asked(flight[j].result)
                 /\ \A k \in DOMAIN q : Asked(q[k]))
                  => ResultsAsked'
  <2> HIDE DEF r
  <2>1. /\ \A x \in Services : PromisedIn(q, x) => PromisedIn(toReap', x)
        /\ resched => PromisedIn(toReap', s)
        /\ Asked(r) /\ (\A k \in DOMAIN q : Asked(q[k]))
             => \A k \in DOMAIN toReap' : Asked(toReap'[k])
    BY <1>1, <1>3, AppendPromises
  <2>2. \A x \in Services : PromisedBy(x)' <=> PromisedBy(x)
    BY <1>3 DEF PromisedBy
  <2>3. Asked(r) <=> o \subseteq Requestable
    BY <1>1 DEF Asked
  <2> QED
    BY <1>3, <2>1, <2>2, <2>3 DEF Promised, ResultsAsked, PromisedIn
<1> QED
  BY <1>2, <1>3 DEF Launch

(* A check that is not lost stays promised until its result is handled, and *)
(* results keep the options their checks were started with.                 *)
LEMMA PromiseStep ==
  ASSUME TypeOK, AllRequested, ResultsAsked, "lost" \notin Features,
         [Next]_vars, ServicesStep
  PROVE  /\ ResultsAsked'
         /\ ~HandleResult => \A x \in Services : Promised(x) => Promised(x)'
<1>0. /\ flight \in [Ids -> Flight \cup {None}] /\ toReap \in Seq(Result)
      /\ svc \in [Services -> Service]
  BY DEF TypeOK
<1> DEFINE G == /\ ResultsAsked'
                /\ ~HandleResult => \A x \in Services : Promised(x) => Promised(x)'
<1>1. ASSUME NEW s \in Services, RunEvent(s) PROVE G
  <2>1. svc[s].event.opts \in Options /\ svc[s].event.opts \subseteq Requestable
    <3>1. svc[s].event # None /\ svc[s].event \in Event
      BY <1>0, <1>1 DEF RunEvent, Due, Armed, Service
    <3> QED
      BY <3>1 DEF Event, AllRequested, Requested
  <2>2. PICK S : Launch(S, s, svc[s].event.opts, TRUE, counter, toReap)
    BY <1>1 DEF RunEvent
  <2> QED
    BY <1>0, <2>1, <2>2, LaunchPromises DEF ResultsAsked, Promised
<1>2. CASE UNCHANGED <<flight, toReap>>
  BY <1>2 DEF ResultsAsked, Promised, PromisedBy
<1>3. ASSUME NEW s \in Services, PassiveResult(s) PROVE G
  <2> DEFINE r == [svc |-> s, opts |-> {}, resched |-> FALSE,
                   active |-> FALSE, age |-> 0]
  <2>1. r \in Result /\ Asked(r)
    BY OptionsFacts, AgesFacts DEF Result, Asked
  <2>2. toReap' = Append(toReap, r) /\ UNCHANGED flight
    BY <1>3 DEF PassiveResult
  <2> HIDE DEF r
  <2>3. \A x \in Services : PromisedBy(x)' <=> PromisedBy(x)
    BY <2>2 DEF PromisedBy
  <2> QED
    BY <1>0, <2>1, <2>2, <2>3, AppendPromises DEF ResultsAsked, Promised
<1>4. ASSUME NEW i \in Ids, Finished(i) PROVE G
  <2>1. flight[i] \in Flight /\ [flight[i] EXCEPT !.done = TRUE] \in Flight
    BY <1>0, <1>4 DEF Finished, Flight
  <2>2. flight'[i] # None /\ flight'[i].result = flight[i].result
        /\ UNCHANGED toReap /\ \A j \in Ids \ {i} : flight'[j] = flight[j]
    BY <1>0, <1>4, <2>1, NoneAssumption DEF Finished, Flight
  <2>3. \A x \in Services : PromisedBy(x) => PromisedBy(x)'
    BY <2>2 DEF PromisedBy
  <2>4. \A j \in Ids : flight'[j] # None => Asked(flight'[j].result)
    <3>1. flight[i] # None
      BY <1>4 DEF Finished
    <3> QED
      BY <2>2, <3>1 DEF ResultsAsked
  <2>5. ResultsAsked'
    BY <2>2, <2>4 DEF ResultsAsked
  <2>6. \A x \in Services : Promised(x) => Promised(x)'
    BY <2>2, <2>3 DEF Promised
  <2> QED
    BY <2>5, <2>6
<1>5. ASSUME NEW i \in Ids, Lose(i) PROVE G
  BY <1>5 DEF Lose, On
<1>6. ASSUME NEW i \in Ids, Merge(i) PROVE G
  <2> DEFINE r == flight[i].result
  <2>1. flight[i] # None /\ r \in Result /\ r.active /\ Asked(r)
    BY <1>0, <1>6 DEF Merge, Flight, ResultsAsked
  <2>2. toReap' = Append(toReap, r) /\ flight' = [flight EXCEPT ![i] = None]
    BY <1>6 DEF Merge
  <2>3. \A x \in Services : PromisedBy(x) => PromisedBy(x)' \/ (x = r.svc /\ r.resched)
    BY <1>0, <2>2 DEF PromisedBy
  <2>4. \A j \in Ids : flight'[j] # None => Asked(flight'[j].result)
    BY <1>0, <2>2 DEF ResultsAsked
  <2> HIDE DEF r
  <2> QED
    BY <1>0, <2>1, <2>2, <2>3, <2>4, AppendPromises DEF ResultsAsked, Promised
<1>7. CASE HandleResult
  <2>1. toReap # <<>> /\ toReap' = Tail(toReap) /\ UNCHANGED flight
    BY <1>7 DEF HandleResult
  <2>2. \A k \in DOMAIN Tail(toReap) : Asked(Tail(toReap)[k])
    BY <1>0, <2>1, TailPromises DEF ResultsAsked
  <2> QED
    BY <1>7, <2>1, <2>2 DEF ResultsAsked
<1>8. CASE Tick
  <2>1. ASSUME NEW i \in Ids, flight[i] # None
        PROVE  /\ flight'[i] # None /\ flight'[i].result.svc = flight[i].result.svc
               /\ flight'[i].result.resched = flight[i].result.resched
               /\ flight'[i].result.opts = flight[i].result.opts
    <3>1. flight[i] \in Flight
      BY <1>0, <2>1
    <3>2. flight'[i] = [flight[i] EXCEPT !.result.age = Older(@)]
      BY <1>8, <2>1 DEF Tick
    <3>3. flight'[i] \in Flight
      BY <3>1, <3>2, AgedFlight
    <3> QED
      BY <3>1, <3>2, <3>3, AgedFields, NoneAssumption
  <2>2. ASSUME NEW i \in Ids, flight[i] = None PROVE flight'[i] = None
    BY <1>8, <2>2 DEF Tick
  <2>3. \A k \in DOMAIN toReap : toReap[k] \in Result
    BY <1>0, LenProperties, ElementOfSeq
  <2>4. /\ DOMAIN toReap' = DOMAIN toReap
        /\ \A k \in DOMAIN toReap :
             /\ toReap'[k].svc = toReap[k].svc /\ toReap'[k].active = toReap[k].active
             /\ toReap'[k].resched = toReap[k].resched
             /\ toReap'[k].opts = toReap[k].opts
    BY <1>8, <2>3 DEF Tick, Result
  <2>5. ResultsAsked'
    BY <2>1, <2>2, <2>4 DEF ResultsAsked, Asked
  <2>6. \A x \in Services : PromisedBy(x) => PromisedBy(x)'
    BY <2>1 DEF PromisedBy
  <2>7. \A x \in Services : PromisedIn(toReap, x) => PromisedIn(toReap', x)
    BY <2>4 DEF PromisedIn
  <2> QED
    BY <2>5, <2>6, <2>7 DEF Promised
<1>9. ASSUME NEW m \in Services, CheckMaster(m) PROVE G
  <2>1. Launch(svc, m, {}, FALSE, counter, toReap)
    BY <1>9 DEF CheckMaster
  <2>2. PICK o \in Options : o = {} /\ o \subseteq Requestable
    BY OptionsFacts
  <2> QED
    BY <1>0, <2>1, <2>2, LaunchPromises DEF ResultsAsked, Promised
<1> QED
  BY <1>1, <1>2, <1>3, <1>4, <1>5, <1>6, <1>7, <1>8, <1>9 DEF ServicesStep

LEMMA WatchedStep ==
  ASSUME TypeOK, AllRequested, ResultsAsked, Watched,
         Features \cap {"lost", "freshness"} = {},
         [Next]_vars, ServicesStep
  PROVE  Watched'
<1> SUFFICES ASSUME NEW x \in Services, Obliged(svc'[x])
             PROVE  svc'[x].enabled /\ (svc'[x].event # None \/ Promised(x)')
  BY DEF Watched
<1>0. Obliged(svc[x]) => svc[x].enabled /\ (svc[x].event # None \/ Promised(x))
  BY DEF Watched
<1>1. ~HandleResult /\ Promised(x) => Promised(x)'
  BY PromiseStep
<1>2. ASSUME NEW s \in Services, RunEvent(s), Started(s), ~HandleResult
      PROVE  svc'[x].enabled /\ (svc'[x].event # None \/ Promised(x)')
  <2>1. CASE x = s
    <3>1. svc[s].event.opts \in Options
      BY <1>2 DEF RunEvent, Due, Armed, TypeOK, Service, Event
    <3>2. PICK S : Launch(S, s, svc[s].event.opts, TRUE, counter, toReap)
      BY <1>2 DEF RunEvent
    <3>3. Promised(s)'
      BY <3>1, <3>2, LaunchPromises DEF TypeOK
    <3> QED
      BY <1>0, <1>2, <2>1, <3>3 DEF Started, Obliged
  <2>2. CASE x # s
    <3>1. svc'[x] = svc[x]
      BY <1>2, <2>2 DEF Started
    <3> QED
      BY <1>0, <1>1, <1>2, <3>1
  <2> QED
    BY <2>1, <2>2
<1>3. CASE Quiet /\ UNCHANGED <<flight, toReap>>
           /\ \A s \in Services : Tame(svc[s], svc'[s])
  <2>1. Kept(svc[x], svc'[x])
    BY <1>0, <1>3 DEF Tame
  <2>2. Promised(x)' <=> Promised(x)
    BY <1>3 DEF Promised, PromisedBy
  <2> QED
    BY <1>0, <2>1, <2>2 DEF Kept
<1>4. CASE UNCHANGED svc /\ ~HandleResult
  BY <1>0, <1>1, <1>4
<1>5. ASSUME NEW r \in Result, Handled(r), HandleResult
      PROVE  svc'[x].enabled /\ (svc'[x].event # None \/ Promised(x)')
  <2>0. /\ toReap \in Seq(Result) /\ toReap # <<>>
        /\ toReap' = Tail(toReap) /\ UNCHANGED flight
    BY <1>5 DEF HandleResult, TypeOK
  <2>1. Asked(r)
        /\ (PromisedIn(toReap, x) /\ ~(r.active /\ r.resched /\ r.svc = x)
             => PromisedIn(Tail(toReap), x))
    BY <1>5, <2>0, TailPromises DEF Handled, ResultsAsked
  <2>2. "fresh" \notin r.opts
    BY <2>1 DEF Asked, Requestable
  <2>3. svc'[x].enabled
        /\ (svc'[x].event # None \/ PromisedBy(x) \/ PromisedIn(Tail(toReap), x))
    <3>1. CASE x # r.svc
      BY <1>0, <1>5, <2>1, <3>1 DEF Handled, Promised
    <3>2. CASE x = r.svc
      BY <1>0, <1>5, <2>1, <2>2, <3>2 DEF Handled, Ended, Promised, Obliged
    <3> QED
      BY <3>1, <3>2
  <2> QED
    BY <2>0, <2>3 DEF Promised, PromisedBy
<1>6. CASE ~HandleResult /\ \A s \in Services : Ticked(svc[s], svc'[s])
  BY <1>0, <1>1, <1>6 DEF Ticked, Obliged
<1>7. CASE HandleResult
  BY <1>5, <1>7, HandleShape DEF Handled
<1>8. ASSUME NEW m \in Services, CheckMaster(m), Checked(m), ~HandleResult
      PROVE  svc'[x].enabled /\ (svc'[x].event # None \/ Promised(x)')
  BY <1>0, <1>1, <1>8 DEF Checked, Obliged
<1> QED
  BY <1>2, <1>3, <1>4, <1>6, <1>7, <1>8 DEF ServicesStep

(* NeverForgotten.  As long as no result is lost and the freshness watchdog *)
(* is off, a service that should be scheduled always has an event, or a     *)
(* check under way whose result schedules the next one: no order of         *)
(* schedule requests, failed launches, checks that are not viable, switches *)
(* of the checks, reloads and predictive checks drops it.                   *)
THEOREM NeverForgottenHolds ==
  ASSUME Features \cap {"lost", "freshness"} = {}
  PROVE  Spec => []NeverForgotten
<1> DEFINE IInv == TypeOK /\ AllRequested /\ ResultsAsked /\ Watched
<1>1. Init => IInv
  <2> SUFFICES ASSUME Init PROVE IInv
    OBVIOUS
  <2>1. ResultsAsked
    BY EmptySeq DEF Init, ResultsAsked
  <2>2. ASSUME NEW s \in Services
        PROVE  Obliged(svc[s]) => svc[s].enabled /\ svc[s].event # None
    <3>1. PICK d \in 0 .. MaxDelay : svc[s] = Fresh(s, d)
      BY DEF Init
    <3>2. [opts |-> {}, due |-> d] \in Event
      BY DatesFacts, OptionsFacts DEF Event
    <3>3. [opts |-> {}, due |-> d] # None
      BY <3>2, NoneAssumption
    <3>4. /\ Fresh(s, d).enabled
          /\ Fresh(s, d).should = (s \notin OneShot)
          /\ s \notin OneShot => Fresh(s, d).event = [opts |-> {}, due |-> d]
      BY DEF Fresh
    <3> QED
      BY <3>1, <3>3, <3>4 DEF Obliged
  <2> QED
    BY <2>1, <2>2, InitType, InitRequested DEF Watched
<1>2. IInv /\ [Next]_vars => IInv'
  BY NextType, ServicesNext, RequestedStep, PromiseStep, WatchedStep
<1>3. IInv => NeverForgotten
  BY DEF Watched, NeverForgotten, Obliged, Promised, PromisedBy, PromisedIn,
         Armed, FlightsOf, QueuedOf
<1> QED
  BY <1>1, <1>2, <1>3, PTL DEF Spec

-----------------------------------------------------------------------------
(* NoFalseOrphan.  With recurrent checks only, next_check follows the event *)
(* while it waits, and while a plugin runs it falls behind no faster than   *)
(* the plugin ages: the margin of the watchdog covers both.                 *)

LEMMA LeastDate ==
  ASSUME NEW S \in SUBSET Nat, S # {}
  PROVE  \E x \in S : \A y \in S : x <= y
<1> DEFINE R == OpToRel(<, Nat)
<1>1. PICK x \in S : \A y \in S : <<y, x>> \notin R
  <2>1. IsWellFoundedOn(R, Nat)
    BY NatLessThanWellFounded
  <2> HIDE DEF R
  <2> QED
    BY <2>1, WFMin
<1>2. ASSUME NEW y \in S PROVE x <= y
  <2>1. <<y, x>> \in Nat \X Nat /\ <<y, x>> \notin R
    BY <1>1
  <2>2. ~(<<y, x>>[1] < <<y, x>>[2])
    BY <2>1 DEF OpToRel
  <2> QED
    BY <2>2
<1> QED
  BY <1>2

(* Time passes only while no event is overdue: the first one stands for all. *)
LEMMA TickDue ==
  ASSUME TypeOK, Tick, NEW s \in Services, Armed(s)
  PROVE  svc[s].event.due > -MaxLate
<1> DEFINE At(o) == svc[o].event.due - Past
           S == {At(o) : o \in {x \in Services : Armed(x)}}
<1>1. \A o \in Services : Armed(o) => svc[o].event.due \in Dates
  BY DEF Armed, TypeOK, Service, Event
<1>2. Past \in Int /\ \A d \in Dates : d \in Int /\ d - Past \in Nat
  BY DEF Dates, Past
<1>3. S \in SUBSET Nat /\ S # {}
  BY <1>1, <1>2
<1>4. PICK o \in Services : Armed(o) /\ \A y \in S : At(o) <= y
  <2> HIDE DEF At
  <2>1. PICK x \in S : \A y \in S : x <= y
    BY <1>3, LeastDate
  <2> QED
    BY <2>1
<1>5. \A x \in Services : Armed(x) => svc[o].event.due <= svc[x].event.due
  <2> SUFFICES ASSUME NEW x \in Services, Armed(x)
               PROVE  svc[o].event.due <= svc[x].event.due
    OBVIOUS
  <2>1. At(o) <= At(x)
    BY <1>4
  <2>2. svc[o].event.due \in Int /\ svc[x].event.due \in Int
    BY <1>1, <1>2, <1>4
  <2> QED
    BY <1>2, <2>1, <2>2
<1>6. svc[s].event.due \in Int /\ svc[o].event.due \in Int
      /\ svc[o].event.due <= svc[s].event.due
  BY <1>1, <1>2, <1>4, <1>5
<1>7. CASE svc[o].event.due > 0
  BY <1>6, <1>7
<1>8. CASE svc[o].event.due <= 0
  <2>1. Due(o)
    BY <1>4, <1>5, <1>8 DEF Due
  <2>2. svc[o].event.due > -MaxLate
    BY <2>1 DEF Tick
  <2> QED
    BY <1>6, <2>2
<1> QED
  BY <1>6, <1>7, <1>8

AllOnTime == \A s \in Services : OnTime(svc[s])

Tracked ==
  \A s \in Services, i \in Ids :
    /\ svc[s].live /\ svc[s].executing
    /\ flight[i] # None /\ flight[i].result.svc = s
    /\ ~flight[i].done /\ flight[i].result.age < PluginTimeout
    => svc[s].next + flight[i].result.age + MaxLate >= 0

\* what the watchdog has to leave room for
Tolerant == /\ OneShot = {} /\ Features \cap {"predictive", "switch"} = {}
            /\ OrphanAfter >= PluginTimeout + MaxLate

LEMMA OnTimeStep ==
  ASSUME TypeOK, Tolerant, AllOnTime, ServicesStep
  PROVE  AllOnTime'
<1> SUFFICES ASSUME NEW x \in Services PROVE OnTime(svc'[x])
  BY DEF AllOnTime
<1>0. OnTime(svc[x]) /\ Recurrent
  BY DEF AllOnTime, Tolerant, Recurrent
<1>1. CASE \E s \in Services : RunEvent(s) /\ Started(s)
  BY <1>0, <1>1 DEF Started, OnTime
<1>2. CASE \A s \in Services : Tame(svc[s], svc'[s])
  BY <1>0, <1>2 DEF Tame
<1>3. ASSUME NEW r \in Result, Handled(r) PROVE OnTime(svc'[x])
  <2>1. CASE x # r.svc
    BY <1>0, <1>3, <2>1 DEF Handled
  <2>2. CASE x = r.svc
    <3>1. Ended(svc[x], svc'[x], r)
      BY <1>3, <2>2 DEF Handled
    <3>2. CASE svc'[x].event = svc[x].event /\ svc'[x].next = svc[x].next
               /\ svc'[x].should = svc[x].should
      BY <1>0, <3>1, <3>2 DEF Ended, OnTime
    <3>3. CASE /\ OneShot = {} /\ svc[x].enabled => svc'[x].should
               /\ svc'[x].should => /\ svc'[x].next = svc'[x].event.due
                                    /\ \/ svc'[x].event = svc[x].event
                                       \/ svc'[x].event.due >= 0
               /\ svc'[x].should => svc'[x].enabled /\ svc'[x].event # None
      <4>1. /\ svc'[x].live => svc'[x].enabled /\ svc'[x].should
            /\ svc'[x].live => svc[x].live
        BY <1>0, <3>1, <3>3 DEF Ended, OnTime, Tolerant
      <4>2. svc'[x].live => svc'[x].next = svc'[x].event.due
        BY <3>3, <4>1
      <4>3. svc'[x].live => svc'[x].next >= -MaxLate
        <5> SUFFICES ASSUME svc'[x].live PROVE svc'[x].next >= -MaxLate
          OBVIOUS
        <5>1. CASE svc'[x].event = svc[x].event
          BY <1>0, <3>3, <4>1, <4>2, <5>1 DEF OnTime
        <5>2. CASE svc'[x].event.due >= 0
          <6>1. svc'[x].next >= 0
            BY <4>2, <5>2
          <6>2. svc'[x].next \in Int
            BY <3>1 DEF Ended, Service, Dates, Past
          <6> QED
            BY <6>1, <6>2
        <5> QED
          BY <3>3, <4>1, <5>1, <5>2
      <4> QED
        BY <4>1, <4>2, <4>3 DEF OnTime
    <3> QED
      BY <3>1, <3>2, <3>3 DEF Ended
  <2> QED
    BY <2>1, <2>2
<1>4. CASE Tick /\ \A s \in Services : Ticked(svc[s], svc'[s])
  <2>1. ASSUME svc[x].live, svc[x].event # None
        PROVE  /\ svc[x].next = svc[x].event.due
               /\ Earlier(svc[x].next) >= -MaxLate
    <3>1. svc[x].event.due > -MaxLate
      BY <1>4, <2>1, TickDue DEF Armed
    <3>2. svc[x].next = svc[x].event.due /\ svc[x].next \in Dates
      BY <1>0, <2>1 DEF OnTime, TypeOK, Service
    <3>3. Past < -MaxLate /\ Past \in Int
      BY DEF Past, Tolerant
    <3> QED
      BY <3>1, <3>2, <3>3 DEF Earlier, Dates
  <2>2. Ticked(svc[x], svc'[x])
    BY <1>4
  <2> QED
    BY <1>0, <2>1, <2>2 DEF Ticked, OnTime
<1>5. ASSUME NEW m \in Services PROVE ~CheckMaster(m)
  BY DEF CheckMaster, On, Tolerant
<1> QED
  BY <1>0, <1>1, <1>2, <1>3, <1>4, <1>5 DEF ServicesStep

(* The next step, for a service that executes after it and a plugin of it.  *)
LEMMA TrackedStep ==
  ASSUME TypeOK, TypeOK', Tolerant, AllOnTime, Tracked, ServicesStep
  PROVE  Tracked'
<1> SUFFICES ASSUME NEW x \in Services, NEW i \in Ids,
                    svc'[x].live, svc'[x].executing,
                    flight'[i] # None, flight'[i].result.svc = x,
                    ~flight'[i].done, flight'[i].result.age < PluginTimeout
             PROVE  svc'[x].next + flight'[i].result.age + MaxLate >= 0
  BY DEF Tracked
<1>0. /\ flight \in [Ids -> Flight \cup {None}]
      /\ svc[x] \in Service /\ svc[x].next \in Int /\ svc'[x].next \in Int
      /\ flight[i] # None => flight[i] \in Flight /\ flight[i].result.age \in Nat
      /\ OnTime(svc[x]) /\ Recurrent
      /\ \A s \in Services, j \in Ids :
           flight[j] # None => flight[j].result.age \in Nat
  <2>1. /\ flight \in [Ids -> Flight \cup {None}]
        /\ svc \in [Services -> Service] /\ svc' \in [Services -> Service]
    BY DEF TypeOK
  <2>2. OnTime(svc[x]) /\ Recurrent
    BY DEF AllOnTime, Tolerant, Recurrent
  <2>3. \A v \in Service : v.next \in Int
    BY DEF Service, Dates, Past
  <2>4. \A f \in Flight : f.result.age \in Nat
    BY DEF Flight, Result, Ages
  <2> QED
    BY <2>1, <2>2, <2>3, <2>4
<1>1. ASSUME NEW s \in Services, RunEvent(s), Started(s)
      PROVE  svc'[x].next + flight'[i].result.age + MaxLate >= 0
  <2>1. \/ flight'[i] = flight[i]
        \/ flight'[i].result.age = 0 /\ flight'[i].result.svc = s
    BY <1>0, <1>1 DEF RunEvent, Launch, Launched
  <2>2. CASE x = s
    <3>1. svc'[x].next = svc[x].next /\ svc[x].live
      BY <1>1, <2>2 DEF Started
    <3>2. svc[x].next >= -MaxLate
      BY <1>0, <1>1, <2>2, <3>1 DEF OnTime, RunEvent, Due, Armed
    <3>3. flight'[i].result.age \in Nat
      BY <1>0, <2>1
    <3> QED
      BY <1>0, <3>1, <3>2, <3>3
  <2>3. CASE x # s
    BY <1>1, <2>1, <2>3 DEF Started, Tracked
  <2> QED
    BY <2>2, <2>3
<1>2. CASE UNCHANGED <<flight, toReap>> /\ \A s \in Services : Tame(svc[s], svc'[s])
  <2>1. /\ svc[x].live /\ svc[x].executing
        /\ svc'[x].next = svc[x].next \/ svc'[x].next >= -MaxLate
    BY <1>0, <1>2 DEF Tame
  <2>2. CASE svc'[x].next = svc[x].next
    BY <1>2, <2>1, <2>2 DEF Tracked
  <2>3. CASE svc'[x].next >= -MaxLate
    <3>1. flight'[i].result.age \in Nat
      BY <1>0, <1>2
    <3> QED
      BY <1>0, <2>3, <3>1
  <2> QED
    BY <2>1, <2>2, <2>3
<1>3. CASE /\ \/ \E s \in Services : PassiveResult(s)
              \/ \E j \in Ids : Finished(j) \/ Lose(j) \/ Merge(j)
           /\ UNCHANGED svc
  <2>1. flight'[i] = flight[i]
    <3>1. ASSUME NEW j \in Ids, Finished(j) PROVE flight'[i] = flight[i]
      <4>1. flight'[j].done
        <5>1. flight[j] \in Flight
          BY <1>0, <3>1 DEF Finished
        <5> QED
          BY <1>0, <3>1, <5>1 DEF Finished, Flight
      <4> QED
        BY <1>0, <3>1, <4>1 DEF Finished
    <3>2. ASSUME NEW j \in Ids, Lose(j) \/ Merge(j) PROVE flight'[i] = flight[i]
      BY <1>0, <3>2 DEF Lose, Merge
    <3> QED
      BY <1>3, <3>1, <3>2 DEF PassiveResult
  <2> QED
    BY <1>3, <2>1 DEF Tracked
<1>4. ASSUME NEW r \in Result, Handled(r), HandleResult
      PROVE  svc'[x].next + flight'[i].result.age + MaxLate >= 0
  <2>1. UNCHANGED flight
    BY <1>4 DEF HandleResult
  <2>2. svc[x].live /\ svc[x].executing
        /\ (svc'[x].next = svc[x].next \/ svc'[x].next >= 0)
    <3>1. CASE x # r.svc
      BY <1>4, <3>1 DEF Handled
    <3>2. CASE x = r.svc
      <4>1. Ended(svc[x], svc'[x], r)
        BY <1>4, <3>2 DEF Handled
      <4> QED
        BY <1>0, <4>1 DEF Ended, OnTime, Tolerant
    <3> QED
      BY <3>1, <3>2
  <2>3. CASE svc'[x].next = svc[x].next
    BY <2>1, <2>2, <2>3 DEF Tracked
  <2>4. CASE svc'[x].next >= 0
    <3>1. flight[i].result.age \in Nat
      BY <1>0, <2>1
    <3> QED
      BY <1>0, <2>1, <2>4, <3>1
  <2> QED
    BY <2>2, <2>3, <2>4
<1>5. CASE Tick /\ \A s \in Services : Ticked(svc[s], svc'[s])
  <2>1. flight[i] # None /\ flight'[i] = [flight[i] EXCEPT !.result.age = Older(@)]
    BY <1>5 DEF Tick
  <2>2. /\ flight'[i].done = flight[i].done
        /\ flight'[i].result.svc = flight[i].result.svc
        /\ flight'[i].result.age = Older(flight[i].result.age)
    BY <1>0, <2>1, AgedFields
  <2>3. /\ flight[i].result.age < PluginTimeout
        /\ flight'[i].result.age = flight[i].result.age + 1
    BY <1>0, <2>1, <2>2 DEF Older
  <2>4. svc[x].live /\ svc[x].executing /\ svc'[x].next = Earlier(svc[x].next)
    BY <1>5 DEF Ticked
  <2>5. svc'[x].next \in Int /\ svc'[x].next >= svc[x].next - 1
    BY <1>0, <2>4 DEF Earlier
  <2>6. svc[x].next + flight[i].result.age + MaxLate >= 0
    BY <2>1, <2>2, <2>3, <2>4 DEF Tracked
  <2> QED
    BY <1>0, <2>1, <2>3, <2>5, <2>6
<1>6. ASSUME NEW m \in Services PROVE ~CheckMaster(m)
  BY DEF CheckMaster, On, Tolerant
<1> QED
  BY <1>1, <1>2, <1>3, <1>4, <1>5, <1>6 DEF ServicesStep

(* Between two events, only the orphan watchdog clears the flag.            *)
LEMMA OnlyOverdueCleared ==
  ASSUME TypeOK, [Next]_vars, phase = "loop", NEW s \in Services,
         svc[s].live, svc[s].executing, svc'[s].live, ~svc'[s].executing
  PROVE  s \in Overdue
<1>0. svc[s] \in Service /\ svc \in [Services -> Service]
  BY DEF TypeOK
<1>1. \A x \in Services \ {s} : \A v : [svc EXCEPT ![x] = v][s] = svc[s]
  BY <1>0
<1>2. ASSUME NEW u \in Service, NEW t \in Dates, NEW o \in Options,
             u.executing = svc[s].executing, svc'[s] = Schedule(u, t, o)
      PROVE  FALSE
  BY <1>2, ScheduleKeeps
<1>3. ASSUME NEW x \in Services, RunEvent(x) PROVE FALSE
  <2>1. PICK v : svc' = [[svc EXCEPT ![x] = v] EXCEPT ![x].executing = TRUE]
                 /\ v = [svc[x] EXCEPT !.event = None, !.options = {}]
    BY <1>3 DEF RunEvent, Launch
  <2> QED
    BY <1>0, <2>1 DEF Service
<1>4. ASSUME NEW x \in Services, NotViable(x) PROVE FALSE
  <2>1. x = s
    BY <1>0, <1>4 DEF NotViable
  <2> DEFINE v == [svc[s] EXCEPT !.event = None]
  <2>2. svc[s].event.opts \in Options
    BY <1>0, <1>4, <2>1 DEF NotViable, Due, Armed, Service, Event
  <2>3. v \in Service /\ v.executing = svc[s].executing
        /\ \A d \in Dates : /\ [v EXCEPT !.next = d] \in Service
                            /\ [v EXCEPT !.next = d].executing = svc[s].executing
    BY <1>0 DEF Service
  <2>4. \/ svc'[s] = v
        \/ \E d \in 1 .. MaxDelay :
             svc'[s] = Schedule([v EXCEPT !.next = d], d, svc[s].event.opts)
    BY <1>0, <1>4, <2>1 DEF NotViable
  <2>5. \A d \in 1 .. MaxDelay : d \in Dates
    BY DatesFacts
  <2> HIDE DEF v
  <2> QED
    BY <1>2, <2>2, <2>3, <2>4, <2>5
<1>5. ASSUME NEW x \in Services, Nudge(x) PROVE FALSE
  BY <1>0, <1>5 DEF Nudge, Moved, Service
<1>6. ASSUME NEW x \in Services, ScheduleCommand(x) PROVE FALSE
  <2>1. x = s
    BY <1>0, <1>6 DEF ScheduleCommand
  <2>2. PICK o \in Options, t \in Dates : svc'[s] = Schedule(svc[s], t, o)
    <3>1. PICK o \in {{}, {"force"}}, t \in 0 .. MaxDelay :
            svc' = [svc EXCEPT ![s] = Schedule(svc[s], t, o)]
      BY <1>6, <2>1 DEF ScheduleCommand
    <3>2. o \in Options /\ t \in Dates
      BY OptionsFacts, DatesFacts
    <3>3. svc'[s] = Schedule(svc[s], t, o)
      BY <1>0, <3>1
    <3> QED
      BY <3>2, <3>3
  <2> QED
    BY <1>0, <1>2, <2>2
<1>7. ASSUME NEW x \in Services, DisableChecks(x) PROVE FALSE
  BY <1>0, <1>7 DEF DisableChecks, Service
<1>8. ASSUME NEW x \in Services, EnableChecks(x) PROVE FALSE
  <2>1. x = s
    BY <1>0, <1>8 DEF EnableChecks
  <2> DEFINE v(d) == [svc[s] EXCEPT !.enabled = TRUE, !.should = s \notin OneShot,
                                    !.next = d]
  <2>2. PICK d \in 0 .. MaxDelay : svc'[s] = IF v(d).should THEN Schedule(v(d), d, {}) ELSE v(d)
    BY <1>0, <1>8, <2>1 DEF EnableChecks
  <2>3. d \in Dates /\ {} \in Options
    BY DatesFacts, OptionsFacts
  <2>4. v(d) \in Service /\ v(d).executing = svc[s].executing
    BY <1>0, <2>3 DEF Service
  <2> HIDE DEF v
  <2> QED
    BY <1>2, <2>2, <2>3, <2>4
<1>9. ASSUME NEW x \in Services, Reload(x) PROVE FALSE
  <2>1. ~Gone(s).live
    BY DEF Gone, Fresh
  <2> QED
    BY <1>0, <1>9, <2>1 DEF Reload
<1>10. ASSUME NEW x \in Services, ReloadModified(x) PROVE FALSE
  BY <1>0, <1>10 DEF ReloadModified, Service
<1>11. CASE Orphans
  BY <1>11 DEF Orphans
<1>12. CASE Freshness
  <2>1. [svc[s] EXCEPT !.freshening = TRUE] \in Service
        /\ [svc[s] EXCEPT !.freshening = TRUE].executing = svc[s].executing
    BY <1>0 DEF Service
  <2>2. \/ svc'[s] = svc[s]
        \/ svc'[s] = Schedule([svc[s] EXCEPT !.freshening = TRUE], 0, {"force", "fresh"})
    BY <1>12 DEF Freshness
  <2> QED
    BY <1>2, <2>1, <2>2, DatesFacts, OptionsFacts
<1>13. CASE Tick
  BY <1>13, TickShape DEF Ticked
<1>14. CASE HandleResult \/ \E m \in Services : CheckMaster(m) \/ SkipMaster(m)
  BY <1>14 DEF HandleResult, CheckMaster, SkipMaster, NextMaster
<1>15. CASE UNCHANGED svc
  BY <1>15
<1> QED
  BY <1>3, <1>4, <1>5, <1>6, <1>7, <1>8, <1>9, <1>10, <1>11, <1>12, <1>13,
     <1>14, <1>15
     DEF Next, Reap, PassiveResult, Finished, Lose, BeginReap, Merge, Merged,
         EndReap, SwitchExecution, vars

\* what NoFalseOrphan says of a step
NoneGivenUp ==
  \A s \in Services :
    /\ svc[s].live /\ svc[s].executing
    /\ phase = "loop" /\ svc'[s].live /\ ~svc'[s].executing
    => \A i \in FlightsOf(s) :
         flight[i].done \/ flight[i].result.age >= PluginTimeout

(* NoFalseOrphan.  The orphan watchdog never gives up on a check whose      *)
(* plugin is within its timeout, if the margin of the watchdog covers the   *)
(* timeout and the lateness of the loop: for services that are checked      *)
(* regularly, without on-demand checks, and whatever is forced, nudged,     *)
(* rescheduled, reloaded or lost.                                           *)
THEOREM RunningChecksKept ==
  ASSUME Tolerant
  PROVE  Spec => NoFalseOrphan
<1> DEFINE IInv == TypeOK /\ AllOnTime /\ Tracked
<1>1. Init => IInv
  <2> SUFFICES ASSUME Init PROVE IInv
    OBVIOUS
  <2>1. ASSUME NEW s \in Services PROVE OnTime(svc[s]) /\ ~svc[s].executing
    <3>1. PICK d \in 0 .. MaxDelay : svc[s] = Fresh(s, d)
      BY DEF Init
    <3>2. /\ Fresh(s, d).enabled /\ Fresh(s, d).should /\ ~Fresh(s, d).executing
          /\ Fresh(s, d).event = [opts |-> {}, due |-> d] /\ Fresh(s, d).next = d
      BY DEF Fresh, Tolerant
    <3> QED
      BY <3>1, <3>2 DEF OnTime
  <2> QED
    BY <2>1, InitType DEF AllOnTime, Tracked
<1>2. IInv /\ [Next]_vars => IInv'
  <2> SUFFICES ASSUME IInv, [Next]_vars PROVE IInv'
    OBVIOUS
  <2>1. TypeOK' /\ ServicesStep
    BY NextType, ServicesNext
  <2> QED
    BY <2>1, OnTimeStep, TrackedStep
<1>3. IInv /\ [Next]_vars => NoneGivenUp
  <2> SUFFICES ASSUME IInv, [Next]_vars, NEW s \in Services,
                      svc[s].live, svc[s].executing, phase = "loop",
                      svc'[s].live, ~svc'[s].executing, NEW i \in FlightsOf(s),
                      ~flight[i].done, ~(flight[i].result.age >= PluginTimeout)
               PROVE  FALSE
    BY DEF NoneGivenUp
  <2>1. i \in Ids /\ flight[i] # None /\ flight[i].result.svc = s
    BY DEF FlightsOf
  <2>2. flight[i].result.age \in Nat /\ svc[s].next \in Int
    BY <2>1 DEF TypeOK, Flight, Result, Ages, Service, Dates, Past
  <2>3. svc[s].next + flight[i].result.age + MaxLate >= 0
    BY <2>1, <2>2 DEF Tracked
  <2>4. svc[s].next < -OrphanAfter
    BY OnlyOverdueCleared DEF Overdue
  <2> QED
    BY <2>2, <2>3, <2>4 DEF Tolerant
<1>4. IInv /\ [Next]_vars => [NoneGivenUp]_vars
  BY <1>3
<1> QED
  BY <1>1, <1>2, <1>4, PTL DEF Spec, NoFalseOrphan, NoneGivenUp
=============================================================================
