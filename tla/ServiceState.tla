---------------------------- MODULE ServiceState ----------------------------
(***************************************************************************)
(* What the results of its checks do to one service and to the contacts:   *)
(* soft and hard states, attempts, a host that goes down, and which        *)
(* problem and recovery notifications go out                               *)
(* (handle_async_service_check_result of src/checks.cc, service_notification *)
(* of src/notifications.cc, src/flapping.cc).  How the results come is the   *)
(* matter of CheckCycle.                                                     *)
(*                                                                         *)
(* Dates are kept as distances from now: the time since last_notification  *)
(* and initial_notif_time, the time before next_notification.  Both sides   *)
(* saturate where no test tells them apart.  Contacts act as one: a contact *)
(* who accepts every notification while on duty.                            *)
(***************************************************************************)
EXTENDS Integers

CONSTANTS
  Problems,       \* the states that are not OK
  Attempts,       \* the values that max_check_attempts may take
  Interval,       \* notification_interval
  FirstDelay,     \* first_notification_delay
  RecoveryDelay,  \* recovery_notification_delay
  Volatile,       \* is_volatile
  NotifyOn,       \* the notify_on_<state> options that are set
  NotifyFlapping, \* notify_on_flapping
  NotifyDowntime, \* notify_on_downtime
  MaxDepth,       \* bound: downtimes in effect
  MaxClosed,      \* bound: how long the notification period stays closed
  MaxNumber,      \* bound: the notification number saturates
  None,
  Features        \* what happens in a run besides results and notifications

OK == "OK"
States == {OK} \cup Problems
AllFeatures == {"ack", "attempts", "custom", "downtime", "duty", "flapping",
                "hostdown", "number", "period", "restart", "switch"}

ASSUME ServiceStateAssumption ==
  /\ OK \notin Problems
  /\ Attempts # {} /\ Attempts \subseteq Nat \ {0}
  /\ Interval \in Nat /\ FirstDelay \in Nat /\ RecoveryDelay \in Nat
  /\ Volatile \in BOOLEAN
  /\ NotifyFlapping \in BOOLEAN /\ NotifyDowntime \in BOOLEAN
  /\ NotifyOn \subseteq States
  /\ MaxDepth \in Nat /\ MaxClosed \in Nat /\ MaxNumber \in Nat \ {0}
  /\ Features \subseteq AllFeatures
  /\ None \notin Int

VARIABLES
  svc,  \* the fields of the service, and what contacts have been told
  env   \* its host, its period, the switches, the contact

vars == <<svc, env>>

Cap(a, b) == IF a < b THEN a ELSE b
Kinds == {"PROBLEM", "RECOVERY", "UNTOLD"}

Service == [current     : States,
            type        : {"SOFT", "HARD"},
            attempt     : Nat \ {0},
            max         : Attempts,
            lastHard    : States,
            hostProblem : BOOLEAN,          \* host_problem_at_last_check
            acked       : BOOLEAN,
            ackType     : {None, "NORMAL", "STICKY"},
            number      : 0 .. MaxNumber,   \* current_notification_number
            notified    : SUBSET Problems,  \* notified_on_<state>
            last        : (0 .. Interval) \cup {None},
            next        : Nat,
            noMore      : BOOLEAN,
            initial     : Nat \cup {None},
            recovered   : BOOLEAN,          \* recovery_been_sent
            flapping    : BOOLEAN,
            flapRecovery : BOOLEAN,  \* check_flapping_recovery_notification
            downtime    : 0 .. MaxDepth,
            told        : BOOLEAN,   \* history: contacts know of a problem
            deferred    : BOOLEAN,   \* history: a closed period moved next (if there is an interval)
            sent        : SUBSET Kinds,  \* history: sent by the last step
            streak      : Nat]       \* history: problem results in a row

Environment == [up      : BOOLEAN,          \* the host
                closed  : 0 .. MaxClosed,   \* time before the period reopens
                enabled : BOOLEAN,          \* notifications_enabled
                duty    : BOOLEAN]          \* the contact can be notified

On(f) == f \in Features

\* a service as register_service creates it, with its configured initial state
Created(s, m) ==
  [current |-> s, type |-> "HARD", attempt |-> IF s = OK THEN 1 ELSE m,
   max |-> m, lastHard |-> s, hostProblem |-> FALSE, acked |-> FALSE,
   ackType |-> None, number |-> 0, notified |-> {}, last |-> None, next |-> 0,
   noMore |-> FALSE, initial |-> None, recovered |-> TRUE, flapping |-> FALSE,
   flapRecovery |-> FALSE, downtime |-> 0, told |-> FALSE,
   deferred |-> FALSE, sent |-> {}, streak |-> IF s = OK THEN 0 ELSE m]

Init == /\ \E s \in States, m \in Attempts : svc = Created(s, m)
        /\ env = [up |-> TRUE, closed |-> 0, enabled |-> TRUE, duty |-> TRUE]

-----------------------------------------------------------------------------
(* service_notification, type NORMAL: check_service_notification_viability  *)
(* and its side effects, then what a notification changes.                  *)

\* the filters before the delay
PassesFilters(v, e) ==
  /\ e.closed = 0 /\ e.enabled
  /\ v.type = "HARD" /\ ~v.acked
  /\ v.current \in NotifyOn
  /\ v.current = OK => v.notified # {}

\* a first problem notification, or a recovery to announce, is delayed
Delayed(v) == v.number = 0 \/ (v.current = OK /\ ~v.recovered)
Delay(v) == IF v.current = OK THEN RecoveryDelay ELSE FirstDelay

Considered(v, e) ==
  IF e.closed > 0 THEN [v EXCEPT !.next = e.closed, !.deferred = Interval > 0]
  ELSE IF PassesFilters(v, e) /\ Delayed(v) /\ v.initial = None
  THEN [v EXCEPT !.initial = 0]
  ELSE v

Viable(v, e) ==
  /\ PassesFilters(v, e)
  /\ Delayed(v) => v.initial >= Delay(v)
  /\ ~v.flapping /\ v.downtime = 0
  /\ \/ v.current = OK /\ v.number > 0
     \/ v.current # OK /\ ~v.noMore /\ e.up /\ (v.next = 0 \/ Volatile)

\* the history that goes with a notification
Announced(v) ==
  IF v.current # OK
  THEN [v EXCEPT !.told = TRUE, !.sent = @ \cup {"PROBLEM"}]
  ELSE [v EXCEPT !.told = FALSE,
                 !.sent = @ \cup {IF v.told THEN "RECOVERY" ELSE "UNTOLD"}]

Delivered(v) ==
  Announced([v EXCEPT !.number = Cap(@ + 1, MaxNumber),
                      !.next = Interval, !.last = 0, !.deferred = FALSE,
                      !.noMore = Interval = 0 /\ ~Volatile,
                      !.notified = @ \cup ({v.current} \cap Problems)])

\* recovery_been_sent, at the end of service_notification
Ended(v) == [v EXCEPT !.recovered = @ \/ v.current = OK]

NotifyNormal(v, e) ==
  LET c == Considered(v, e) IN
  IF ~Viable(c, e) THEN c
  ELSE Ended(IF e.duty THEN Delivered(c) ELSE c)

(* The other types leave the state of the problem alone, but for the end of  *)
(* service_notification.                                                     *)
NotifyOther(v, e, allowed) ==
  IF e.closed = 0 /\ e.enabled /\ v.downtime = 0 /\ allowed THEN Ended(v) ELSE v

-----------------------------------------------------------------------------
(* check_for_service_flapping: f is what the history of states says. *)
Flaps == {"keep"} \cup (IF On("flapping") THEN {"start", "stop"} ELSE {})

SetFlap(v, e) ==
  NotifyOther([v EXCEPT !.flapping = TRUE,
                        !.flapRecovery = v.current # OK /\ v.number > 0],
              e, NotifyFlapping)

ClearFlap(v, e) ==
  LET n == NotifyOther([v EXCEPT !.flapping = FALSE], e, NotifyFlapping)
      r == IF n.flapRecovery /\ n.current = OK THEN NotifyNormal(n, e) ELSE n
  IN [r EXCEPT !.flapRecovery = FALSE]

Flap(v, e, f) ==
  IF v.type = "SOFT" /\ v.current # OK THEN v
  ELSE IF f = "start" /\ ~v.flapping THEN SetFlap(v, e)
  ELSE IF f = "stop" /\ v.flapping THEN ClearFlap(v, e)
  ELSE v

(* handle_scheduled_downtime, a downtime that starts *)
DowntimeStarted(v, e) ==
  [NotifyOther(v, e, NotifyDowntime) EXCEPT !.downtime = @ + 1]

-----------------------------------------------------------------------------
(* handle_async_service_check_result *)

\* the attempt counted, the new state taken, the changes it makes noticed
Counted(v, r) ==
  [v EXCEPT !.current = r,
            !.attempt = IF v.type = "SOFT" /\ @ < v.max THEN @ + 1 ELSE @,
            !.sent = {},
            !.streak = IF r = OK THEN 0 ELSE Cap(@ + 1, v.max)]

HardChange(v) ==
  \/ v.hostProblem /\ v.current = OK
  \/ v.attempt >= v.max /\ v.current # v.lastHard

Changed(v, change) ==
  IF ~change /\ ~HardChange(v) THEN v
  ELSE LET clear == \/ v.ackType = "NORMAL" /\ change
                    \/ v.ackType = "STICKY" /\ v.current = OK
       IN [v EXCEPT !.last = None, !.next = 0, !.noMore = FALSE,
                    !.acked = @ /\ ~clear,
                    !.ackType = IF clear THEN None ELSE @]

Mutant_ResetUnsent(v) ==
  [v EXCEPT !.hostProblem = FALSE, !.attempt = 1, !.type = "HARD",
            !.lastHard = OK, !.last = None, !.next = 0,
            !.acked = FALSE, !.ackType = None, !.noMore = FALSE,
            !.number = 0, !.notified = {}, !.initial = None]

Mutant_ResetKept(v) ==
  [v EXCEPT !.hostProblem = FALSE, !.attempt = 1, !.type = "HARD",
            !.lastHard = OK, !.last = None, !.next = 0,
            !.acked = FALSE, !.ackType = None, !.noMore = FALSE]

Mutant_ResetAttempt(v) ==
  LET w == [v EXCEPT !.hostProblem = FALSE, !.type = "HARD",
                     !.lastHard = OK, !.last = None, !.next = 0,
                     !.acked = FALSE, !.ackType = None, !.noMore = FALSE]
  IN IF w.recovered THEN [w EXCEPT !.number = 0, !.notified = {}, !.initial = None]
     ELSE w

Reset(v) ==
  LET w == [v EXCEPT !.hostProblem = FALSE, !.attempt = 1, !.type = "HARD",
                     !.lastHard = OK, !.last = None, !.next = 0,
                     !.acked = FALSE, !.ackType = None, !.noMore = FALSE]
  IN IF w.recovered THEN [w EXCEPT !.number = 0, !.notified = {}, !.initial = None]
     ELSE w

Mutant_Recover(v, e, change, f) ==
  LET u == [v EXCEPT !.acked = FALSE, !.ackType = None] IN
  IF HardChange(v)
  THEN Reset(NotifyNormal(
         Flap([u EXCEPT !.type = "HARD", !.recovered = FALSE, !.initial = None],
              e, f), e))
  ELSE Flap(Reset(IF change THEN [u EXCEPT !.type = "SOFT"] ELSE u), e, f)

\* a hard recovery is announced, and again at every result until it is
Recover(v, e, change, f) ==
  LET u == [v EXCEPT !.acked = FALSE, !.ackType = None] IN
  IF HardChange(v)
  THEN Reset(NotifyNormal(
         Flap([u EXCEPT !.type = "HARD", !.recovered = FALSE, !.initial = None],
              e, f), e))
  ELSE LET w == IF change THEN [u EXCEPT !.type = "SOFT"] ELSE u
       IN Flap(Reset(IF w.recovered THEN w ELSE NotifyNormal(w, e)), e, f)

Mutant_Routed(v, e) ==
  IF ~e.up
  THEN LET hard == HardChange(v) \/ v.lastHard # v.current
       IN [v EXCEPT !.hostProblem = TRUE,
                    !.type = IF hard THEN "HARD" ELSE @,
                    !.lastHard = IF hard THEN v.current ELSE @]
  ELSE IF v.hostProblem
  THEN [v EXCEPT !.hostProblem = FALSE, !.attempt = 1]
  ELSE v

\* a problem while the host is down is a hard one, with no retries
Routed(v, e) ==
  IF ~e.up
  THEN LET hard == HardChange(v) \/ v.lastHard # v.current
       IN [v EXCEPT !.hostProblem = TRUE,
                    !.type = IF hard THEN "HARD" ELSE @,
                    !.lastHard = IF hard THEN v.current ELSE @]
  ELSE IF v.hostProblem
  THEN [v EXCEPT !.hostProblem = FALSE,
                 !.attempt = IF v.type = "SOFT" THEN 1 ELSE @]
  ELSE v

Mutant_Failed(v, e, change, f, starts) ==
  LET u == Routed(v, e) IN
  IF u.attempt < u.max
  THEN Flap(IF e.up THEN [u EXCEPT !.type = "SOFT"] ELSE u, e, f)
  ELSE LET h == Flap([u EXCEPT !.type = "HARD"], e, f)
       IN [IF HardChange(v) THEN NotifyNormal(h, e) ELSE h EXCEPT !.lastHard = v.current]

\* starts: a flexible downtime was waiting for a problem
Failed(v, e, change, f, starts) ==
  LET u == Routed(v, e) IN
  IF u.attempt < u.max
  THEN Flap(IF e.up THEN [u EXCEPT !.type = "SOFT"] ELSE u, e, f)
  ELSE LET h == [u EXCEPT !.type = "HARD"]
           d == IF starts /\ (change \/ HardChange(v)) THEN DowntimeStarted(h, e)
                ELSE h
       IN [NotifyNormal(Flap(d, e, f), e) EXCEPT !.lastHard = v.current]

(* A check of the host made on the way is a HostResult just before. *)
Handle(r, f, starts) ==
  LET change == r # svc.current
      v == Counted(svc, r)
      w == Changed(v, change)
  IN /\ svc' = IF r = OK THEN Recover(w, env, change, f)
                         ELSE Failed(w, env, change, f, starts)
     /\ UNCHANGED env

-----------------------------------------------------------------------------
(* Everything else that touches the service between two results. *)
Unsent(v) == [v EXCEPT !.sent = {}]

\* the host changes state (handle_async_host_check_result_3x)
HostResult ==
  /\ On("hostdown")
  /\ env' = [env EXCEPT !.up = ~@]
  /\ svc' = Unsent(svc)

\* acknowledge_service_problem
Acknowledge(type) ==
  /\ On("ack") /\ svc.current # OK
  /\ svc' = NotifyOther([Unsent(svc) EXCEPT !.acked = TRUE, !.ackType = type],
                        env, TRUE)
  /\ UNCHANGED env

\* remove_service_acknowledgement: the type is left behind
RemoveAcknowledgement ==
  /\ On("ack") /\ svc.acked
  /\ svc' = [Unsent(svc) EXCEPT !.acked = FALSE]
  /\ UNCHANGED env

\* check_for_expired_acknowledgement, when it finds the acknowledgement expired
AcknowledgementExpires ==
  /\ On("ack") /\ svc.acked
  /\ svc' = [Unsent(svc) EXCEPT !.acked = FALSE, !.ackType = None]
  /\ UNCHANGED env

StartDowntime ==
  /\ On("downtime") /\ svc.downtime < MaxDepth
  /\ svc' = DowntimeStarted(Unsent(svc), env)
  /\ UNCHANGED env

Mutant_EndDowntime ==
  /\ On("downtime")
  /\ svc' = NotifyOther([Unsent(svc) EXCEPT !.downtime = @ - 1], env, NotifyDowntime)
  /\ UNCHANGED env

\* handle_scheduled_downtime, a downtime that ends, and unschedule_downtime
EndDowntime ==
  /\ svc.downtime > 0
  /\ svc' = NotifyOther([Unsent(svc) EXCEPT !.downtime = @ - 1], env, NotifyDowntime)
  /\ UNCHANGED env

\* handle_service_flap_detection_disabled
DisableFlapDetection ==
  /\ svc.flapping
  /\ svc' = ClearFlap(Unsent(svc), env)
  /\ UNCHANGED env

(* SEND_CUSTOM_SVC_NOTIFICATION with its FORCED and INCREMENT options *)
CustomNotification(forced, increment) ==
  /\ On("custom")
  /\ forced \/ (env.closed = 0 /\ env.enabled /\ svc.downtime = 0)
  /\ LET v == Unsent(svc) IN
     svc' = Ended(IF increment THEN [v EXCEPT !.number = Cap(@ + 1, MaxNumber)] ELSE v)
  /\ UNCHANGED env

\* SET_SVC_NOTIFICATION_NUMBER
SetNumber(n) ==
  /\ On("number")
  /\ svc' = [Unsent(svc) EXCEPT !.number = n]
  /\ UNCHANGED env

\* CHANGE_MAX_SVC_CHECK_ATTEMPTS
ChangeMaxAttempts(m) ==
  /\ On("attempts")
  /\ svc' = [Unsent(svc) EXCEPT
               !.max = m,
               !.attempt = IF svc.type = "HARD" /\ svc.current # OK /\ @ > 1
                           THEN m ELSE @]
  /\ UNCHANGED env

\* a reload that modifies max_check_attempts (modify_object)
ReloadAttempts(m) ==
  /\ On("attempts")
  /\ svc' = [Unsent(svc) EXCEPT !.max = m]
  /\ UNCHANGED env

\* enable_service_notifications, disable_service_notifications
SwitchNotifications ==
  /\ On("switch")
  /\ env' = [env EXCEPT !.enabled = ~@]
  /\ svc' = Unsent(svc)

PeriodCloses(d) ==
  /\ On("period") /\ env.closed = 0
  /\ env' = [env EXCEPT !.closed = d]
  /\ svc' = Unsent(svc)

DutyChanges ==
  /\ On("duty")
  /\ env' = [env EXCEPT !.duty = ~@]
  /\ svc' = Unsent(svc)

Mutant_Restored(v, flaps) ==
  [Unsent(v) EXCEPT !.hostProblem = FALSE, !.next = 0, !.noMore = FALSE,
                    !.initial = None, !.flapping = flaps, !.downtime = 0]

(* The engine stops and starts: the service is created anew, then takes back  *)
(* what the retention file holds (dump::service, applier::service::_update).  *)
(* recovery_been_sent is saved and restored under a key in the wrong order,    *)
(* which names no service.  flaps: the history still says that it flaps, which *)
(* is looked at as after a result (use_large_installation_tweaks is off).      *)
Restored(v, flaps) ==
  LET again == v.current # OK /\ v.last # None
  IN [Unsent(v) EXCEPT
        !.attempt = IF v.current # OK /\ v.type = "HARD" THEN v.max ELSE @,
        !.hostProblem = FALSE,
        !.next = IF again THEN Interval - v.last ELSE 0,
        !.deferred = FALSE,
        !.noMore = again /\ Interval = 0 /\ ~Volatile,
        !.initial = None,
        !.recovered = TRUE,
        !.flapping = flaps,
        !.flapRecovery = IF flaps THEN v.current # OK /\ v.number > 0
                         ELSE @ /\ ~v.flapping,
        !.downtime = 0]

Restart(flaps) ==
  /\ On("restart")
  /\ flaps => svc.flapping /\ ~(svc.type = "SOFT" /\ svc.current # OK)
  /\ svc' = Restored(svc, flaps)
  /\ UNCHANGED env

(* A second passes. *)
LongestDelay == IF FirstDelay < RecoveryDelay THEN RecoveryDelay ELSE FirstDelay

Tick ==
  /\ svc' = [Unsent(svc) EXCEPT
               !.last = IF @ = None THEN None ELSE Cap(@ + 1, Interval),
               !.next = IF @ = 0 THEN 0 ELSE @ - 1,
               !.initial = IF @ = None THEN None ELSE Cap(@ + 1, LongestDelay)]
  /\ env' = [env EXCEPT !.closed = IF @ = 0 THEN 0 ELSE @ - 1]

-----------------------------------------------------------------------------
Starts == {FALSE} \cup (IF On("downtime") /\ svc.downtime < MaxDepth THEN {TRUE} ELSE {})
Result == \E r \in States, f \in Flaps, starts \in Starts : Handle(r, f, starts)

Next ==
  \/ Result
  \/ HostResult
  \/ \E type \in {"NORMAL", "STICKY"} : Acknowledge(type)
  \/ RemoveAcknowledgement
  \/ AcknowledgementExpires
  \/ StartDowntime
  \/ EndDowntime
  \/ DisableFlapDetection
  \/ \E forced, increment \in BOOLEAN : CustomNotification(forced, increment)
  \/ \E n \in 0 .. MaxNumber : SetNumber(n)
  \/ \E m \in Attempts : ChangeMaxAttempts(m)
  \/ \E m \in Attempts : ReloadAttempts(m)
  \/ SwitchNotifications
  \/ \E d \in 1 .. MaxClosed : PeriodCloses(d)
  \/ DutyChanges
  \/ \E flaps \in BOOLEAN : Restart(flaps)
  \/ Tick

Spec == Init /\ [][Next]_vars

(* Results keep coming (CheckCycle's CheckedForever): a service that stays in  *)
(* a state is found in it again.  Time passes.                                 *)
Again(r) == svc.current = r /\ Handle(r, "keep", FALSE)
FairSpec == Spec /\ WF_vars(Tick) /\ \A r \in States : WF_vars(Again(r))

-----------------------------------------------------------------------------
(* Every field holds a value of its type. *)
TypeOK == /\ svc \in Service
          /\ env \in Environment

(* Contacts who know of a problem are owed its recovery: until they have it,   *)
(* what the recovery notification needs is kept, and once the service is OK the *)
(* recovery stays to be sent.  (recovery_been_sent against the resets of       *)
(* checks.cc:748)                                                              *)
RecoveryOwed ==
  svc.told => /\ svc.number > 0 /\ svc.notified # {}
              /\ svc.current = OK => ~svc.recovered

(* Where it holds: no notification but those of problems and recoveries can go   *)
(* out while the service is OK, the contact is always on duty, and nobody sets   *)
(* the number or the attempts or restarts the engine.                           *)
Undisturbed ==
  /\ Features \cap {"attempts", "custom", "duty", "number", "restart"} = {}
  /\ ~NotifyFlapping /\ ~NotifyDowntime

(* No recovery notification for a problem that contacts never knew of, or whose *)
(* recovery they already know (notifications.rst, "it doesn't make sense").    *)
NoUntoldRecovery == "UNTOLD" \notin svc.sent

(* A problem is notified only after max_check_attempts problem results in a     *)
(* row, whatever the host, acknowledgements and downtimes did meanwhile.       *)
EarnedProblem == "PROBLEM" \in svc.sent => svc.streak >= svc.max

(* A problem confirmed by all its attempts never comes back as a soft one at its *)
(* next result, even if the host goes down and up                               *)
(* ("Services in hard problem states before hosts went down would sometimes      *)
(* come back as soft problem states", checks.cc:934).  The attempts are compared *)
(* with the maximum of the moment: when a reload raises it, the problem is no    *)
(* longer confirmed, and does come back as a soft one.                          *)
Confirmed == svc.current # OK /\ svc.type = "HARD" /\ svc.attempt >= svc.max
ConfirmedStaysHard == [][Confirmed /\ svc'.current # OK => svc'.type = "HARD"]_vars

(* A problem that does not change is not notified again before                  *)
(* notification_interval, and never if it is 0 (get_next_service_notification_  *)
(* time), whatever downtimes, restarts and acknowledgements do.  Only a result  *)
(* in a closed notification period shortens the interval: it moves              *)
(* next_notification to the end of that period ("as soon as possible when the   *)
(* next valid time in time period arrives", notifications.rst:107).             *)
RenotifySpacing ==
  [][ /\ "PROBLEM" \in svc'.sent /\ ~Volatile
      /\ svc.last # None /\ svc'.current = svc.current
      => Interval > 0 /\ (svc.last >= Interval \/ svc.deferred) ]_vars

(* If from some point on the service is OK and nothing suppresses               *)
(* notifications, contacts who know of a problem are told that it is over.      *)
Unsuppressed == /\ env.enabled /\ env.closed = 0 /\ env.duty
                /\ ~svc.flapping /\ svc.downtime = 0
RecoveryComes == <>[](svc.current = OK /\ Unsuppressed) => <>[](~svc.told)

(* If from some point on the service has a problem while its host is up, and    *)
(* nothing suppresses notifications, contacts are told.                         *)
ProblemComes ==
  <>[](svc.current # OK /\ env.up /\ Unsuppressed /\ ~svc.acked) => <>[](svc.told)
=============================================================================
