----------------------------- MODULE Escalation -----------------------------
(***************************************************************************)
(* Who is notified of a service's problem and of its recovery, and when    *)
(* again: escalations, the filters of contacts, custom notifications       *)
(* (src/notifications.cc).  The service has max_check_attempts 1 and no     *)
(* delays, its host is up: each result is hard, and handled as in           *)
(* ServiceState.  Notifications that NEB modules cancel are left out.       *)
(*                                                                         *)
(* An escalation is a record: first_notification, last_notification (0: no  *)
(* end), notification_interval, the contacts of the escalation and of its   *)
(* groups, the states its escalation_options name.  A contact wants to hear *)
(* of the states its notification options name.                             *)
(***************************************************************************)
EXTENDS Integers, FiniteSets

CONSTANTS
  Problems,   \* the states that are not OK
  Contacts,
  Normal,     \* the contacts of the service itself
  Pool,       \* escalations a configuration may contain
  Filters,    \* what contacts may want: functions from Contacts
  Interval,   \* notification_interval of the service
  MaxNumber,  \* bound: the notification number saturates
  MaxChanges  \* bound: what users and periods do

OK == "OK"
States == {OK} \cup Problems
Options == {"broadcast", "forced", "increment"}

ASSUME EscalationAssumption ==
  /\ OK \notin Problems
  /\ Normal \subseteq Contacts
  /\ Pool \subseteq [first : Nat, last : Nat, interval : Nat,
                     contacts : SUBSET Contacts, states : SUBSET States]
  /\ Filters \subseteq [Contacts -> SUBSET States]
  /\ Interval \in Nat
  /\ MaxNumber \in Nat /\ MaxChanges \in Nat
  \* escalations tell no number from the next where the number saturates
  /\ \A r \in Pool : r.first + 1 < MaxNumber /\ r.last + 1 < MaxNumber

VARIABLES
  rules,  \* the escalations of the service, fixed by the configuration
  wants,  \* the filter of each contact, fixed as well
  env,    \* switches and periods
  svc,    \* the fields of the service
  news    \* history: who heard what

vars == <<rules, wants, env, svc, news>>

Environment == [enabled : BOOLEAN,          \* notifications_enabled
                open    : SUBSET Pool,      \* escalation_period is now
                duty    : SUBSET Contacts,  \* switched on, and in their period
                changes : 0 .. MaxChanges]

Intervals == {Interval} \cup {r.interval : r \in Pool}
Service == [current   : States,
            number    : 0 .. MaxNumber,   \* current_notification_number
            next      : Nat,              \* time before next_notification
            noMore    : BOOLEAN,
            notified  : SUBSET Problems,  \* notified_on_<state>
            recovered : BOOLEAN]          \* recovery_been_sent

\* told: to whom the last problem notification went; fresh: since then nothing
\* changed that decides who is notified; kind, to: what the last step sent
News == [told : SUBSET Contacts, fresh : BOOLEAN,
         kind : {"NOTHING", "PROBLEM", "RECOVERY", "CUSTOM"},
         to   : SUBSET Contacts]

Init ==
  /\ rules \in SUBSET Pool /\ wants \in Filters
  /\ env = [enabled |-> TRUE, open |-> Pool, duty |-> Contacts, changes |-> 0]
  /\ \E s \in States :
       svc = [current |-> s, number |-> 0, next |-> 0, noMore |-> FALSE,
              notified |-> {}, recovered |-> TRUE]
  /\ news = [told |-> {}, fresh |-> FALSE, kind |-> "NOTHING", to |-> {}]

-----------------------------------------------------------------------------
(* Who is notified. *)

Mutant_Matches(r, v) ==
  /\ r.first <= v.number /\ (r.last = 0 \/ v.number <= r.last)
  /\ r \in env.open
  /\ v.current \in r.states

\* is_valid_escalation_for_service_notification: a recovery, which has a number
\* of its own, goes by the number of the problem notification before it
Matches(r, v) ==
  LET n == IF v.current = OK THEN v.number - 1 ELSE v.number IN
  /\ r.first <= n /\ (r.last = 0 \/ n <= r.last)
  /\ r \in env.open
  /\ v.current \in r.states

Escalating(v) == {r \in rules : Matches(r, v)}

\* create_notification_list_from_service
Listed(v, broadcast) ==
  LET used == IF broadcast THEN rules ELSE Escalating(v) IN
  (UNION {r.contacts : r \in used})
    \cup (IF broadcast \/ Escalating(v) = {} THEN Normal ELSE {})

\* check_contact_service_notification_viability
Accepts(c, v, type, options) ==
  \/ "forced" \in options
  \/ /\ c \in env.duty
     /\ \/ type = "CUSTOM"
        \/ /\ v.current \in wants[c]
           /\ v.current = OK => v.notified \cap wants[c] # {}

Receivers(v, type, options) ==
  {c \in Listed(v, "broadcast" \in options) : Accepts(c, v, type, options)}

-----------------------------------------------------------------------------
(* service_notification *)

Viable(v, type, options) ==
  \/ "forced" \in options
  \/ /\ env.enabled
     /\ \/ type = "CUSTOM"
        \/ v.current = OK /\ v.notified # {} /\ v.number > 0
        \/ v.current # OK /\ ~v.noMore /\ v.next = 0

Numbered(v, type, options) ==
  IF (type = "NORMAL" \/ "increment" \in options) /\ v.number < MaxNumber
  THEN [v EXCEPT !.number = @ + 1] ELSE v

Least(S) == CHOOSE x \in S : \A y \in S : x <= y

Mutant_NextInterval(v) ==
  IF Escalating(v) = {} THEN Interval
  ELSE Least({0} \cup {r.interval : r \in Escalating(v)})

\* get_next_service_notification_time: the shortest interval of the escalations
\* in use (an interval is never negative: configuration::serviceescalation)
NextInterval(v) ==
  IF Escalating(v) = {} THEN Interval
  ELSE Least({r.interval : r \in Escalating(v)})

Delivered(v) ==
  [v EXCEPT !.next = NextInterval(v), !.noMore = NextInterval(v) = 0,
            !.notified = @ \cup ({v.current} \cap Problems)]

Mutant_Notified(v, type, options) ==
  LET n == Numbered(v, type, options)
      reached == IF type = "NORMAL" THEN Receivers(n, type, options) # {}
                 ELSE Listed(n, "broadcast" \in options) # {}
      w == IF ~reached THEN [v EXCEPT !.number = @ - 1]
           ELSE IF type = "NORMAL" THEN Delivered(n) ELSE n
  IN [w EXCEPT !.recovered = @ \/ v.current = OK]

\* The number counts problem notifications that somebody got, and custom ones
\* that had somebody to go to.  A recovery counts as sent even if nobody got it.
Notified(v, type, options) ==
  LET n == Numbered(v, type, options)
      reached == IF type = "NORMAL" THEN Receivers(n, type, options) # {}
                 ELSE Listed(n, "broadcast" \in options) # {}
      w == IF ~reached THEN v ELSE IF type = "NORMAL" THEN Delivered(n) ELSE n
  IN [w EXCEPT !.recovered = @ \/ v.current = OK]

Notify(v) == IF Viable(v, "NORMAL", {}) THEN Notified(v, "NORMAL", {}) ELSE v

\* the history that goes with it
Heard(v) ==
  LET to == IF Viable(v, "NORMAL", {})
            THEN Receivers(Numbered(v, "NORMAL", {}), "NORMAL", {}) ELSE {}
  IN IF v.current = OK
     THEN [news EXCEPT !.kind = IF Viable(v, "NORMAL", {}) THEN "RECOVERY" ELSE "NOTHING",
                       !.to = to]
     ELSE IF to = {} THEN [news EXCEPT !.kind = "NOTHING", !.to = {}]
     ELSE [told |-> to, fresh |-> TRUE, kind |-> "PROBLEM", to |-> to]

-----------------------------------------------------------------------------
(* handle_async_service_check_result, for a service of one attempt *)

Changed(v, r) ==
  IF r = v.current THEN v
  ELSE [v EXCEPT !.current = r, !.next = 0, !.noMore = FALSE,
                 !.recovered = @ /\ r # OK]

Reset(v) ==
  LET w == [v EXCEPT !.next = 0, !.noMore = FALSE] IN
  IF w.recovered THEN [w EXCEPT !.number = 0, !.notified = {}] ELSE w

Result(r) ==
  LET v == Changed(svc, r) IN
  /\ svc' = IF r # OK THEN Notify(v)
            ELSE Reset(IF v.recovered THEN v ELSE Notify(v))
  /\ news' = IF r = OK /\ v.recovered
             THEN [news EXCEPT !.kind = "NOTHING", !.to = {}] ELSE Heard(v)
  /\ UNCHANGED <<rules, wants, env>>

-----------------------------------------------------------------------------
(* What users and periods do. *)

Change(e) == /\ env.changes < MaxChanges
             /\ env' = [e EXCEPT !.changes = @ + 1]
             /\ UNCHANGED <<rules, wants>>

Stale == [news EXCEPT !.fresh = FALSE, !.kind = "NOTHING", !.to = {}]

\* enable_service_notifications, disable_service_notifications
Switch ==
  /\ Change([env EXCEPT !.enabled = ~@])
  /\ news' = [news EXCEPT !.kind = "NOTHING", !.to = {}]
  /\ UNCHANGED svc

\* an escalation_period begins or ends
PeriodTurns(r) ==
  /\ Change([env EXCEPT !.open = IF r \in @ THEN @ \ {r} ELSE @ \cup {r}])
  /\ news' = Stale
  /\ UNCHANGED svc

\* enable_contact_service_notifications and its counterpart, the period of a
\* contact
DutyChanges(c) ==
  /\ Change([env EXCEPT !.duty = IF c \in @ THEN @ \ {c} ELSE @ \cup {c}])
  /\ news' = Stale
  /\ UNCHANGED svc

\* SEND_CUSTOM_SVC_NOTIFICATION
Custom(options) ==
  /\ Change(env)
  /\ Viable(svc, "CUSTOM", options)
  /\ svc' = Notified(svc, "CUSTOM", options)
  /\ news' = [news EXCEPT
                !.fresh = @ /\ svc'.number = svc.number,
                !.kind = "CUSTOM",
                !.to = Receivers(Numbered(svc, "CUSTOM", options), "CUSTOM", options)]

\* SET_SVC_NOTIFICATION_NUMBER
SetNumber(n) ==
  /\ Change(env)
  /\ svc' = [svc EXCEPT !.number = n]
  /\ news' = Stale

Tick ==
  /\ svc.next > 0
  /\ svc' = [svc EXCEPT !.next = @ - 1]
  /\ news' = [news EXCEPT !.kind = "NOTHING", !.to = {}]
  /\ UNCHANGED <<rules, wants, env>>

Next ==
  \/ \E r \in States : Result(r)
  \/ Switch
  \/ \E r \in rules : PeriodTurns(r)
  \/ \E c \in Contacts : DutyChanges(c)
  \/ \E options \in SUBSET Options : Custom(options)
  \/ \E n \in 0 .. MaxNumber : SetNumber(n)
  \/ Tick

Spec == Init /\ [][Next]_vars

(* Results keep coming and time passes, as in ServiceState. *)
Again(r) == svc.current = r /\ Result(r)
FairSpec == Spec /\ WF_vars(Tick) /\ \A r \in States : WF_vars(Again(r))

-----------------------------------------------------------------------------
\* The variables have their types.
TypeOK ==
  /\ rules \subseteq Pool /\ wants \in [Contacts -> SUBSET States]
  /\ env \in Environment /\ svc \in Service /\ news \in News

\* no escalation and no contact is for some problems only, and escalations are
\* for recoveries as well
Uniform == /\ \A r \in rules : r.states = States
           /\ \A c \in Contacts : Problems \subseteq wants[c]

\* "only those people who were notified about the problem on the third
\* notification should be notified about the recovery" (notification_escalations
\* .rst), and all of them who want recoveries: a recovery goes exactly to those
\* who got the last problem notification, whatever level that one was at, however
\* many attempts to notify reached nobody before or after it, and also if the
\* recovery could only be sent later.
RecoveryToTold ==
  [][ Uniform /\ news.fresh /\ news'.kind = "RECOVERY"
      => news'.to = {c \in news.told : OK \in wants[c]} ]_vars

\* Somebody would get a problem notification of each number, now.
Staffed ==
  \A n \in 1 .. MaxNumber :
    Receivers([svc EXCEPT !.number = n], "NORMAL", {}) # {}

\* If from some point on the service has a problem, notifications are not
\* switched off and each level has somebody to notify, then the problem climbs
\* to every level: no interval, failed attempt, change of state or level in
\* between leaves it at a lower one.
LevelsReached ==
  Interval > 0 =>
    \A n \in 1 .. MaxNumber :
      <>[](/\ svc.current # OK /\ env.enabled /\ Staffed
           /\ \A r \in rules : r.interval > 0)
        => <>(svc.number >= n)
=============================================================================
