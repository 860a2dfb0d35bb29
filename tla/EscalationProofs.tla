-------------------------- MODULE EscalationProofs --------------------------
(* A recovery goes to those who got the last problem notification, for any   *)
(* contacts, any escalations, any bounds and any number of changes.          *)
EXTENDS Escalation, WellFoundedInduction, TLAPS

USE EscalationAssumption DEF EscalationAssumption

\* An escalation that is for all states is in use at the number n.
InRange(r, n) ==
  r.first <= n /\ (r.last = 0 \/ n <= r.last) /\ r \in env.open
InUse(n) == {r \in rules : InRange(r, n)}

\* Those on duty whom a problem notification of number n goes to.
Reached(n) ==
  {c \in (UNION {r.contacts : r \in InUse(n)})
           \cup (IF InUse(n) = {} THEN Normal ELSE {}) : c \in env.duty}

\* While nothing that matters has changed, the number kept and the contacts told
\* belong together.
Matched == Uniform /\ news.fresh /\ svc.number > 0 => news.told = Reached(svc.number)

Inv == TypeOK /\ Matched

-----------------------------------------------------------------------------
(* Types. *)

LEMMA LeastNat ==
  ASSUME NEW S \in SUBSET Nat, S # {} PROVE Least(S) \in S
<1> DEFINE R == OpToRel(<, Nat)
<1>1. PICK x \in S : \A y \in S : <<y, x>> \notin R
  <2>1. IsWellFoundedOn(R, Nat)
    BY NatLessThanWellFounded
  <2> HIDE DEF R
  <2> QED
    BY <2>1, WFMin
<1>2. ASSUME NEW y \in S PROVE x <= y
  <2>1. <<y, x>> \in Nat \X Nat /\ <<y, x>> \notin R
    BY <1>1
  <2>2. ~(<<y, x>>[1] < <<y, x>>[2])
    BY <2>1 DEF OpToRel
  <2>3. ~(y < x) /\ x \in Nat /\ y \in Nat
    BY <2>2
  <2> QED
    BY <2>3
<1> QED
  BY <1>2 DEF Least

LEMMA NextIntervalNat ==
  ASSUME rules \subseteq Pool, NEW v PROVE NextInterval(v) \in Nat
<1>1. CASE Escalating(v) = {}
  BY <1>1 DEF NextInterval
<1>2. CASE Escalating(v) # {}
  <2> DEFINE S == {r.interval : r \in Escalating(v)}
  <2>1. S \in SUBSET Nat
    BY DEF Escalating
  <2>2. S # {}
    BY <1>2
  <2>3. Least(S) \in Nat
    BY <2>1, <2>2, LeastNat
  <2> QED
    BY <1>2, <2>3 DEF NextInterval
<1> QED
  BY <1>1, <1>2

LEMMA ReceiversType ==
  ASSUME rules \subseteq Pool, NEW v, NEW type, NEW options
  PROVE  Receivers(v, type, options) \subseteq Contacts
<1>1. \A r \in rules : r.contacts \subseteq Contacts
  OBVIOUS
<1>2. Escalating(v) \subseteq rules
  BY DEF Escalating
<1>3. ASSUME NEW c \in Listed(v, "broadcast" \in options) PROVE c \in Contacts
  <2>1. (\E r \in rules : c \in r.contacts) \/ c \in Normal
    <3>1. CASE "broadcast" \in options
      BY <1>3, <3>1 DEF Listed
    <3>2. CASE "broadcast" \notin options
      <4>1. \/ \E r \in Escalating(v) : c \in r.contacts
            \/ c \in Normal
        BY <1>3, <3>2 DEF Listed
      <4> QED
        BY <1>2, <4>1
    <3> QED
      BY <3>1, <3>2
  <2> QED
    BY <1>1, <2>1
<1> QED
  BY <1>3 DEF Receivers

LEMMA NotifiedType ==
  ASSUME rules \subseteq Pool, NEW v \in Service, NEW type, NEW options
  PROVE  Notified(v, type, options) \in Service
<1> DEFINE n == Numbered(v, type, options)
<1>1. n \in Service
  BY DEF Numbered, Service
<1>2. Delivered(n) \in Service
  <2>1. NextInterval(n) \in Nat
    BY NextIntervalNat
  <2> QED
    BY <1>1, <2>1 DEF Delivered, Service
<1> QED
  BY <1>1, <1>2 DEF Notified, Service

LEMMA NotifyType ==
  ASSUME rules \subseteq Pool, NEW v \in Service PROVE Notify(v) \in Service
BY NotifiedType DEF Notify

LEMMA HeardType ==
  ASSUME rules \subseteq Pool, news \in News, NEW v PROVE Heard(v) \in News
<1> DEFINE to == IF Viable(v, "NORMAL", {})
                 THEN Receivers(Numbered(v, "NORMAL", {}), "NORMAL", {}) ELSE {}
<1>1. to \subseteq Contacts
  BY ReceiversType
<1> HIDE DEF to
<1> QED
  BY <1>1 DEF Heard, News, to

LEMMA SilentType ==
  ASSUME news \in News, NEW b \in BOOLEAN
  PROVE  /\ [news EXCEPT !.kind = "NOTHING", !.to = {}] \in News
         /\ [news EXCEPT !.fresh = b, !.kind = "NOTHING", !.to = {}] \in News
BY DEF News

LEMMA ChangeType ==
  ASSUME env \in Environment, NEW e \in Environment, e.changes = env.changes,
         Change(e)
  PROVE  env' \in Environment
BY DEF Change, Environment

LEMMA ResetType ==
  ASSUME NEW v \in Service PROVE Reset(v) \in Service
<1> DEFINE w == [v EXCEPT !.next = 0, !.noMore = FALSE]
<1>1. w \in Service
  BY DEF Service
<1> HIDE DEF w
<1>2. [w EXCEPT !.number = 0, !.notified = {}] \in Service
  <2>1. 0 \in 0 .. MaxNumber /\ {} \in SUBSET Problems
    OBVIOUS
  <2> QED
    BY <1>1, <2>1, Zenon DEF Service
<1> QED
  BY <1>1, <1>2 DEF Reset, w

LEMMA TypeInit == Init => TypeOK
BY DEF Init, TypeOK, Environment, Service, News, States

LEMMA TypeStep == TypeOK /\ [Next]_vars => TypeOK'
<1> SUFFICES ASSUME TypeOK, [Next]_vars PROVE TypeOK'
  OBVIOUS
<1>1. ASSUME NEW r \in States, Result(r) PROVE TypeOK'
  <2> DEFINE v == Changed(svc, r)
             u == IF v.recovered THEN v ELSE Notify(v)
  <2>1. v \in Service
    BY DEF TypeOK, Changed, Service
  <2> HIDE DEF v
  <2>2. Notify(v) \in Service
    BY <2>1, NotifyType DEF TypeOK
  <2>3. u \in Service
    BY <2>1, <2>2
  <2> HIDE DEF u
  <2>4. Reset(u) \in Service
    BY <2>3, ResetType
  <2>5. svc' \in Service
    BY <1>1, <2>2, <2>4 DEF Result, u, v
  <2>6. Heard(v) \in News
    BY HeardType DEF TypeOK
  <2>7. news' \in News
    BY <1>1, <2>6 DEF Result, v, TypeOK, News
  <2> QED
    BY <1>1, <2>5, <2>7 DEF Result, TypeOK
<1>2. CASE Switch
  <2> DEFINE e == [env EXCEPT !.enabled = ~@]
  <2>1. e \in Environment /\ e.changes = env.changes
    BY DEF TypeOK, Environment
  <2> HIDE DEF e
  <2>2. Change(e)
    BY <1>2 DEF Switch, e
  <2> QED
    BY <1>2, <2>1, <2>2, ChangeType, SilentType DEF Switch, Change, TypeOK
<1>3. ASSUME NEW r \in rules, PeriodTurns(r) PROVE TypeOK'
  <2> DEFINE e == [env EXCEPT !.open = IF r \in @ THEN @ \ {r} ELSE @ \cup {r}]
  <2>1. e \in Environment /\ e.changes = env.changes
    BY DEF TypeOK, Environment
  <2> HIDE DEF e
  <2>2. Change(e)
    BY <1>3 DEF PeriodTurns, e
  <2> QED
    BY <1>3, <2>1, <2>2, ChangeType, SilentType DEF PeriodTurns, Change, Stale, TypeOK
<1>4. ASSUME NEW c \in Contacts, DutyChanges(c) PROVE TypeOK'
  <2> DEFINE e == [env EXCEPT !.duty = IF c \in @ THEN @ \ {c} ELSE @ \cup {c}]
  <2>1. e \in Environment /\ e.changes = env.changes
    BY DEF TypeOK, Environment
  <2> HIDE DEF e
  <2>2. Change(e)
    BY <1>4 DEF DutyChanges, e
  <2> QED
    BY <1>4, <2>1, <2>2, ChangeType, SilentType DEF DutyChanges, Change, Stale, TypeOK
<1>5. ASSUME NEW options \in SUBSET Options, Custom(options) PROVE TypeOK'
  <2>1. svc' \in Service
    BY <1>5, NotifiedType DEF Custom, TypeOK
  <2>2. env' \in Environment
    BY <1>5 DEF Custom, Change, TypeOK, Environment
  <2> DEFINE to == Receivers(Numbered(svc, "CUSTOM", options), "CUSTOM", options)
  <2>3. to \subseteq Contacts
    BY ReceiversType DEF TypeOK
  <2> HIDE DEF to
  <2>4. news' = [news EXCEPT !.fresh = @ /\ svc'.number = svc.number,
                             !.kind = "CUSTOM", !.to = to]
    BY <1>5 DEF Custom, to
  <2>5. news' \in News
    BY <2>3, <2>4 DEF TypeOK, News
  <2> QED
    BY <1>5, <2>1, <2>2, <2>5 DEF Custom, Change, TypeOK
<1>6. ASSUME NEW n \in 0 .. MaxNumber, SetNumber(n) PROVE TypeOK'
  <2>1. svc' \in Service
    BY <1>6 DEF SetNumber, TypeOK, Service
  <2>2. env' \in Environment
    BY <1>6, ChangeType DEF SetNumber, TypeOK
  <2> QED
    BY <1>6, <2>1, <2>2, SilentType DEF SetNumber, Change, Stale, TypeOK
<1>7. CASE Tick
  <2>1. svc' \in Service
    BY <1>7 DEF Tick, TypeOK, Service
  <2> QED
    BY <1>7, <2>1, SilentType DEF Tick, TypeOK
<1>8. CASE UNCHANGED vars
  BY <1>8 DEF vars, TypeOK
<1> QED
  BY <1>1, <1>2, <1>3, <1>4, <1>5, <1>6, <1>7, <1>8 DEF Next

\* The variables always have their types.
THEOREM TypeCorrect == Spec => []TypeOK
<1> QED
  BY TypeInit, TypeStep, PTL DEF Spec

-----------------------------------------------------------------------------
(* Numbers and receivers. *)

\* Where the number saturates, escalations do not tell it from the one before.
LEMMA Saturated ==
  ASSUME rules \subseteq Pool
  PROVE  InUse(MaxNumber - 1) = InUse(MaxNumber)
<1>1. \A r \in Pool : /\ r.first \in Nat /\ r.last \in Nat
                      /\ r.first + 1 < MaxNumber /\ r.last + 1 < MaxNumber
  OBVIOUS
<1>2. \A r \in rules : InRange(r, MaxNumber - 1) <=> InRange(r, MaxNumber)
  BY <1>1 DEF InRange
<1> QED
  BY <1>2 DEF InUse

LEMMA ProblemInUse ==
  ASSUME Uniform, NEW v \in Service, v.current # OK
  PROVE  Escalating(v) = InUse(v.number)
BY DEF Uniform, Service, Escalating, Matches, InUse, InRange

LEMMA RecoveryInUse ==
  ASSUME Uniform, NEW v \in Service, v.current = OK
  PROVE  Escalating(v) = InUse(v.number - 1)
BY DEF Uniform, Service, Escalating, Matches, InUse, InRange

\* A problem notification goes to those on duty at its level.
LEMMA ProblemReceivers ==
  ASSUME Uniform, NEW v \in Service, v.current # OK
  PROVE  Receivers(v, "NORMAL", {}) \cap Contacts = Reached(v.number) \cap Contacts
<1>1. Escalating(v) = InUse(v.number)
  BY ProblemInUse
<1>2. \A c \in Contacts : Accepts(c, v, "NORMAL", {}) <=> c \in env.duty
  BY DEF Uniform, Accepts, Service, States
<1> QED
  BY <1>1, <1>2 DEF Receivers, Listed, Reached

\* A recovery goes to those on duty at the level before its own who want it.
LEMMA RecoveryReceivers ==
  ASSUME Uniform, NEW v \in Service, v.current = OK, v.notified # {}
  PROVE  Receivers(v, "NORMAL", {}) \cap Contacts
           = {c \in Reached(v.number - 1) : OK \in wants[c]} \cap Contacts
<1>1. Escalating(v) = InUse(v.number - 1)
  BY RecoveryInUse
<1>2. v.notified \subseteq Problems
  BY DEF Service
<1>3. \A c \in Contacts : v.notified \cap wants[c] # {}
  BY <1>2 DEF Uniform
<1>4. \A c \in Contacts :
        Accepts(c, v, "NORMAL", {}) <=> c \in env.duty /\ OK \in wants[c]
  BY <1>3 DEF Accepts
<1> QED
  BY <1>1, <1>4 DEF Receivers, Listed, Reached

-----------------------------------------------------------------------------
(* The invariant. *)

\* What a result does with a notification that goes out, or does not.
LEMMA NumberedType ==
  ASSUME NEW v \in Service
  PROVE  LET n == Numbered(v, "NORMAL", {}) IN
         /\ n \in Service /\ n.current = v.current /\ n.notified = v.notified
         /\ n.number = IF v.number < MaxNumber THEN v.number + 1 ELSE v.number
BY DEF Numbered, Service

LEMMA ChangedFields ==
  ASSUME TypeOK, NEW r \in States
  PROVE  LET v == Changed(svc, r) IN
         /\ v \in Service /\ v.current = r /\ v.number = svc.number
BY DEF TypeOK, Changed, Service

LEMMA NotifiedFields ==
  ASSUME TypeOK, NEW v \in Service
  PROVE  LET n == Numbered(v, "NORMAL", {})
             w == Notified(v, "NORMAL", {})
         IN /\ w \in Service
            /\ w.number = IF Receivers(n, "NORMAL", {}) = {} THEN v.number ELSE n.number
            /\ v.current = OK => w.recovered
<1> DEFINE n == Numbered(v, "NORMAL", {})
           d == Delivered(n)
           w == Notified(v, "NORMAL", {})
<1>1. w \in Service
  BY NotifiedType DEF TypeOK
<1>2. n \in Service
  BY NumberedType
<1> HIDE DEF n
<1>3. d.number = n.number /\ d \in Service
  <2>1. NextInterval(n) \in Nat
    BY NextIntervalNat DEF TypeOK
  <2> QED
    BY <1>2, <2>1 DEF Delivered, Service
<1> HIDE DEF d
<1>4. w = [(IF Receivers(n, "NORMAL", {}) = {} THEN v ELSE d)
             EXCEPT !.recovered = @ \/ v.current = OK]
  BY Zenon DEF Notified, n, d
<1>5. /\ w.number = IF Receivers(n, "NORMAL", {}) = {} THEN v.number ELSE n.number
      /\ v.current = OK => w.recovered
  BY <1>3, <1>4 DEF Service
<1> QED
  BY <1>1, <1>5 DEF n

\* A step that leaves the number, those in use and on duty, and the history of
\* problems alone, or makes that history stale, keeps the invariant.
LEMMA MatchedKept ==
  ASSUME TypeOK, Matched, rules' = rules, wants' = wants,
         news'.fresh =>
           /\ news.fresh /\ news'.told = news.told /\ svc'.number = svc.number
           /\ env'.open = env.open /\ env'.duty = env.duty
  PROVE  Matched'
<1> SUFFICES ASSUME Uniform', news'.fresh, svc'.number > 0
             PROVE  news'.told = Reached(svc.number)'
  BY DEF Matched
<1>1. Uniform
  BY DEF Uniform
<1>2. news'.told = Reached(svc.number)
  BY <1>1 DEF Matched
<1>3. InUse(svc.number)' = InUse(svc.number)
  BY DEF InUse, InRange
<1> QED
  BY <1>2, <1>3 DEF Reached

LEMMA ProblemKept ==
  ASSUME TypeOK, Matched, NEW r \in Problems, Result(r)
  PROVE  Matched'
<1> DEFINE v == Changed(svc, r)
           n == Numbered(v, "NORMAL", {})
           to == Receivers(n, "NORMAL", {})
<1>0. r # OK /\ r \in States
  BY DEF States
<1>1. v \in Service /\ v.current = r /\ v.number = svc.number
  BY <1>0, ChangedFields
<1> HIDE DEF v
<1>2. n \in Service /\ n.current = r
  BY <1>1, NumberedType
<1> HIDE DEF n
<1>3. svc' = Notify(v) /\ news' = Heard(v) /\ UNCHANGED <<rules, wants, env>>
  BY <1>0, Zenon DEF Result, v
<1>4. CASE ~Viable(v, "NORMAL", {}) \/ to = {}
  <2>1. svc'.number = svc.number
    BY <1>1, <1>3, <1>4, NotifiedFields DEF Notify, n
  <2>2. news' = [news EXCEPT !.kind = "NOTHING", !.to = {}]
    BY <1>0, <1>1, <1>3, <1>4 DEF Heard, n
  <2>3. news'.fresh = news.fresh /\ news'.told = news.told
    BY <2>2 DEF TypeOK, News
  <2> QED
    BY <1>3, <2>1, <2>3, MatchedKept
<1>5. CASE Viable(v, "NORMAL", {}) /\ to # {}
  <2>1. svc'.number = n.number
    BY <1>1, <1>3, <1>5, NotifiedFields DEF Notify, n
  <2>2. news'.told = to
    BY <1>0, <1>1, <1>3, <1>5 DEF Heard, n
  <2>3. ASSUME Uniform PROVE to = Reached(n.number)
    <3>1. to \cap Contacts = Reached(n.number) \cap Contacts
      BY <1>0, <1>2, <2>3, ProblemReceivers
    <3>2. to \subseteq Contacts
      BY ReceiversType DEF TypeOK
    <3>3. Reached(n.number) \subseteq Contacts
      BY DEF Reached, TypeOK, Environment
    <3> QED
      BY <3>1, <3>2, <3>3
  <2>4. Uniform' => Uniform
    BY <1>3 DEF Uniform
  <2>5. Reached(svc.number)' = Reached(n.number)
    BY <1>3, <2>1 DEF Reached, InUse, InRange
  <2> QED
    BY <2>2, <2>3, <2>4, <2>5 DEF Matched
<1> QED
  BY <1>4, <1>5

LEMMA RecoveryKept ==
  ASSUME TypeOK, Matched, Result(OK)
  PROVE  Matched'
<1> DEFINE v == Changed(svc, OK)
           u == IF v.recovered THEN v ELSE Notify(v)
<1>1. v \in Service /\ v.current = OK /\ v.number = svc.number
  BY ChangedFields DEF States
<1> HIDE DEF v
<1>2. svc' = Reset(u) /\ UNCHANGED <<rules, wants, env>>
  BY Zenon DEF Result, v
<1>3. u \in Service
  BY <1>1, NotifyType DEF TypeOK
<1>4. u.recovered => svc'.number = 0
  <2> HIDE DEF u
  <2> QED
    BY <1>2, <1>3 DEF Reset, Service
<1>5. CASE u.recovered
  BY <1>4, <1>5 DEF Matched
<1>6. CASE ~u.recovered
  <2>1. ~v.recovered /\ ~Viable(v, "NORMAL", {})
    BY <1>1, <1>6, NotifiedFields DEF Notify
  <2>2. u = v
    BY <2>1 DEF Notify
  <2>3. svc'.number = svc.number
    BY <1>1, <1>2, <2>1, <2>2 DEF Reset, Service
  <2>4. news' = [news EXCEPT !.kind = "NOTHING", !.to = {}]
    BY <1>1, <2>1 DEF Result, Heard, v
  <2>5. news'.fresh = news.fresh /\ news'.told = news.told
    BY <2>4 DEF TypeOK, News
  <2> QED
    BY <1>2, <2>3, <2>5, MatchedKept
<1> QED
  BY <1>5, <1>6

LEMMA MatchedStep == TypeOK /\ Matched /\ [Next]_vars => Matched'
<1> SUFFICES ASSUME TypeOK, Matched, [Next]_vars PROVE Matched'
  OBVIOUS
<1>1. ASSUME NEW r \in States, Result(r) PROVE Matched'
  BY <1>1, ProblemKept, RecoveryKept DEF States
<1>2. CASE Switch
  BY <1>2, MatchedKept DEF Switch, Change, TypeOK, Environment, News
<1>3. ASSUME NEW r \in rules, PeriodTurns(r) PROVE Matched'
  BY <1>3, MatchedKept DEF PeriodTurns, Change, Stale, TypeOK, News
<1>4. ASSUME NEW c \in Contacts, DutyChanges(c) PROVE Matched'
  BY <1>4, MatchedKept DEF DutyChanges, Change, Stale, TypeOK, News
<1>5. ASSUME NEW options \in SUBSET Options, Custom(options) PROVE Matched'
  <2>1. env'.open = env.open /\ env'.duty = env.duty
    BY <1>5 DEF Custom, Change, TypeOK, Environment
  <2>2. /\ news'.told = news.told
        /\ news'.fresh => news.fresh /\ svc'.number = svc.number
    BY <1>5 DEF Custom, TypeOK, News
  <2> QED
    BY <1>5, <2>1, <2>2, MatchedKept DEF Custom, Change
<1>6. ASSUME NEW n \in 0 .. MaxNumber, SetNumber(n) PROVE Matched'
  BY <1>6, MatchedKept DEF SetNumber, Change, Stale, TypeOK, News
<1>7. CASE Tick
  BY <1>7, MatchedKept DEF Tick, TypeOK, News, Service
<1>8. CASE UNCHANGED vars
  BY <1>8, MatchedKept DEF vars
<1> QED
  BY <1>1, <1>2, <1>3, <1>4, <1>5, <1>6, <1>7, <1>8 DEF Next

LEMMA MatchedInit == Init => Matched
BY DEF Init, Matched

-----------------------------------------------------------------------------
(* The property. *)

RecoversRight ==
  Uniform /\ news.fresh /\ news'.kind = "RECOVERY"
    => news'.to = {c \in news.told : OK \in wants[c]}

LEMMA RecoveryRight ==
  ASSUME TypeOK, Matched, Result(OK), Uniform, news.fresh, news'.kind = "RECOVERY"
  PROVE  news'.to = {c \in news.told : OK \in wants[c]}
<1> DEFINE v == Changed(svc, OK)
           n == Numbered(v, "NORMAL", {})
           to == Receivers(n, "NORMAL", {})
<1>1. v \in Service /\ v.current = OK /\ v.number = svc.number
  BY ChangedFields DEF States
<1> HIDE DEF v
<1>2. /\ n \in Service /\ n.current = OK /\ n.notified = v.notified
      /\ n.number = IF v.number < MaxNumber THEN v.number + 1 ELSE v.number
  BY <1>1, NumberedType
<1> HIDE DEF n
<1>3. ~v.recovered /\ news' = Heard(v)
  BY DEF Result, TypeOK, News, v
<1>4. Viable(v, "NORMAL", {}) /\ news'.to = to
  BY <1>1, <1>3 DEF Heard, TypeOK, News, n
<1>5. v.notified # {} /\ svc.number > 0
  BY <1>1, <1>4 DEF Viable
<1>6. news.told = Reached(svc.number)
  BY <1>5 DEF Matched
<1>7. Reached(n.number - 1) = Reached(svc.number)
  <2>1. InUse(n.number - 1) = InUse(svc.number)
    <3>1. CASE svc.number < MaxNumber
      <4>1. n.number - 1 = svc.number
        BY <1>1, <1>2, <3>1 DEF Service
      <4> QED
        BY <4>1
    <3>2. CASE ~(svc.number < MaxNumber)
      <4>1. svc.number = MaxNumber /\ n.number = MaxNumber
        BY <1>1, <1>2, <3>2 DEF Service
      <4> QED
        BY <4>1, Saturated DEF TypeOK
    <3> QED
      BY <3>1, <3>2
  <2> QED
    BY <2>1 DEF Reached
<1>8. to \cap Contacts = {c \in Reached(n.number - 1) : OK \in wants[c]} \cap Contacts
  BY <1>2, <1>5, RecoveryReceivers
<1>9. to \subseteq Contacts
  BY ReceiversType DEF TypeOK
<1>10. Reached(svc.number) \subseteq Contacts
  BY DEF Reached, TypeOK, Environment
<1> QED
  BY <1>4, <1>6, <1>7, <1>8, <1>9, <1>10

LEMMA RecoveryStep == Inv /\ [Next]_vars => [RecoversRight]_vars
<1> SUFFICES ASSUME Inv, Next, Uniform, news.fresh, news'.kind = "RECOVERY"
             PROVE  news'.to = {c \in news.told : OK \in wants[c]}
  BY DEF RecoversRight
<1>0. news \in News
  BY DEF Inv, TypeOK
<1>1. ASSUME NEW r \in Problems, Result(r) PROVE FALSE
  <2>1. Changed(svc, r).current # OK
    BY ChangedFields DEF Inv, States
  <2>2. news' = Heard(Changed(svc, r))
    BY <1>1, Zenon DEF Result
  <2> QED
    BY <1>0, <2>1, <2>2 DEF Heard, News
<1>2. CASE Result(OK)
  BY <1>2, RecoveryRight DEF Inv
<1>3. ASSUME Switch \/ Tick PROVE FALSE
  <2>1. news' = [news EXCEPT !.kind = "NOTHING", !.to = {}]
    BY <1>3, Zenon DEF Switch, Tick
  <2> QED
    BY <1>0, <2>1 DEF News
<1>4. ASSUME NEW r \in rules, PeriodTurns(r) PROVE FALSE
  BY <1>0, <1>4 DEF PeriodTurns, Stale, News
<1>5. ASSUME NEW c \in Contacts, DutyChanges(c) PROVE FALSE
  BY <1>0, <1>5 DEF DutyChanges, Stale, News
<1>6. ASSUME NEW options \in SUBSET Options, Custom(options) PROVE FALSE
  BY <1>0, <1>6 DEF Custom, News
<1>7. ASSUME NEW n \in 0 .. MaxNumber, SetNumber(n) PROVE FALSE
  BY <1>0, <1>7 DEF SetNumber, Stale, News
<1> QED
  BY <1>1, <1>2, <1>3, <1>4, <1>5, <1>6, <1>7 DEF Next, States

\* A recovery goes exactly to those who got the last problem notification and
\* want recoveries (RecoveryToTold, the doc's promise about escalations).
THEOREM RecoveryReachesTold == Spec => RecoveryToTold
<1>1. Init => Inv
  BY TypeInit, MatchedInit DEF Inv
<1>2. Inv /\ [Next]_vars => Inv'
  BY TypeStep, MatchedStep DEF Inv
<1> QED
  BY <1>1, <1>2, RecoveryStep, PTL DEF Spec, RecoveryToTold, RecoversRight
=============================================================================
