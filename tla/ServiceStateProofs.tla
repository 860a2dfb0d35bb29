-------------------------- MODULE ServiceStateProofs --------------------------
(***************************************************************************)
(* Proofs about ServiceState, for any options, delays and intervals: types, *)
(* that a confirmed problem stays hard, that the recovery that contacts    *)
(* are owed is kept, that problems are told of only when confirmed         *)
(* (EarnedProblems), recoveries only to those who knew of the problem      *)
(* (NoUntoldRecoveries), and that an unchanged problem waits for its       *)
(* interval (RenotificationsSpaced).                                       *)
(***************************************************************************)
EXTENDS ServiceState, TLAPS

USE ServiceStateAssumption DEF ServiceStateAssumption

-----------------------------------------------------------------------------
(* Types: every function of the module maps a service to a service.        *)

LEMMA AttemptsType ==
  ASSUME NEW m \in Attempts
  PROVE  m \in Nat /\ m > 0
<1>1. Attempts \subseteq Nat \ {0}
  OBVIOUS
<1> QED
  BY <1>1

LEMMA CapType ==
  ASSUME NEW a \in Nat, NEW b \in Nat
  PROVE  Cap(a, b) \in 0 .. b
BY DEF Cap

LEMMA ConsideredType ==
  ASSUME NEW v \in Service, NEW e \in Environment
  PROVE  Considered(v, e) \in Service
<1>1. e.closed \in Nat
  BY DEF Environment
<1>2. [v EXCEPT !.next = e.closed, !.deferred = Interval > 0] \in Service
  <2>1. (Interval > 0) \in BOOLEAN
    OBVIOUS
  <2>2. ASSUME NEW b \in BOOLEAN
        PROVE  [v EXCEPT !.next = e.closed, !.deferred = b] \in Service
    BY <1>1, <2>2 DEF Service
  <2> QED
    BY <2>1, <2>2
<1>3. [v EXCEPT !.initial = 0] \in Service
  BY DEF Service
<1> QED
  BY <1>2, <1>3 DEF Considered

LEMMA AnnouncedType ==
  ASSUME NEW v \in Service
  PROVE  Announced(v) \in Service
<1>1. CASE v.current # OK
  <2>1. [v EXCEPT !.told = TRUE, !.sent = @ \cup {"PROBLEM"}] \in Service
    BY DEF Service, Kinds
  <2> QED
    BY <1>1, <2>1 DEF Announced
<1>2. CASE v.current = OK
  <2> DEFINE k == IF v.told THEN "RECOVERY" ELSE "UNTOLD"
  <2>1. k \in Kinds
    BY DEF Kinds
  <2> HIDE DEF k
  <2>2. [v EXCEPT !.told = FALSE, !.sent = @ \cup {k}] \in Service
    BY <2>1 DEF Service
  <2> QED
    BY <1>2, <2>2 DEF Announced, k
<1> QED
  BY <1>1, <1>2

LEMMA DeliveredType ==
  ASSUME NEW v \in Service
  PROVE  Delivered(v) \in Service
<1> DEFINE w == [v EXCEPT !.number = Cap(@ + 1, MaxNumber),
                      !.next = Interval, !.last = 0, !.deferred = FALSE,
                      !.noMore = Interval = 0 /\ ~Volatile,
                      !.notified = @ \cup ({v.current} \cap Problems)]
<1>1. Cap(v.number + 1, MaxNumber) \in 0 .. MaxNumber
  <2>1. v.number + 1 \in Nat /\ MaxNumber \in Nat
    BY DEF Service
  <2> QED
    BY <2>1, CapType
<1>2. (Interval = 0 /\ ~Volatile) \in BOOLEAN
  OBVIOUS
<1> DEFINE n == Cap(v.number + 1, MaxNumber)
           more == Interval = 0 /\ ~Volatile
           known == v.notified \cup ({v.current} \cap Problems)
<1>3. known \in SUBSET Problems
  BY DEF Service
<1>4. w = [v EXCEPT !.number = n, !.next = Interval, !.last = 0, !.deferred = FALSE,
                    !.noMore = more, !.notified = known]
  OBVIOUS
<1>5. n \in 0 .. MaxNumber /\ more \in BOOLEAN
  BY <1>1, <1>2
<1> HIDE DEF n, more, known
<1>6. [v EXCEPT !.number = n, !.next = Interval, !.last = 0, !.deferred = FALSE,
                !.noMore = more, !.notified = known] \in Service
  <2>1. 0 \in 0 .. Interval /\ Interval \in Nat
    OBVIOUS
  <2>2. [v EXCEPT !.number = n, !.next = Interval, !.last = 0, !.deferred = FALSE]
          \in Service
    BY <1>5, <2>1 DEF Service
  <2>3. \A x \in Service : [x EXCEPT !.noMore = more, !.notified = known] \in Service
    BY <1>3, <1>5, ZenonT(60) DEF Service
  <2> QED
    BY <2>2, <2>3
<1> QED
  BY <1>4, <1>6, AnnouncedType DEF Delivered

LEMMA EndedType ==
  ASSUME NEW v \in Service
  PROVE  Ended(v) \in Service
BY ZenonT(60) DEF Ended, Service

LEMMA NormalType ==
  ASSUME NEW v \in Service, NEW e \in Environment
  PROVE  NotifyNormal(v, e) \in Service
BY ConsideredType, DeliveredType, EndedType DEF NotifyNormal

LEMMA OtherType ==
  ASSUME NEW v \in Service, NEW e \in Environment, NEW allowed \in BOOLEAN
  PROVE  NotifyOther(v, e, allowed) \in Service
BY EndedType DEF NotifyOther

LEMMA FlapType ==
  ASSUME NEW v \in Service, NEW e \in Environment, NEW f
  PROVE  /\ ClearFlap(v, e) \in Service
         /\ Flap(v, e, f) \in Service
<1>1. SetFlap(v, e) \in Service
  <2>1. [v EXCEPT !.flapping = TRUE,
                  !.flapRecovery = v.current # OK /\ v.number > 0] \in Service
    BY ZenonT(60) DEF Service
  <2> QED
    BY <2>1, OtherType DEF SetFlap
<1>2. ClearFlap(v, e) \in Service
  <2> DEFINE n == NotifyOther([v EXCEPT !.flapping = FALSE], e, NotifyFlapping)
             r == IF n.flapRecovery /\ n.current = OK THEN NotifyNormal(n, e) ELSE n
  <2>1. [v EXCEPT !.flapping = FALSE] \in Service
    BY DEF Service
  <2>2. n \in Service
    BY <2>1, OtherType
  <2>3. r \in Service
    BY <2>2, NormalType
  <2>4. \A x \in Service : [x EXCEPT !.flapRecovery = FALSE] \in Service
    BY ZenonT(60) DEF Service
  <2> HIDE DEF r
  <2>5. [r EXCEPT !.flapRecovery = FALSE] \in Service
    BY <2>3, <2>4
  <2> QED
    BY <2>5 DEF ClearFlap, r
<1> QED
  BY <1>1, <1>2 DEF Flap

LEMMA StartedType ==
  ASSUME NEW v \in Service, NEW e \in Environment, v.downtime < MaxDepth
  PROVE  DowntimeStarted(v, e) \in Service
<1>1. NotifyOther(v, e, NotifyDowntime) \in Service
  BY OtherType
<1>2. NotifyOther(v, e, NotifyDowntime).downtime = v.downtime
  BY DEF NotifyOther, Ended, Service
<1> QED
  BY <1>1, <1>2 DEF DowntimeStarted, Service

LEMMA CountedType ==
  ASSUME NEW v \in Service, NEW r \in States
  PROVE  Counted(v, r) \in Service
<1> DEFINE a == IF v.type = "SOFT" /\ v.attempt < v.max THEN v.attempt + 1 ELSE v.attempt
           k == IF r = OK THEN 0 ELSE Cap(v.streak + 1, v.max)
<1>1. a \in Nat \ {0}
  BY DEF Service
<1>2. k \in Nat
  <2>1. v.streak \in Nat /\ v.max \in Attempts
    BY DEF Service
  <2> DEFINE t == v.streak + 1
  <2>2. t \in Nat /\ v.max \in Nat
    <3> HIDE DEF a, k
    <3>1. t \in Nat
      BY <2>1
    <3>2. \A m \in Attempts : m \in Nat
      BY AttemptsType
    <3>3. v.max \in Nat
      BY <2>1, <3>2
    <3> QED
      BY <3>1, <3>3
  <2> HIDE DEF t
  <2>3. Cap(t, v.max) \in Nat
    BY <2>2, CapType
  <2> QED
    BY <2>3 DEF t
<1>3. Counted(v, r) = [v EXCEPT !.current = r, !.attempt = a, !.sent = {}, !.streak = k]
  BY DEF Counted
<1> HIDE DEF a, k
<1>4. [v EXCEPT !.current = r, !.attempt = a, !.sent = {}, !.streak = k] \in Service
  BY <1>1, <1>2 DEF Service
<1> QED
  BY <1>3, <1>4

LEMMA ChangedType ==
  ASSUME NEW v \in Service, NEW change \in BOOLEAN
  PROVE  Changed(v, change) \in Service
<1> DEFINE clear == \/ v.ackType = "NORMAL" /\ change
                    \/ v.ackType = "STICKY" /\ v.current = OK
           a == v.acked /\ ~clear
           t == IF clear THEN None ELSE v.ackType
<1>1. a \in BOOLEAN /\ t \in {None, "NORMAL", "STICKY"}
  BY DEF Service
<1>2. Changed(v, change) = v \/
      Changed(v, change) = [v EXCEPT !.last = None, !.next = 0, !.noMore = FALSE,
                                     !.acked = a, !.ackType = t]
  BY DEF Changed
<1> HIDE DEF a, t
<1>3. [v EXCEPT !.last = None, !.next = 0, !.noMore = FALSE,
                !.acked = a, !.ackType = t] \in Service
  BY <1>1 DEF Service
<1> QED
  BY <1>2, <1>3

LEMMA ResetType ==
  ASSUME NEW v \in Service
  PROVE  Reset(v) \in Service
<1> DEFINE w == [v EXCEPT !.hostProblem = FALSE, !.attempt = 1, !.type = "HARD",
                          !.lastHard = OK, !.last = None, !.next = 0,
                          !.acked = FALSE, !.ackType = None, !.noMore = FALSE]
<1>1. w \in Service
  <2> DEFINE x == [v EXCEPT !.hostProblem = FALSE, !.attempt = 1, !.type = "HARD",
                            !.lastHard = OK, !.last = None]
  <2>1. x \in Service
    <3>1. OK \in States /\ 1 \in Nat \ {0}
      BY DEF States
    <3> QED
      BY <3>1 DEF Service
  <2>2. w = [x EXCEPT !.next = 0, !.acked = FALSE, !.ackType = None, !.noMore = FALSE]
    BY DEF Service
  <2> HIDE DEF x, w
  <2>3. [x EXCEPT !.next = 0, !.acked = FALSE, !.ackType = None, !.noMore = FALSE]
          \in Service
    BY <2>1 DEF Service
  <2> QED
    BY <2>2, <2>3
<1>2. \A x \in Service :
        [x EXCEPT !.number = 0, !.notified = {}, !.initial = None] \in Service
  <2>1. 0 \in 0 .. MaxNumber /\ {} \in SUBSET Problems
    OBVIOUS
  <2> QED
    BY <2>1, ZenonT(60) DEF Service
<1>3. Reset(v) = IF w.recovered
                 THEN [w EXCEPT !.number = 0, !.notified = {}, !.initial = None]
                 ELSE w
  BY DEF Reset
<1> HIDE DEF w
<1> QED
  BY <1>1, <1>2, <1>3

LEMMA RecoverType ==
  ASSUME NEW v \in Service, NEW e \in Environment, NEW change \in BOOLEAN, NEW f
  PROVE  Recover(v, e, change, f) \in Service
<1> DEFINE u == [v EXCEPT !.acked = FALSE, !.ackType = None]
           h == [u EXCEPT !.type = "HARD", !.recovered = FALSE, !.initial = None]
           w == IF change THEN [u EXCEPT !.type = "SOFT"] ELSE u
<1>1. u \in Service
  BY DEF Service
<1> HIDE DEF u
<1>2. h \in Service
  BY <1>1 DEF Service
<1>3. w \in Service
  <2>1. [u EXCEPT !.type = "SOFT"] \in Service
    BY <1>1 DEF Service
  <2> QED
    BY <1>1, <2>1
<1> HIDE DEF h, w
<1>4. Reset(NotifyNormal(Flap(h, e, f), e)) \in Service
  BY <1>2, FlapType, NormalType, ResetType
<1>5. Flap(Reset(IF w.recovered THEN w ELSE NotifyNormal(w, e)), e, f) \in Service
  BY <1>3, FlapType, NormalType, ResetType
<1> QED
  BY <1>4, <1>5 DEF Recover, u, h, w

LEMMA RoutedType ==
  ASSUME NEW v \in Service, NEW e \in Environment
  PROVE  /\ Routed(v, e) \in Service
         /\ Routed(v, e).downtime = v.downtime
<1>1. CASE ~e.up
  <2> DEFINE hard == HardChange(v) \/ v.lastHard # v.current
             t == IF hard THEN "HARD" ELSE v.type
             l == IF hard THEN v.current ELSE v.lastHard
  <2>1. t \in {"SOFT", "HARD"} /\ l \in States
    BY DEF Service
  <2>2. Routed(v, e) = [v EXCEPT !.hostProblem = TRUE, !.type = t, !.lastHard = l]
    BY <1>1 DEF Routed
  <2> HIDE DEF t, l
  <2>3. [v EXCEPT !.hostProblem = TRUE] \in Service
    BY DEF Service
  <2>4. \A x \in Service : [x EXCEPT !.type = t, !.lastHard = l] \in Service
    BY <2>1, ZenonT(60) DEF Service
  <2>5. [[v EXCEPT !.hostProblem = TRUE] EXCEPT !.type = t, !.lastHard = l] \in Service
    BY <2>3, <2>4
  <2> QED
    BY <2>2, <2>5
<1>2. CASE e.up /\ v.hostProblem
  <2> DEFINE a == IF v.type = "SOFT" THEN 1 ELSE v.attempt
  <2>1. a \in Nat \ {0}
    BY DEF Service
  <2>2. Routed(v, e) = [v EXCEPT !.hostProblem = FALSE, !.attempt = a]
    BY <1>2 DEF Routed
  <2> HIDE DEF a
  <2> QED
    BY <2>1, <2>2, ZenonT(60) DEF Service
<1>3. CASE e.up /\ ~v.hostProblem
  BY <1>3 DEF Routed
<1> QED
  BY <1>1, <1>2, <1>3 DEF Environment

LEMMA FailedType ==
  ASSUME NEW v \in Service, NEW e \in Environment, NEW change \in BOOLEAN, NEW f,
         NEW starts \in BOOLEAN, starts => v.downtime < MaxDepth
  PROVE  Failed(v, e, change, f, starts) \in Service
<1> DEFINE u == Routed(v, e)
           h == [u EXCEPT !.type = "HARD"]
           d == IF starts /\ (change \/ HardChange(v)) THEN DowntimeStarted(h, e)
                ELSE h
           n == NotifyNormal(Flap(d, e, f), e)
<1>1. u \in Service /\ u.downtime = v.downtime
  BY RoutedType
<1> HIDE DEF u
<1>2. /\ h \in Service /\ h.downtime = v.downtime
      /\ [u EXCEPT !.type = "SOFT"] \in Service
  BY <1>1 DEF Service
<1> HIDE DEF h
<1>3. d \in Service
  BY <1>2, StartedType
<1> HIDE DEF d
<1>4. n \in Service
  BY <1>3, FlapType, NormalType
<1>5. [n EXCEPT !.lastHard = v.current] \in Service
  <2> HIDE DEF n
  <2> QED
    BY <1>4 DEF Service
<1>6. Flap(IF e.up THEN [u EXCEPT !.type = "SOFT"] ELSE u, e, f) \in Service
  BY <1>1, <1>2, FlapType
<1> QED
  BY <1>5, <1>6 DEF Failed, u, h, d, n

LEMMA RestoredType ==
  ASSUME NEW v \in Service, NEW flaps \in BOOLEAN
  PROVE  Restored(v, flaps) \in Service
<1> DEFINE again == v.current # OK /\ v.last # None
           a == IF v.current # OK /\ v.type = "HARD" THEN v.max ELSE v.attempt
           n == IF again THEN Interval - v.last ELSE 0
           m == again /\ Interval = 0 /\ ~Volatile
           r == IF flaps THEN v.current # OK /\ v.number > 0
                ELSE v.flapRecovery /\ ~v.flapping
<1>1. a \in Nat \ {0} /\ n \in Nat /\ m \in BOOLEAN /\ r \in BOOLEAN
  <2>1. a \in Nat \ {0}
    BY DEF Service
  <2>2. n \in Nat
    <3>1. again => v.last \in 0 .. Interval
      BY DEF Service
    <3> QED
      BY <3>1
  <2>3. m \in BOOLEAN
    OBVIOUS
  <2>4. r \in BOOLEAN
    BY DEF Service
  <2> QED
    BY <2>1, <2>2, <2>3, <2>4
<1>2. 0 \in 0 .. MaxDepth
  OBVIOUS
<1>3. Restored(v, flaps) =
        [v EXCEPT !.sent = {}, !.attempt = a, !.hostProblem = FALSE, !.next = n,
                  !.deferred = FALSE, !.noMore = m, !.initial = None, !.recovered = TRUE,
                  !.flapping = flaps, !.flapRecovery = r, !.downtime = 0]
  BY DEF Restored, Unsent, Service
<1> HIDE DEF a, n, m, r
<1>4. [v EXCEPT !.sent = {}, !.attempt = a, !.hostProblem = FALSE, !.next = n,
                !.deferred = FALSE, !.noMore = m] \in Service
  BY <1>1 DEF Service
<1>5. \A x \in Service :
        [x EXCEPT !.initial = None, !.recovered = TRUE, !.flapping = flaps,
                  !.flapRecovery = r, !.downtime = 0] \in Service
  <2>1. \A x \in Service :
          [x EXCEPT !.initial = None, !.recovered = TRUE, !.flapping = flaps] \in Service
    BY ZenonT(60), <1>1 DEF Service
  <2>2. \A x \in Service : [x EXCEPT !.flapRecovery = r, !.downtime = 0] \in Service
    BY ZenonT(60), <1>1, <1>2 DEF Service
  <2>3. \A x \in Service :
          [[x EXCEPT !.initial = None, !.recovered = TRUE, !.flapping = flaps]
             EXCEPT !.flapRecovery = r, !.downtime = 0] \in Service
    BY <2>1, <2>2
  <2> QED
    BY <2>3
<1> QED
  BY <1>3, <1>4, <1>5

LEMMA UnsentType ==
  ASSUME NEW v \in Service
  PROVE  Unsent(v) \in Service
BY DEF Unsent, Service

LEMMA HandleType ==
  ASSUME TypeOK, NEW r \in States, NEW f, NEW starts \in Starts,
         Handle(r, f, starts)
  PROVE  TypeOK'
<1> DEFINE change == r # svc.current
           v == Counted(svc, r)
           w == Changed(v, change)
<1>1. svc \in Service /\ env \in Environment /\ change \in BOOLEAN
  BY DEF TypeOK
<1>2. v \in Service /\ v.downtime = svc.downtime
  <2>1. v \in Service
    BY <1>1, CountedType
  <2>2. v.downtime = svc.downtime
    BY <1>1 DEF Counted, Service
  <2> QED
    BY <2>1, <2>2
<1>3. starts \in BOOLEAN /\ (starts => svc.downtime < MaxDepth)
  BY DEF Starts
<1>4. /\ svc' = IF r = OK THEN Recover(w, env, change, f)
                          ELSE Failed(w, env, change, f, starts)
      /\ env' = env
  BY DEF Handle
<1> HIDE DEF v
<1>5. w.downtime = v.downtime
  BY <1>2 DEF Changed, Service
<1>6. w \in Service
  BY <1>1, <1>2, ChangedType
<1> HIDE DEF w, change
<1>7. Recover(w, env, change, f) \in Service
  BY <1>1, <1>6, RecoverType
<1>8. Failed(w, env, change, f, starts) \in Service
  BY <1>1, <1>2, <1>3, <1>5, <1>6, FailedType
<1> QED
  BY <1>1, <1>4, <1>7, <1>8 DEF TypeOK

-----------------------------------------------------------------------------
LEMMA InitType ==
  Init => TypeOK
<1> SUFFICES ASSUME NEW s \in States, NEW m \in Attempts, svc = Created(s, m),
                    env = [up |-> TRUE, closed |-> 0, enabled |-> TRUE, duty |-> TRUE]
             PROVE  TypeOK
  BY DEF Init
<1> DEFINE a == IF s = OK THEN 1 ELSE m
           k == IF s = OK THEN 0 ELSE m
<1>1. a \in Nat \ {0} /\ k \in Nat
  BY AttemptsType
<1>2. 0 \in 0 .. MaxNumber /\ 0 \in 0 .. MaxDepth /\ 0 \in 0 .. MaxClosed
  OBVIOUS
<1>3. svc = [current |-> s, type |-> "HARD", attempt |-> a,
             max |-> m, lastHard |-> s, hostProblem |-> FALSE, acked |-> FALSE,
             ackType |-> None, number |-> 0, notified |-> {}, last |-> None,
             next |-> 0, noMore |-> FALSE, initial |-> None, recovered |-> TRUE,
             flapping |-> FALSE, flapRecovery |-> FALSE, downtime |-> 0,
             told |-> FALSE, deferred |-> FALSE, sent |-> {}, streak |-> k]
  BY DEF Created
<1> HIDE DEF a, k
<1>4. svc \in Service
  BY <1>1, <1>2, <1>3 DEF Service
<1>5. env \in Environment
  BY <1>2 DEF Environment
<1> QED
  BY <1>4, <1>5 DEF TypeOK

LEMMA StepType ==
  TypeOK /\ [Next]_vars => TypeOK'
<1> SUFFICES ASSUME TypeOK, [Next]_vars
             PROVE  TypeOK'
  OBVIOUS
<1> DEFINE v == Unsent(svc)
<1>0. svc \in Service /\ env \in Environment /\ v \in Service
  BY UnsentType DEF TypeOK
<1>00. v.downtime = svc.downtime /\ v.current = svc.current
  BY <1>0 DEF Unsent, Service
<1>env. /\ \A b \in BOOLEAN : /\ [env EXCEPT !.up = b] \in Environment
                               /\ [env EXCEPT !.enabled = b] \in Environment
                               /\ [env EXCEPT !.duty = b] \in Environment
        /\ \A c \in 0 .. MaxClosed : [env EXCEPT !.closed = c] \in Environment
  BY <1>0 DEF Environment
<1>fields. (~env.up) \in BOOLEAN /\ (~env.enabled) \in BOOLEAN /\ (~env.duty) \in BOOLEAN
  OBVIOUS
<1> HIDE DEF v
<1>1. CASE Result
  BY <1>1, HandleType DEF Result
<1>2. CASE HostResult
  <2> DEFINE b == ~env.up
  <2>1. b \in BOOLEAN /\ env' = [env EXCEPT !.up = b] /\ svc' = v
    BY <1>0, <1>2, <1>fields DEF HostResult, v
  <2> HIDE DEF b
  <2>2. env' \in Environment
    BY <2>1, <1>env
  <2> QED
    BY <1>0, <2>1, <2>2 DEF TypeOK
<1>3. CASE \E type \in {"NORMAL", "STICKY"} : Acknowledge(type)
  <2>1. PICK type \in {"NORMAL", "STICKY"} : Acknowledge(type)
    BY <1>3
  <2>2. [v EXCEPT !.acked = TRUE, !.ackType = type] \in Service
    BY <1>0 DEF Service
  <2> QED
    BY <1>0, <2>1, <2>2, OtherType DEF Acknowledge, TypeOK, v
<1>4. CASE RemoveAcknowledgement
  <2>1. [v EXCEPT !.acked = FALSE] \in Service
    BY <1>0 DEF Service
  <2> QED
    BY <1>0, <1>4, <2>1 DEF RemoveAcknowledgement, TypeOK, v
<1>5. CASE AcknowledgementExpires
  <2>1. [v EXCEPT !.acked = FALSE, !.ackType = None] \in Service
    BY <1>0 DEF Service
  <2> QED
    BY <1>0, <1>5, <2>1 DEF AcknowledgementExpires, TypeOK, v
<1>6. CASE StartDowntime
  BY <1>0, <1>00, <1>6, StartedType DEF StartDowntime, TypeOK, v
<1>7. CASE EndDowntime
  <2>1. [v EXCEPT !.downtime = @ - 1] \in Service
    BY <1>0, <1>00, <1>7 DEF EndDowntime, Service
  <2> QED
    BY <1>0, <1>7, <2>1, OtherType DEF EndDowntime, TypeOK, v
<1>8. CASE DisableFlapDetection
  BY <1>0, <1>8, FlapType DEF DisableFlapDetection, TypeOK, v
<1>9. CASE \E forced, increment \in BOOLEAN : CustomNotification(forced, increment)
  <2>1. PICK forced \in BOOLEAN, increment \in BOOLEAN :
          CustomNotification(forced, increment)
    BY <1>9
  <2>2. Cap(v.number + 1, MaxNumber) \in 0 .. MaxNumber
    <3>1. v.number + 1 \in Nat /\ MaxNumber \in Nat
      BY <1>0 DEF Service
    <3> QED
      BY <3>1, CapType
  <2>3. [v EXCEPT !.number = Cap(@ + 1, MaxNumber)] \in Service
    BY <1>0, <2>2 DEF Service
  <2> QED
    BY <1>0, <2>1, <2>3, EndedType DEF CustomNotification, TypeOK, v
<1>10. CASE \E n \in 0 .. MaxNumber : SetNumber(n)
  <2>1. PICK n \in 0 .. MaxNumber : SetNumber(n)
    BY <1>10
  <2>2. [v EXCEPT !.number = n] \in Service
    BY <1>0 DEF Service
  <2> QED
    BY <1>0, <2>1, <2>2 DEF SetNumber, TypeOK, v
<1>11. CASE \E m \in Attempts : ChangeMaxAttempts(m)
  <2>1. PICK m \in Attempts : ChangeMaxAttempts(m)
    BY <1>11
  <2> DEFINE a == IF svc.type = "HARD" /\ svc.current # OK /\ v.attempt > 1
                  THEN m ELSE v.attempt
  <2>2. a \in Nat \ {0}
    BY <1>0, AttemptsType DEF Service
  <2>3. svc' = [v EXCEPT !.max = m, !.attempt = a] /\ env' = env
    BY <1>0, <2>1 DEF ChangeMaxAttempts, v
  <2> HIDE DEF a
  <2>4. [v EXCEPT !.max = m, !.attempt = a] \in Service
    BY <1>0, <2>2 DEF Service
  <2> QED
    BY <1>0, <2>3, <2>4 DEF TypeOK
<1>12. CASE \E m \in Attempts : ReloadAttempts(m)
  <2>1. PICK m \in Attempts : ReloadAttempts(m)
    BY <1>12
  <2>2. [v EXCEPT !.max = m] \in Service
    BY <1>0 DEF Service
  <2> QED
    BY <1>0, <2>1, <2>2 DEF ReloadAttempts, TypeOK, v
<1>13. CASE SwitchNotifications
  <2> DEFINE b == ~env.enabled
  <2>1. b \in BOOLEAN /\ env' = [env EXCEPT !.enabled = b] /\ svc' = v
    BY <1>0, <1>13, <1>fields DEF SwitchNotifications, v
  <2> HIDE DEF b
  <2>2. env' \in Environment
    BY <2>1, <1>env
  <2> QED
    BY <1>0, <2>1, <2>2 DEF TypeOK
<1>14. CASE \E d \in 1 .. MaxClosed : PeriodCloses(d)
  <2>1. PICK d \in 1 .. MaxClosed : PeriodCloses(d)
    BY <1>14
  <2>2. d \in 0 .. MaxClosed
    OBVIOUS
  <2> QED
    BY <1>0, <2>1, <2>2, <1>env DEF PeriodCloses, TypeOK, v
<1>15. CASE DutyChanges
  <2> DEFINE b == ~env.duty
  <2>1. b \in BOOLEAN /\ env' = [env EXCEPT !.duty = b] /\ svc' = v
    BY <1>0, <1>15, <1>fields DEF DutyChanges, v
  <2> HIDE DEF b
  <2>2. env' \in Environment
    BY <2>1, <1>env
  <2> QED
    BY <1>0, <2>1, <2>2 DEF TypeOK
<1>16. CASE \E flaps \in BOOLEAN : Restart(flaps)
  BY <1>0, <1>16, RestoredType DEF Restart, TypeOK
<1>17. CASE Tick
  <2> DEFINE l == IF v.last = None THEN None ELSE Cap(v.last + 1, Interval)
             n == IF v.next = 0 THEN 0 ELSE v.next - 1
             i == IF v.initial = None THEN None ELSE Cap(v.initial + 1, LongestDelay)
             c == IF env.closed = 0 THEN 0 ELSE env.closed - 1
  <2>1. l \in (0 .. Interval) \cup {None}
    <3>1. CASE v.last # None
      <4>1. v.last + 1 \in Nat /\ Interval \in Nat
        BY <1>0, <3>1 DEF Service
      <4>2. Cap(v.last + 1, Interval) \in 0 .. Interval
        BY <4>1, CapType
      <4> QED
        BY <3>1, <4>2
    <3> QED
      BY <3>1
  <2>2. n \in Nat
    BY <1>0 DEF Service
  <2>3. i \in Nat \cup {None}
    <3>1. CASE v.initial # None
      <4>1. v.initial + 1 \in Nat /\ LongestDelay \in Nat
        BY <1>0, <3>1 DEF Service, LongestDelay
      <4>2. Cap(v.initial + 1, LongestDelay) \in 0 .. LongestDelay
        BY <4>1, CapType
      <4>3. 0 .. LongestDelay \subseteq Nat
        OBVIOUS
      <4> QED
        BY <3>1, <4>2, <4>3
    <3> QED
      BY <3>1
  <2>4. c \in 0 .. MaxClosed
    BY <1>0 DEF Environment
  <2>5. svc' = [v EXCEPT !.last = l, !.next = n, !.initial = i]
    BY <1>17 DEF Tick, v
  <2>6. env' = [env EXCEPT !.closed = c]
    BY <1>17 DEF Tick
  <2> HIDE DEF l, n, i, c
  <2>7. [v EXCEPT !.last = l, !.next = n, !.initial = i] \in Service
    BY <1>0, <2>1, <2>2, <2>3 DEF Service
  <2> QED
    BY <2>4, <2>5, <2>6, <2>7, <1>env DEF TypeOK
<1>18. CASE UNCHANGED vars
  BY <1>0, <1>18 DEF vars, TypeOK
<1> QED
  BY <1>1, <1>2, <1>3, <1>4, <1>5, <1>6, <1>7, <1>8, <1>9, <1>10, <1>11, <1>12,
     <1>13, <1>14, <1>15, <1>16, <1>17, <1>18 DEF Next

(* Every field of the service and of its environment keeps its type, for any *)
(* options and bounds: the depth of downtimes never leaves its range, and     *)
(* the distances in time are never negative.                                  *)
THEOREM TypeCorrect ==
  Spec => []TypeOK
BY InitType, StepType, PTL DEF Spec

-----------------------------------------------------------------------------
(* What notifications, flapping and downtimes leave alone. *)
Shape(v) == <<v.current, v.type, v.attempt, v.max, v.lastHard>>

\* what contacts are owed depends on these and on current
Account(v) == <<v.told, v.number, v.notified>>

LEMMA ConsideredShape ==
  ASSUME NEW v \in Service, NEW e
  PROVE  /\ Shape(Considered(v, e)) = Shape(v)
         /\ Account(Considered(v, e)) = Account(v)
         /\ Considered(v, e).recovered = v.recovered
BY DEF Considered, Service, Shape, Account

LEMMA AnnouncedShape ==
  ASSUME NEW v \in Service
  PROVE  /\ Shape(Announced(v)) = Shape(v)
         /\ Announced(v).number = v.number
         /\ Announced(v).notified = v.notified
         /\ Announced(v).recovered = v.recovered
         /\ Announced(v).told = (v.current # OK)
BY DEF Announced, Service, Shape

LEMMA DeliveredShape ==
  ASSUME NEW v \in Service
  PROVE  /\ Shape(Delivered(v)) = Shape(v)
         /\ Delivered(v).number > 0
         /\ v.current # OK => Delivered(v).notified # {}
         /\ Delivered(v).recovered = v.recovered
         /\ Delivered(v).told = (v.current # OK)
<1> DEFINE n == Cap(v.number + 1, MaxNumber)
           more == Interval = 0 /\ ~Volatile
           known == v.notified \cup ({v.current} \cap Problems)
           x == [v EXCEPT !.number = n, !.next = Interval, !.last = 0, !.deferred = FALSE]
           w == [x EXCEPT !.noMore = more, !.notified = known]
<1>1. n \in 0 .. MaxNumber /\ n > 0
  <2>1. v.number \in 0 .. MaxNumber
    BY DEF Service
  <2> QED
    BY <2>1 DEF Cap
<1>2. more \in BOOLEAN
  OBVIOUS
<1>3. known \in SUBSET Problems /\ (v.current # OK => known # {})
  BY DEF Service, States
<1>4. Delivered(v) = Announced(w)
  BY DEF Delivered, Service
<1> HIDE DEF n, more, known
<1>5. x \in Service /\ Shape(x) = Shape(v) /\ x.number = n /\ x.recovered = v.recovered
  <2>1. 0 \in 0 .. Interval /\ Interval \in Nat
    OBVIOUS
  <2> QED
    BY <1>1, <2>1 DEF Service, Shape
<1> HIDE DEF x
<1>6. w \in Service /\ Shape(w) = Shape(x) /\ w.number = x.number
      /\ w.notified = known /\ w.recovered = x.recovered
  BY <1>2, <1>3, <1>5 DEF Service, Shape
<1> HIDE DEF w
<1>7. w.current = v.current
  BY <1>5, <1>6 DEF Shape
<1> QED
  BY <1>1, <1>3, <1>4, <1>5, <1>6, <1>7, AnnouncedShape

LEMMA EndedShape ==
  ASSUME NEW v \in Service
  PROVE  /\ Shape(Ended(v)) = Shape(v)
         /\ Account(Ended(v)) = Account(v)
         /\ v.current # OK => Ended(v).recovered = v.recovered
BY DEF Ended, Service, Shape, Account

LEMMA NormalShape ==
  ASSUME NEW v \in Service, NEW e \in Environment
  PROVE  Shape(NotifyNormal(v, e)) = Shape(v)
<1> DEFINE c == Considered(v, e)
<1>1. c \in Service /\ Shape(c) = Shape(v)
  BY ConsideredType, ConsideredShape
<1> HIDE DEF c
<1>2. Delivered(c) \in Service /\ Shape(Delivered(c)) = Shape(v)
  BY <1>1, DeliveredType, DeliveredShape
<1>3. Shape(Ended(c)) = Shape(v) /\ Shape(Ended(Delivered(c))) = Shape(v)
  BY <1>1, <1>2, EndedShape
<1> QED
  BY <1>1, <1>3 DEF NotifyNormal, c

LEMMA OtherShape ==
  ASSUME NEW v \in Service, NEW e \in Environment, NEW allowed
  PROVE  Shape(NotifyOther(v, e, allowed)) = Shape(v)
BY EndedShape DEF NotifyOther

LEMMA FlapShape ==
  ASSUME NEW v \in Service, NEW e \in Environment, NEW f
  PROVE  /\ Shape(ClearFlap(v, e)) = Shape(v)
         /\ Shape(Flap(v, e, f)) = Shape(v)
<1>1. Shape(SetFlap(v, e)) = Shape(v)
  <2> DEFINE w == [v EXCEPT !.flapping = TRUE,
                            !.flapRecovery = v.current # OK /\ v.number > 0]
  <2>1. w \in Service /\ Shape(w) = Shape(v)
    BY ZenonT(60) DEF Service, Shape
  <2> HIDE DEF w
  <2> QED
    BY <2>1, OtherShape DEF SetFlap, w
<1>2. Shape(ClearFlap(v, e)) = Shape(v)
  <2> DEFINE n == NotifyOther([v EXCEPT !.flapping = FALSE], e, NotifyFlapping)
             r == IF n.flapRecovery /\ n.current = OK THEN NotifyNormal(n, e) ELSE n
  <2>1. /\ [v EXCEPT !.flapping = FALSE] \in Service
        /\ Shape([v EXCEPT !.flapping = FALSE]) = Shape(v)
    BY DEF Service, Shape
  <2>2. n \in Service /\ Shape(n) = Shape(v)
    BY <2>1, OtherType, OtherShape
  <2> HIDE DEF n
  <2>3. r \in Service /\ Shape(r) = Shape(v)
    BY <2>2, NormalType, NormalShape
  <2> HIDE DEF r
  <2>4. \A x \in Service : Shape([x EXCEPT !.flapRecovery = FALSE]) = Shape(x)
    BY DEF Service, Shape
  <2> QED
    BY <2>3, <2>4 DEF ClearFlap, r, n
<1> QED
  BY <1>1, <1>2 DEF Flap

LEMMA StartedShape ==
  ASSUME NEW v \in Service, NEW e \in Environment
  PROVE  Shape(DowntimeStarted(v, e)) = Shape(v)
<1>1. /\ NotifyOther(v, e, NotifyDowntime) \in Service
      /\ Shape(NotifyOther(v, e, NotifyDowntime)) = Shape(v)
  BY OtherType, OtherShape
<1>2. \A x \in Service : Shape([x EXCEPT !.downtime = @ + 1]) = Shape(x)
  BY DEF Service, Shape
<1> QED
  BY <1>1, <1>2 DEF DowntimeStarted

-----------------------------------------------------------------------------
(* A problem at its last attempt. *)
Firm(v) == v.type = "HARD" /\ v.attempt >= v.max

\* A result that is a problem leaves a firm problem firm.
LEMMA FirmFailed ==
  ASSUME NEW v \in Service, NEW e \in Environment, NEW change \in BOOLEAN, NEW f,
         NEW starts \in BOOLEAN, starts => v.downtime < MaxDepth, Firm(v)
  PROVE  /\ Firm(Failed(v, e, change, f, starts))
         /\ Failed(v, e, change, f, starts).lastHard = v.current
         /\ Failed(v, e, change, f, starts).current = v.current
<1> DEFINE u == Routed(v, e)
           h == [u EXCEPT !.type = "HARD"]
           d == IF starts /\ (change \/ HardChange(v)) THEN DowntimeStarted(h, e)
                ELSE h
           n == NotifyNormal(Flap(d, e, f), e)
<1>1. u \in Service /\ u.downtime = v.downtime
  BY RoutedType
<1>2. u.attempt = v.attempt /\ u.max = v.max /\ u.current = v.current
  BY DEF Routed, Service, Firm
<1> HIDE DEF u
<1>3. /\ h \in Service /\ h.downtime = v.downtime /\ h.current = v.current
      /\ h.type = "HARD" /\ h.attempt = v.attempt /\ h.max = v.max
  BY <1>1, <1>2 DEF Service
<1> HIDE DEF h
<1>4. d \in Service /\ Shape(d) = Shape(h)
  BY <1>3, StartedType, StartedShape
<1> HIDE DEF d
<1>5. n \in Service /\ Shape(n) = Shape(h)
  BY <1>4, FlapType, FlapShape, NormalType, NormalShape
<1> HIDE DEF n
<1>6. /\ n.type = "HARD" /\ n.attempt = v.attempt /\ n.max = v.max
      /\ n.current = v.current
  BY <1>3, <1>5 DEF Shape
<1>7. ~(u.attempt < u.max)
  <2>1. v.attempt \in Nat /\ v.max \in Attempts
    BY DEF Service
  <2>2. \A m \in Attempts : m \in Nat
    BY AttemptsType
  <2>3. v.attempt \in Nat /\ v.max \in Nat /\ v.attempt >= v.max
    BY <2>1, <2>2 DEF Firm
  <2> QED
    BY <1>2, <2>3
<1>8. Failed(v, e, change, f, starts) = [n EXCEPT !.lastHard = v.current]
  BY <1>7 DEF Failed, u, h, d, n
<1> QED
  BY <1>5, <1>6, <1>8 DEF Firm, Service

\* Taking a result leaves it firm too.
LEMMA FirmTaken ==
  ASSUME NEW v \in Service, NEW r \in States, NEW change, Firm(v)
  PROVE  LET w == Changed(Counted(v, r), change)
         IN /\ Firm(w)
            /\ w.current = r /\ w.lastHard = v.lastHard
<1> DEFINE a == IF v.type = "SOFT" /\ v.attempt < v.max THEN v.attempt + 1 ELSE v.attempt
           k == IF r = OK THEN 0 ELSE Cap(v.streak + 1, v.max)
           c == Counted(v, r)
<1>1. a = v.attempt
  BY DEF Firm
<1>2. c = [v EXCEPT !.current = r, !.attempt = a, !.sent = {}, !.streak = k]
  BY DEF Counted
<1> HIDE DEF a, k
<1>3. c \in Service
  BY CountedType
<1>4. /\ Firm(c) /\ c.current = r /\ c.lastHard = v.lastHard
  BY <1>1, <1>2 DEF Service, Firm
<1> HIDE DEF c
<1>5. Shape(Changed(c, change)) = Shape(c)
  BY <1>3 DEF Changed, Service, Shape
<1> QED
  BY <1>4, <1>5 DEF Shape, Firm, c

\* An OK result leaves the service OK.
LEMMA ResetCurrent ==
  ASSUME NEW v \in Service
  PROVE  Reset(v).current = v.current
<1> DEFINE w == [v EXCEPT !.hostProblem = FALSE, !.attempt = 1, !.type = "HARD",
                          !.lastHard = OK, !.last = None, !.next = 0,
                          !.acked = FALSE, !.ackType = None, !.noMore = FALSE]
<1>1. /\ w.current = v.current
      /\ [w EXCEPT !.number = 0, !.notified = {}, !.initial = None].current = v.current
  BY DEF Service
<1>2. Reset(v) = IF w.recovered
                 THEN [w EXCEPT !.number = 0, !.notified = {}, !.initial = None]
                 ELSE w
  BY DEF Reset
<1> HIDE DEF w
<1> QED
  BY <1>1, <1>2

LEMMA RecoverCurrent ==
  ASSUME NEW v \in Service, NEW e \in Environment, NEW change \in BOOLEAN, NEW f
  PROVE  Recover(v, e, change, f).current = v.current
<1> DEFINE u == [v EXCEPT !.acked = FALSE, !.ackType = None]
           h == [u EXCEPT !.type = "HARD", !.recovered = FALSE, !.initial = None]
           w == IF change THEN [u EXCEPT !.type = "SOFT"] ELSE u
           m == IF w.recovered THEN w ELSE NotifyNormal(w, e)
<1>1. u \in Service /\ u.current = v.current
  <2>1. u \in Service
    BY DEF Service
  <2>2. u.current = v.current
    BY DEF Service
  <2> QED
    BY <2>1, <2>2
<1> HIDE DEF u
<1>2. h \in Service /\ h.current = v.current
  <2>1. h \in Service
    BY <1>1 DEF Service
  <2>2. h.current = u.current
    BY <1>1 DEF Service
  <2> QED
    BY <1>1, <2>1, <2>2
<1>3. w \in Service /\ w.current = v.current
  <2>1. [u EXCEPT !.type = "SOFT"] \in Service /\ [u EXCEPT !.type = "SOFT"].current = u.current
    BY <1>1 DEF Service
  <2> QED
    BY <1>1, <2>1
<1> HIDE DEF h, w
<1>4. Reset(NotifyNormal(Flap(h, e, f), e)).current = v.current
  <2>1. /\ NotifyNormal(Flap(h, e, f), e) \in Service
        /\ NotifyNormal(Flap(h, e, f), e).current = v.current
    BY <1>2, FlapType, FlapShape, NormalType, NormalShape DEF Shape
  <2> QED
    BY <2>1, ResetCurrent
<1>5. m \in Service /\ m.current = v.current
  BY <1>3, NormalType, NormalShape DEF Shape
<1> HIDE DEF m
<1>6. Flap(Reset(m), e, f).current = v.current
  BY <1>5, ResetType, ResetCurrent, FlapShape DEF Shape
<1> QED
  BY <1>4, <1>6 DEF Recover, u, h, w, m

\* Only results and changes of max_check_attempts touch the attempts, and only
\* results the states.
LEMMA OtherActions ==
  ASSUME TypeOK, Next, ~Result
  PROVE  /\ svc'.current = svc.current /\ svc'.type = svc.type
         /\ svc'.lastHard = svc.lastHard
<1> DEFINE v == Unsent(svc)
           Calm(x) == <<x.current, x.type, x.lastHard>>
<1>0. svc \in Service /\ env \in Environment /\ v \in Service
  BY UnsentType DEF TypeOK
<1>00. Shape(v) = Shape(svc)
  BY <1>0 DEF Unsent, Service, Shape
<1> HIDE DEF v
<1>1. CASE HostResult \/ SwitchNotifications \/ DutyChanges
           \/ \E d \in 1 .. MaxClosed : PeriodCloses(d)
  BY <1>00, <1>1 DEF HostResult, SwitchNotifications, DutyChanges, PeriodCloses,
                     Shape, v
<1>2. CASE \E type \in {"NORMAL", "STICKY"} : Acknowledge(type)
  <2>1. PICK type \in {"NORMAL", "STICKY"} : Acknowledge(type)
    BY <1>2
  <2> DEFINE w == [v EXCEPT !.acked = TRUE, !.ackType = type]
  <2>2. w \in Service /\ Shape(w) = Shape(v)
    <3>1. w \in Service
      BY <1>0 DEF Service
    <3>2. Shape(w) = Shape(v)
      BY <1>0 DEF Service, Shape
    <3> QED
      BY <3>1, <3>2
  <2>3. svc' = NotifyOther(w, env, TRUE)
    BY <2>1 DEF Acknowledge, v
  <2> HIDE DEF w
  <2> QED
    BY ZenonT(60), <1>0, <1>00, <2>2, <2>3, OtherShape DEF Shape
<1>3. CASE RemoveAcknowledgement \/ AcknowledgementExpires
  <2>1. \/ svc' = [v EXCEPT !.acked = FALSE]
        \/ svc' = [v EXCEPT !.acked = FALSE, !.ackType = None]
    BY <1>3 DEF RemoveAcknowledgement, AcknowledgementExpires, v
  <2>2. Shape([v EXCEPT !.acked = FALSE]) = Shape(v)
    BY <1>0 DEF Service, Shape
  <2>3. Shape([v EXCEPT !.acked = FALSE, !.ackType = None]) = Shape(v)
    BY <1>0 DEF Service, Shape
  <2>4. Shape(svc') = Shape(svc)
    BY <1>00, <2>1, <2>2, <2>3
  <2> QED
    BY <2>4 DEF Shape
<1>4. CASE StartDowntime
  BY <1>0, <1>00, <1>4, StartedShape DEF StartDowntime, Shape, v
<1>5. CASE EndDowntime
  <2> DEFINE w == [v EXCEPT !.downtime = @ - 1]
  <2>1. w \in Service /\ Shape(w) = Shape(v)
    <3>1. v.downtime = svc.downtime
      BY <1>0 DEF Unsent, Service, v
    <3> QED
      BY <1>0, <1>5, <3>1 DEF EndDowntime, Service, Shape
  <2>2. svc' = NotifyOther(w, env, NotifyDowntime)
    BY <1>5 DEF EndDowntime, v
  <2> HIDE DEF w
  <2> QED
    BY <1>0, <1>00, <2>1, <2>2, OtherShape DEF Shape
<1>6. CASE DisableFlapDetection
  BY <1>0, <1>00, <1>6, FlapShape DEF DisableFlapDetection, Shape, v
<1>7. CASE \E forced, increment \in BOOLEAN : CustomNotification(forced, increment)
  <2>1. PICK forced \in BOOLEAN, increment \in BOOLEAN :
          CustomNotification(forced, increment)
    BY <1>7
  <2> DEFINE w == IF increment THEN [v EXCEPT !.number = Cap(@ + 1, MaxNumber)] ELSE v
  <2>2. Cap(v.number + 1, MaxNumber) \in 0 .. MaxNumber
    <3>1. v.number + 1 \in Nat /\ MaxNumber \in Nat
      BY <1>0 DEF Service
    <3> QED
      BY <3>1, CapType
  <2>3. /\ [v EXCEPT !.number = Cap(@ + 1, MaxNumber)] \in Service
        /\ Shape([v EXCEPT !.number = Cap(@ + 1, MaxNumber)]) = Shape(v)
    BY <1>0, <2>2 DEF Service, Shape
  <2>4. w \in Service /\ Shape(w) = Shape(v)
    BY <1>0, <2>3
  <2>5. svc' = Ended(w)
    BY <2>1 DEF CustomNotification, v
  <2> HIDE DEF w
  <2> QED
    BY <1>00, <2>4, <2>5, EndedShape DEF Shape
<1>8. CASE \E n \in 0 .. MaxNumber : SetNumber(n)
  BY <1>0, <1>00, <1>8 DEF SetNumber, Service, Shape, v
<1>9. CASE \E m \in Attempts : ChangeMaxAttempts(m) \/ ReloadAttempts(m)
  <2>1. PICK m \in Attempts : ChangeMaxAttempts(m) \/ ReloadAttempts(m)
    BY <1>9
  <2> DEFINE a == IF svc.type = "HARD" /\ svc.current # OK /\ v.attempt > 1
                  THEN m ELSE v.attempt
  <2>2. \/ svc' = [v EXCEPT !.max = m, !.attempt = a]
        \/ svc' = [v EXCEPT !.max = m]
    BY <2>1, <1>0 DEF ChangeMaxAttempts, ReloadAttempts, v
  <2> HIDE DEF a
  <2>3. Calm([v EXCEPT !.max = m]) = Calm(v)
    BY <1>0 DEF Service
  <2>4. Calm([v EXCEPT !.max = m, !.attempt = a]) = Calm(v)
    BY <1>0 DEF Service
  <2>5. Calm(v) = Calm(svc)
    BY <1>00 DEF Shape
  <2>6. Calm(svc') = Calm(svc)
    BY <2>2, <2>3, <2>4, <2>5
  <2> QED
    BY <2>6
<1>10. CASE \E flaps \in BOOLEAN : Restart(flaps)
  <2>1. PICK flaps \in BOOLEAN : Restart(flaps)
    BY <1>10
  <2>2. Calm(Restored(svc, flaps)) = Calm(v)
    BY <1>0 DEF Restored, Service, v
  <2> QED
    BY <1>00, <2>1, <2>2 DEF Restart, Shape
<1>11. CASE Tick
  BY <1>0, <1>00, <1>11 DEF Tick, Service, Shape, v
<1> QED
  BY <1>1, <1>2, <1>3, <1>4, <1>5, <1>6, <1>7, <1>8, <1>9, <1>10, <1>11 DEF Next

LEMMA StayStep ==
  TypeOK /\ [Next]_vars => (Confirmed /\ svc'.current # OK => svc'.type = "HARD")
<1> SUFFICES ASSUME TypeOK, [Next]_vars, Confirmed, svc'.current # OK
             PROVE  svc'.type = "HARD"
  OBVIOUS
<1>0. svc \in Service /\ env \in Environment /\ Firm(svc)
  BY DEF TypeOK, Confirmed, Firm
<1>1. CASE Result
  <2>1. PICK r \in States, f \in Flaps, starts \in Starts : Handle(r, f, starts)
    BY <1>1 DEF Result
  <2> DEFINE change == r # svc.current
             v == Counted(svc, r)
             w == Changed(v, change)
  <2>2. v \in Service /\ change \in BOOLEAN
    BY <1>0, CountedType
  <2>3. w \in Service
    BY <2>2, ChangedType
  <2>4. v.downtime = svc.downtime
    BY <1>0 DEF Counted, Service
  <2>5. w.downtime = v.downtime
    BY <2>2 DEF Changed, Service
  <2>6. Firm(w) /\ w.current = r
    BY <1>0, FirmTaken
  <2>7. /\ svc' = IF r = OK THEN Recover(w, env, change, f)
                            ELSE Failed(w, env, change, f, starts)
    BY <2>1 DEF Handle
  <2>8. starts \in BOOLEAN /\ (starts => svc.downtime < MaxDepth)
    BY DEF Starts
  <2> HIDE DEF v, w, change
  <2>9. CASE r # OK
    BY <1>0, <2>2, <2>3, <2>4, <2>5, <2>6, <2>7, <2>8, <2>9, FirmFailed DEF Firm
  <2>10. CASE r = OK
    <3>1. Recover(w, env, change, f).current = OK
      BY <1>0, <2>2, <2>3, <2>6, <2>10, RecoverCurrent
    <3> QED
      BY <2>7, <2>10, <3>1
  <2> QED
    BY <2>9, <2>10
<1>2. CASE Next /\ ~Result
  <2>1. svc'.type = svc.type
    BY <1>0, <1>2, OtherActions
  <2> QED
    BY <2>1 DEF Confirmed
<1>3. CASE UNCHANGED vars
  BY <1>3 DEF vars, Confirmed
<1> QED
  BY <1>1, <1>2, <1>3

(* A problem confirmed by all its attempts stays hard until the service is OK, *)
(* whatever its host, its users and the engine do.                             *)
THEOREM ConfirmedProblemsStayHard ==
  Spec => ConfirmedStaysHard
<1>1. TypeOK /\ [Next]_vars => [Confirmed /\ svc'.current # OK => svc'.type = "HARD"]_vars
  BY StayStep
<1> QED
  BY <1>1, TypeCorrect, PTL DEF Spec, ConfirmedStaysHard

-----------------------------------------------------------------------------
(* The recovery that contacts are owed.                                        *)
(*                                                                           *)
(* RecoveryOwed is not inductive: a problem whose recovery is not pending       *)
(* (recovered) must become a hard recovery at its first OK result, which sets    *)
(* recovered to FALSE before the number can be reset.  So it has to be firm,    *)
(* with a last hard state that is not OK (Sure), as it was when contacts were   *)
(* told.                                                                       *)
Owed(v) ==
  v.told => /\ v.number > 0 /\ v.notified # {}
            /\ v.current = OK => ~v.recovered

Sure(v) ==
  v.told /\ v.current # OK /\ v.recovered => Firm(v) /\ v.lastHard # OK

OwedInv == TypeOK /\ env.duty /\ Owed(svc) /\ Sure(svc)

\* What of a service counts for Owed.
Dues(v) == <<v.current, v.told, v.number, v.notified, v.recovered>>

LEMMA SameDues ==
  ASSUME NEW v, NEW w, Dues(w) = Dues(v)
  PROVE  Owed(v) => Owed(w)
BY DEF Dues, Owed

LEMMA NormalOwed ==
  ASSUME NEW v \in Service, NEW e \in Environment, e.duty, Owed(v)
  PROVE  /\ Owed(NotifyNormal(v, e))
         /\ v.current # OK => NotifyNormal(v, e).recovered = v.recovered
<1> DEFINE c == Considered(v, e)
           d == Delivered(c)
<1>1. c \in Service /\ Dues(c) = Dues(v)
  BY ConsideredType, ConsideredShape DEF Dues, Shape, Account
<1> HIDE DEF c
<1>2. /\ d \in Service /\ d.current = c.current /\ d.number > 0
      /\ c.current # OK => d.notified # {}
      /\ d.recovered = c.recovered /\ d.told = (c.current # OK)
  BY <1>1, DeliveredType, DeliveredShape DEF Shape
<1> HIDE DEF d
<1>3. /\ Ended(d).current = d.current
      /\ <<Ended(d).told, Ended(d).number, Ended(d).notified>> =
         <<d.told, d.number, d.notified>>
      /\ d.current # OK => Ended(d).recovered = d.recovered
  BY <1>2, EndedShape DEF Shape, Account
<1>4. NotifyNormal(v, e) = c \/ NotifyNormal(v, e) = Ended(d)
  BY DEF NotifyNormal, c, d
<1>5. CASE NotifyNormal(v, e) = c
  BY <1>1, <1>5, SameDues DEF Dues
<1>6. CASE NotifyNormal(v, e) = Ended(d)
  <2>1. c.current = v.current /\ c.recovered = v.recovered
    BY <1>1 DEF Dues
  <2>2. CASE v.current = OK
    BY <1>2, <1>3, <1>6, <2>1, <2>2 DEF Owed
  <2>3. CASE v.current # OK
    BY <1>2, <1>3, <1>6, <2>1, <2>3 DEF Owed
  <2> QED
    BY <2>2, <2>3
<1> QED
  BY <1>4, <1>5, <1>6

LEMMA FlapOwed ==
  ASSUME ~NotifyFlapping,
         NEW v \in Service, NEW e \in Environment, e.duty, Owed(v), NEW f
  PROVE  /\ Owed(ClearFlap(v, e)) /\ Owed(Flap(v, e, f))
         /\ v.current # OK => Dues(ClearFlap(v, e)) = Dues(v)
         /\ v.current # OK => Dues(Flap(v, e, f)) = Dues(v)
<1>1. Dues(SetFlap(v, e)) = Dues(v)
  BY DEF SetFlap, NotifyOther, Service, Dues
<1>2. /\ Owed(ClearFlap(v, e))
      /\ v.current # OK => Dues(ClearFlap(v, e)) = Dues(v)
  <2> DEFINE n == [v EXCEPT !.flapping = FALSE]
             r == IF n.flapRecovery /\ n.current = OK THEN NotifyNormal(n, e) ELSE n
  <2>1. n \in Service /\ Dues(n) = Dues(v)
    BY DEF Service, Dues
  <2>2. NotifyOther(n, e, NotifyFlapping) = n
    BY DEF NotifyOther
  <2>3. ClearFlap(v, e) = [r EXCEPT !.flapRecovery = FALSE]
    BY <2>2 DEF ClearFlap
  <2> HIDE DEF n
  <2>4. Owed(n)
    BY <2>1, SameDues
  <2>5. r \in Service /\ Owed(r) /\ (n.current # OK => r = n)
    BY <2>1, <2>4, NormalType, NormalOwed
  <2> HIDE DEF r
  <2>6. Dues([r EXCEPT !.flapRecovery = FALSE]) = Dues(r)
    BY <2>5 DEF Service, Dues
  <2>7. v.current # OK => n.current # OK
    BY <2>1 DEF Dues
  <2> QED
    BY <2>1, <2>3, <2>5, <2>6, <2>7, SameDues
<1>3. Owed(SetFlap(v, e))
  BY <1>1, SameDues
<1> QED
  BY <1>1, <1>2, <1>3 DEF Flap

LEMMA ResetOwed ==
  ASSUME NEW v \in Service, v.current = OK, Owed(v)
  PROVE  Owed(Reset(v))
<1> DEFINE w == [v EXCEPT !.hostProblem = FALSE, !.attempt = 1, !.type = "HARD",
                          !.lastHard = OK, !.last = None, !.next = 0,
                          !.acked = FALSE, !.ackType = None, !.noMore = FALSE]
           x == [w EXCEPT !.number = 0, !.notified = {}, !.initial = None]
<1>1. Dues(w) = Dues(v)
  BY DEF Service, Dues
<1>2. x.told = w.told
  BY DEF Service
<1>3. Reset(v) = IF w.recovered THEN x ELSE w
  BY DEF Reset
<1> HIDE DEF w, x
<1>4. Owed(w) /\ w.current = OK /\ (w.recovered => ~w.told)
  BY <1>1, SameDues DEF Owed, Dues
<1> QED
  BY <1>2, <1>3, <1>4 DEF Owed

\* A recovery: a pending one stays pending, another one becomes pending before
\* the number is reset.
LEMMA RecoverOwed ==
  ASSUME ~NotifyFlapping,
         NEW v \in Service, NEW e \in Environment, e.duty,
         NEW change \in BOOLEAN, NEW f,
         v.current = OK,
         v.told => v.number > 0 /\ v.notified # {},
         v.told /\ v.recovered => HardChange(v)
  PROVE  Owed(Recover(v, e, change, f))
<1> DEFINE u == [v EXCEPT !.acked = FALSE, !.ackType = None]
           h == [u EXCEPT !.type = "HARD", !.recovered = FALSE, !.initial = None]
           s == [u EXCEPT !.type = "SOFT"]
           w == IF change THEN s ELSE u
           m == IF w.recovered THEN w ELSE NotifyNormal(w, e)
<1>1. u \in Service /\ Dues(u) = Dues(v)
  <2>1. u \in Service
    BY DEF Service
  <2>2. Dues(u) = Dues(v)
    BY DEF Service, Dues
  <2> QED
    BY <2>1, <2>2
<1> HIDE DEF u
<1>2. /\ h \in Service /\ h.current = OK /\ h.told = v.told /\ h.number = v.number
      /\ h.notified = v.notified /\ ~h.recovered
  <2>1. h \in Service
    BY <1>1 DEF Service
  <2>2. /\ h.current = u.current /\ h.told = u.told /\ h.number = u.number
        /\ h.notified = u.notified /\ ~h.recovered
    BY <1>1 DEF Service
  <2> QED
    BY <1>1, <2>1, <2>2 DEF Dues
<1>3. s \in Service /\ Dues(s) = Dues(u)
  <2>1. s \in Service
    BY <1>1 DEF Service
  <2>2. Dues(s) = Dues(u)
    BY <1>1 DEF Service, Dues
  <2> QED
    BY <2>1, <2>2
<1> HIDE DEF h, s
<1>4. w \in Service /\ Dues(w) = Dues(v)
  BY <1>1, <1>3
<1> HIDE DEF w
<1>5. Recover(v, e, change, f) =
        IF HardChange(v) THEN Reset(NotifyNormal(Flap(h, e, f), e))
        ELSE Flap(Reset(m), e, f)
  BY DEF Recover, u, h, s, w, m
<1>6. CASE HardChange(v)
  <2> DEFINE n == NotifyNormal(Flap(h, e, f), e)
  <2>1. Owed(h)
    BY <1>2 DEF Owed
  <2>2. Flap(h, e, f) \in Service /\ Owed(Flap(h, e, f)) /\ Flap(h, e, f).current = OK
    BY <1>2, <2>1, FlapType, FlapOwed, FlapShape DEF Shape
  <2>3. n \in Service /\ Owed(n) /\ n.current = OK
    BY <2>2, NormalType, NormalOwed, NormalShape DEF Shape
  <2> HIDE DEF n
  <2>4. Owed(Reset(n))
    BY <2>3, ResetOwed
  <2> QED
    BY <1>5, <1>6, <2>4 DEF n
<1>7. CASE ~HardChange(v)
  <2>1. w.current = OK /\ Owed(w)
    BY <1>4, <1>7 DEF Dues, Owed
  <2>2. m \in Service /\ m.current = OK /\ Owed(m)
    BY <1>4, <2>1, NormalType, NormalOwed, NormalShape DEF Shape
  <2> HIDE DEF m
  <2>3. Reset(m) \in Service /\ Owed(Reset(m))
    BY <2>2, ResetType, ResetOwed
  <2>4. Owed(Flap(Reset(m), e, f))
    BY <2>3, FlapOwed
  <2> QED
    BY <1>5, <1>7, <2>4
<1> QED
  BY <1>6, <1>7

\* A problem: if contacts are told now, it is firm.
LEMMA FailedOwed ==
  ASSUME ~NotifyFlapping, ~NotifyDowntime,
         NEW v \in Service, NEW e \in Environment, e.duty,
         NEW change \in BOOLEAN, NEW f, NEW starts \in BOOLEAN,
         starts => v.downtime < MaxDepth,
         v.current # OK, Owed(v),
         v.told /\ v.recovered => Firm(v)
  PROVE  LET n == Failed(v, e, change, f, starts)
         IN Owed(n) /\ Sure(n)
<1> DEFINE u == Routed(v, e)
           h == [u EXCEPT !.type = "HARD"]
           s == [u EXCEPT !.type = "SOFT"]
           d == IF starts /\ (change \/ HardChange(v)) THEN DowntimeStarted(h, e)
                ELSE h
           g == Flap(d, e, f)
           n == NotifyNormal(g, e)
           x == [n EXCEPT !.lastHard = v.current]
           y == IF e.up THEN s ELSE u
           z == Flap(y, e, f)
<1>0. Failed(v, e, change, f, starts) = IF u.attempt < u.max THEN z ELSE x
  BY DEF Failed
<1>1. /\ u \in Service /\ u.downtime = v.downtime /\ Dues(u) = Dues(v)
      /\ u.max = v.max
  <2>1. u \in Service /\ u.downtime = v.downtime
    BY RoutedType
  <2>2. Dues(u) = Dues(v) /\ u.max = v.max
    BY DEF Routed, Dues, Service
  <2> QED
    BY <2>1, <2>2
<1>2. Firm(v) => u.attempt = v.attempt
  BY DEF Firm, Routed, Service
<1> HIDE DEF u
<1>3. /\ h \in Service /\ h.downtime = v.downtime /\ Dues(h) = Dues(u)
      /\ h.type = "HARD" /\ h.attempt = u.attempt /\ h.max = u.max
      /\ s \in Service /\ Dues(s) = Dues(u)
  BY <1>1 DEF Service, Dues
<1> HIDE DEF h, s
<1>4. d \in Service /\ Dues(d) = Dues(h) /\ Shape(d) = Shape(h)
  <2>1. CASE d = h
    BY <1>3, <2>1
  <2>2. CASE d # h
    <3>1. d = DowntimeStarted(h, e) /\ h.downtime < MaxDepth
      BY <1>3, <2>2
    <3>2. DowntimeStarted(h, e) = [h EXCEPT !.downtime = @ + 1]
      BY DEF DowntimeStarted, NotifyOther
    <3>3. Dues([h EXCEPT !.downtime = @ + 1]) = Dues(h)
      BY <1>3 DEF Service, Dues
    <3> QED
      BY <1>3, <3>1, <3>2, <3>3, StartedType, StartedShape
  <2> QED
    BY <2>1, <2>2
<1>5. y \in Service /\ Dues(y) = Dues(v)
  BY <1>1, <1>3
<1> HIDE DEF d, y
<1>6. d.current # OK /\ Owed(d) /\ y.current # OK /\ Owed(y)
  BY <1>1, <1>3, <1>4, <1>5, SameDues DEF Dues
<1>7. CASE u.attempt < u.max
  <2>1. Dues(z) = Dues(v)
    BY <1>5, <1>6, FlapOwed
  <2>2. Owed(z)
    BY <2>1, SameDues
  <2>3. ~Firm(v)
    <3>1. v.attempt \in Nat /\ v.max \in Attempts
      BY DEF Service
    <3>2. \A m \in Attempts : m \in Nat
      BY AttemptsType
    <3>3. v.attempt \in Nat /\ v.max \in Nat
      BY <3>1, <3>2
    <3> QED
      BY <1>1, <1>2, <1>7, <3>3 DEF Firm
  <2>4. Sure(z)
    BY <2>1, <2>3 DEF Sure, Dues
  <2> QED
    BY <1>0, <1>7, <2>2, <2>4
<1>8. CASE ~(u.attempt < u.max)
  <2>1. g \in Service /\ Dues(g) = Dues(d) /\ Shape(g) = Shape(d)
    BY <1>4, <1>6, FlapType, FlapOwed, FlapShape
  <2> HIDE DEF g
  <2>2. Owed(g) /\ g.current # OK
    BY <1>6, <2>1, SameDues DEF Dues
  <2>3. n \in Service /\ Owed(n) /\ Shape(n) = Shape(g)
    BY <2>1, <2>2, NormalType, NormalOwed, NormalShape
  <2> HIDE DEF n
  <2>4. /\ Dues(x) = Dues(n) /\ x.lastHard = v.current
        /\ x.type = n.type /\ x.attempt = n.attempt /\ x.max = n.max
    BY <2>3 DEF Service, Dues
  <2> HIDE DEF x
  <2>5. x.type = "HARD" /\ x.attempt = u.attempt /\ x.max = u.max
    BY <1>3, <1>4, <2>1, <2>3, <2>4 DEF Shape
  <2>6. u.attempt >= u.max
    <3>1. u.attempt \in Nat /\ u.max \in Attempts
      BY <1>1 DEF Service
    <3>2. \A m \in Attempts : m \in Nat
      BY AttemptsType
    <3>3. u.attempt \in Nat /\ u.max \in Nat
      BY <3>1, <3>2
    <3> QED
      BY <1>8, <3>3
  <2>7. Sure(x)
    BY <2>4, <2>5, <2>6 DEF Sure, Firm
  <2>8. Owed(x)
    BY <2>3, <2>4, SameDues
  <2> QED
    BY <1>0, <1>8, <2>7, <2>8
<1> QED
  BY <1>7, <1>8

LEMMA HandleOwed ==
  ASSUME Undisturbed, OwedInv, NEW r \in States, NEW f, NEW starts \in Starts,
         Handle(r, f, starts)
  PROVE  Owed(svc') /\ Sure(svc')
<1> DEFINE change == r # svc.current
           v == Counted(svc, r)
           w == Changed(v, change)
<1>1. /\ svc \in Service /\ env \in Environment /\ env.duty
      /\ Owed(svc) /\ Sure(svc)
      /\ ~NotifyFlapping /\ ~NotifyDowntime
  BY DEF OwedInv, TypeOK, Undisturbed
<1>2. starts \in BOOLEAN /\ (starts => svc.downtime < MaxDepth) /\ change \in BOOLEAN
  BY DEF Starts
<1>3. svc' = IF r = OK THEN Recover(w, env, change, f)
                       ELSE Failed(w, env, change, f, starts)
  BY DEF Handle
<1>4. /\ v \in Service /\ v.current = r /\ v.told = svc.told
      /\ v.number = svc.number /\ v.notified = svc.notified
      /\ v.recovered = svc.recovered /\ v.downtime = svc.downtime
      /\ v.lastHard = svc.lastHard
  <2>1. v \in Service
    BY <1>1, CountedType
  <2>2. /\ v.current = r /\ v.told = svc.told
        /\ v.number = svc.number /\ v.notified = svc.notified
        /\ v.recovered = svc.recovered /\ v.downtime = svc.downtime
        /\ v.lastHard = svc.lastHard
    BY <1>1 DEF Counted, Service
  <2> QED
    BY <2>1, <2>2
<1>5. Firm(svc) => Firm(w)
  BY <1>1, FirmTaken
<1> HIDE DEF v
<1>6. /\ w \in Service /\ Dues(w) = Dues(v) /\ w.downtime = v.downtime
      /\ w.lastHard = v.lastHard
  <2>1. w \in Service
    BY <1>2, <1>4, ChangedType
  <2>2. Dues(w) = Dues(v) /\ w.downtime = v.downtime /\ w.lastHard = v.lastHard
    BY <1>4 DEF Changed, Service, Dues
  <2> QED
    BY <2>1, <2>2
<1> HIDE DEF w, change
<1>7. /\ w.current = r /\ w.told = svc.told /\ w.number = svc.number
      /\ w.notified = svc.notified /\ w.recovered = svc.recovered
      /\ w.downtime = svc.downtime /\ w.lastHard = svc.lastHard
  BY <1>4, <1>6 DEF Dues
<1>8. w.told => w.number > 0 /\ w.notified # {}
  BY <1>1, <1>7 DEF Owed
\* told of a problem, with no recovery pending: the problem is still there
<1>9. w.told /\ w.recovered => Firm(w) /\ w.lastHard # OK
  BY <1>1, <1>5, <1>7 DEF Owed, Sure
<1>10. CASE r = OK
  <2>1. w.told /\ w.recovered => HardChange(w)
    BY <1>7, <1>9, <1>10 DEF HardChange, Firm
  <2>2. Owed(Recover(w, env, change, f))
    BY <1>1, <1>2, <1>6, <1>7, <1>8, <1>10, <2>1, RecoverOwed
  <2>3. Recover(w, env, change, f).current = OK
    <3>1. Recover(w, env, change, f).current = w.current
      BY <1>1, <1>2, <1>6, RecoverCurrent
    <3> QED
      BY <1>7, <1>10, <3>1
  <2> QED
    BY <1>3, <1>10, <2>2, <2>3 DEF Sure
<1>11. CASE r # OK
  <2>1. Owed(w)
    BY <1>7, <1>8, <1>11 DEF Owed
  <2>2. change \in BOOLEAN
    BY DEF change
  <2>3. LET n == Failed(w, env, change, f, starts)
        IN Owed(n) /\ Sure(n)
    BY <1>1, <1>2, <1>6, <1>7, <1>9, <1>11, <2>1, <2>2, FailedOwed
  <2> QED
    BY <1>3, <1>11, <2>3
<1> QED
  BY <1>10, <1>11

LEMMA OwedStep ==
  ASSUME Undisturbed
  PROVE  OwedInv /\ [Next]_vars => OwedInv'
<1> SUFFICES ASSUME OwedInv, [Next]_vars
             PROVE  OwedInv'
  OBVIOUS
<1> DEFINE v == Unsent(svc)
           Rest(x) == <<Dues(x), Shape(x)>>
<1>0. /\ TypeOK /\ svc \in Service /\ env \in Environment /\ env.duty
      /\ Owed(svc) /\ Sure(svc) /\ v \in Service
      /\ ~NotifyFlapping /\ ~NotifyDowntime
  BY UnsentType DEF OwedInv, TypeOK, Undisturbed
<1>00. Rest(v) = Rest(svc) /\ v.downtime = svc.downtime
  BY <1>0 DEF Unsent, Service, Dues, Shape
<1>000. /\ ~On("attempts") /\ ~On("custom") /\ ~On("duty")
        /\ ~On("number") /\ ~On("restart")
  BY DEF Undisturbed, On
<1> HIDE DEF v
<1>type. TypeOK'
  BY <1>0, StepType
<1>same. ASSUME Rest(svc') = Rest(svc)
         PROVE  Owed(svc') /\ Sure(svc')
  BY <1>0, <1>same DEF Dues, Shape, Owed, Sure, Firm
<1>1. CASE Result
  <2>1. PICK r \in States, f \in Flaps, starts \in Starts : Handle(r, f, starts)
    BY <1>1 DEF Result
  <2>2. Owed(svc') /\ Sure(svc')
    BY <2>1, HandleOwed
  <2> QED
    BY <1>0, <1>type, <2>1, <2>2 DEF Handle, OwedInv
<1>2. CASE HostResult \/ SwitchNotifications \/ \E d \in 1 .. MaxClosed : PeriodCloses(d)
  <2>1. svc' = v /\ env'.duty
    BY <1>0, <1>2 DEF HostResult, SwitchNotifications, PeriodCloses, Environment, v
  <2> QED
    BY <1>00, <1>type, <1>same, <2>1 DEF OwedInv
<1>3. CASE \E type \in {"NORMAL", "STICKY"} : Acknowledge(type)
  <2>1. PICK type \in {"NORMAL", "STICKY"} : Acknowledge(type)
    BY <1>3
  <2> DEFINE w == [v EXCEPT !.acked = TRUE, !.ackType = type]
  <2>2. w \in Service /\ Rest(w) = Rest(v)
    BY <1>0, ZenonT(60) DEF Service, Dues, Shape
  <2>3. svc' = NotifyOther(w, env, TRUE) /\ env' = env /\ svc.current # OK
    BY <2>1 DEF Acknowledge, v
  <2> HIDE DEF w
  <2>4. w.current # OK
    BY <1>00, <2>2, <2>3 DEF Dues
  <2>5. Rest(Ended(w)) = Rest(w)
    BY <2>2, <2>4, EndedShape DEF Account, Dues, Shape
  <2>6. Rest(svc') = Rest(w)
    BY <2>3, <2>5 DEF NotifyOther
  <2> QED
    BY <1>0, <1>00, <1>type, <1>same, <2>2, <2>3, <2>6 DEF OwedInv
<1>4. CASE RemoveAcknowledgement \/ AcknowledgementExpires
  <2>1. /\ \/ svc' = [v EXCEPT !.acked = FALSE]
           \/ svc' = [v EXCEPT !.acked = FALSE, !.ackType = None]
        /\ env' = env
    BY <1>4 DEF RemoveAcknowledgement, AcknowledgementExpires, v
  <2>2. /\ Rest([v EXCEPT !.acked = FALSE]) = Rest(v)
        /\ Rest([v EXCEPT !.acked = FALSE, !.ackType = None]) = Rest(v)
    BY <1>0 DEF Service, Dues, Shape
  <2> QED
    BY <1>0, <1>00, <1>type, <1>same, <2>1, <2>2 DEF OwedInv
<1>5. CASE StartDowntime
  <2>1. svc' = [v EXCEPT !.downtime = @ + 1] /\ env' = env
    BY <1>0, <1>5 DEF StartDowntime, DowntimeStarted, NotifyOther, v
  <2>2. Rest([v EXCEPT !.downtime = @ + 1]) = Rest(v)
    BY <1>0 DEF Service, Dues, Shape
  <2> QED
    BY <1>0, <1>00, <1>type, <1>same, <2>1, <2>2 DEF OwedInv
<1>6. CASE EndDowntime
  <2>1. svc' = [v EXCEPT !.downtime = @ - 1] /\ env' = env
    BY <1>0, <1>6 DEF EndDowntime, NotifyOther, v
  <2>2. Rest([v EXCEPT !.downtime = @ - 1]) = Rest(v)
    BY <1>0 DEF Service, Dues, Shape
  <2> QED
    BY <1>0, <1>00, <1>type, <1>same, <2>1, <2>2 DEF OwedInv
<1>7. CASE DisableFlapDetection
  <2>1. svc' = ClearFlap(v, env) /\ env' = env
    BY <1>7 DEF DisableFlapDetection, v
  <2>2. Dues(v) = Dues(svc) /\ Shape(v) = Shape(svc)
    BY <1>00
  <2>3. Owed(v)
    BY <1>0, <2>2, SameDues
  <2>4. /\ Owed(svc') /\ Shape(svc') = Shape(v)
        /\ v.current # OK => Dues(svc') = Dues(v)
    BY <1>0, <2>1, <2>3, FlapOwed, FlapShape
  <2>5. CASE v.current # OK
    BY <1>0, <1>type, <1>same, <2>1, <2>2, <2>4, <2>5 DEF OwedInv
  <2>6. CASE v.current = OK
    <3>1. svc'.current = OK
      BY <2>4, <2>6 DEF Shape
    <3> QED
      BY <1>0, <1>type, <2>1, <2>4, <3>1 DEF OwedInv, Sure
  <2> QED
    BY <2>5, <2>6
<1>8. CASE \/ \E forced, increment \in BOOLEAN : CustomNotification(forced, increment)
           \/ \E n \in 0 .. MaxNumber : SetNumber(n)
           \/ \E m \in Attempts : ChangeMaxAttempts(m) \/ ReloadAttempts(m)
           \/ DutyChanges
           \/ \E flaps \in BOOLEAN : Restart(flaps)
  BY <1>000, <1>8 DEF CustomNotification, SetNumber, ChangeMaxAttempts,
                      ReloadAttempts, DutyChanges, Restart
<1>9. CASE Tick
  <2>1. Rest(svc') = Rest(v)
    BY <1>0, <1>9 DEF Tick, Service, Dues, Shape, v
  <2>2. env'.duty
    BY <1>0, <1>9 DEF Tick, Environment
  <2> QED
    BY <1>00, <1>type, <1>same, <2>1, <2>2 DEF OwedInv
<1>10. CASE UNCHANGED vars
  BY <1>0, <1>10, <1>same, <1>type DEF vars, OwedInv
<1> QED
  BY <1>1, <1>2, <1>3, <1>4, <1>5, <1>6, <1>7, <1>8, <1>9, <1>10 DEF Next

(* While nothing but problem and recovery notifications goes out and contacts  *)
(* are on duty, what contacts are owed is kept until they have it, for any      *)
(* options, delays and numbers of attempts, with acknowledgements, downtimes,   *)
(* flapping, periods, switches and a host that goes down and up in any order.   *)
THEOREM RecoveryKept ==
  ASSUME Undisturbed
  PROVE  Spec => []RecoveryOwed
<1>1. Init => OwedInv
  <2>1. ASSUME Init
        PROVE  OwedInv
    <3>1. TypeOK
      BY <2>1, InitType
    <3>2. env.duty /\ ~svc.told
      BY <2>1 DEF Init, Created
    <3> QED
      BY <3>1, <3>2 DEF OwedInv, Owed, Sure
  <2> QED
    BY <2>1
<1>2. OwedInv /\ [Next]_vars => OwedInv'
  BY OwedStep
<1>3. OwedInv => RecoveryOwed
  BY DEF OwedInv, Owed, RecoveryOwed
<1> QED
  BY <1>1, <1>2, <1>3, PTL DEF Spec

-----------------------------------------------------------------------------
(* What is noted of the problem besides its shape: when it was notified, what  *)
(* contacts know, what the last step sent.                                     *)
Pace(v) == <<v.last, v.next, v.noMore, v.deferred>>
History(v) == <<v.sent, v.streak, v.told, v.notified>>
Ledger(v) == <<Shape(v), Pace(v), History(v)>>

LEMMA EndedLedger ==
  ASSUME NEW v \in Service
  PROVE  /\ Ledger(Ended(v)) = Ledger(v)
         /\ Ended(v).flapping = v.flapping
         /\ v.current = OK => Ended(v).recovered
BY DEF Ended, Service, Ledger, Shape, Pace, History

LEMMA OtherLedger ==
  ASSUME NEW v \in Service, NEW e, NEW allowed
  PROVE  /\ Ledger(NotifyOther(v, e, allowed)) = Ledger(v)
         /\ NotifyOther(v, e, allowed).flapping = v.flapping
BY EndedLedger DEF NotifyOther

LEMMA StartedLedger ==
  ASSUME NEW v \in Service, NEW e \in Environment
  PROVE  /\ Ledger(DowntimeStarted(v, e)) = Ledger(v)
         /\ DowntimeStarted(v, e).flapping = v.flapping
<1> DEFINE n == NotifyOther(v, e, NotifyDowntime)
<1>1. n \in Service /\ Ledger(n) = Ledger(v) /\ n.flapping = v.flapping
  BY OtherType, OtherLedger
<1> HIDE DEF n
<1>2. /\ Ledger([n EXCEPT !.downtime = @ + 1]) = Ledger(n)
      /\ [n EXCEPT !.downtime = @ + 1].flapping = n.flapping
  BY <1>1 DEF Service, Ledger, Shape, Pace, History
<1> QED
  BY <1>1, <1>2 DEF DowntimeStarted, n

\* What a delivered notification leaves.
LEMMA DeliveredLedger ==
  ASSUME NEW v \in Service
  PROVE  LET d == Delivered(v) IN
         /\ d.streak = v.streak /\ d.flapping = v.flapping
         /\ d.last = 0 /\ d.next = Interval /\ ~d.deferred
         /\ d.noMore = (Interval = 0 /\ ~Volatile)
         /\ v.current # OK => d.told /\ d.sent = v.sent \cup {"PROBLEM"}
         /\ v.current = OK =>
              d.sent = v.sent \cup {IF v.told THEN "RECOVERY" ELSE "UNTOLD"}
<1> DEFINE n == Cap(v.number + 1, MaxNumber)
           more == Interval = 0 /\ ~Volatile
           known == v.notified \cup ({v.current} \cap Problems)
           x == [v EXCEPT !.number = n, !.next = Interval, !.last = 0, !.deferred = FALSE]
           w == [x EXCEPT !.noMore = more, !.notified = known]
           p == [w EXCEPT !.told = TRUE, !.sent = @ \cup {"PROBLEM"}]
           k == IF w.told THEN "RECOVERY" ELSE "UNTOLD"
           q == [w EXCEPT !.told = FALSE, !.sent = @ \cup {k}]
<1>1. Delivered(v) = IF w.current # OK THEN p ELSE q
  BY DEF Delivered, Announced, Service
<1> HIDE DEF n, more, known
<1>2. /\ w.streak = v.streak /\ w.flapping = v.flapping /\ w.current = v.current
      /\ w.last = 0 /\ w.next = Interval /\ w.deferred = FALSE
      /\ w.sent = v.sent /\ w.told = v.told
      /\ w.noMore = more
  BY DEF Service
<1>3. /\ p.streak = v.streak /\ p.flapping = v.flapping
      /\ p.last = 0 /\ p.next = Interval /\ p.deferred = FALSE
      /\ p.noMore = more /\ p.told = TRUE /\ p.sent = v.sent \cup {"PROBLEM"}
  BY DEF Service
<1>4. /\ q.streak = v.streak /\ q.flapping = v.flapping
      /\ q.last = 0 /\ q.next = Interval /\ q.deferred = FALSE
      /\ q.noMore = more /\ q.sent = v.sent \cup {k}
  BY DEF Service
<1>5. k = IF v.told THEN "RECOVERY" ELSE "UNTOLD"
  BY <1>2
<1> HIDE DEF x, w, p, q, k
<1> QED
  BY <1>1, <1>2, <1>3, <1>4, <1>5 DEF more

LEMMA ConsideredLedger ==
  ASSUME NEW v \in Service, NEW e \in Environment
  PROVE  LET c == Considered(v, e) IN
         /\ Shape(c) = Shape(v) /\ History(c) = History(v)
         /\ c.flapping = v.flapping /\ c.last = v.last /\ c.noMore = v.noMore
         /\ c.deferred = (Interval > 0) \/ (c.next = v.next /\ c.deferred = v.deferred)
         /\ Viable(c, e) => c.next = v.next /\ c.deferred = v.deferred
<1> DEFINE c == Considered(v, e)
<1>1. CASE e.closed > 0
  <2>1. c = [v EXCEPT !.next = e.closed, !.deferred = Interval > 0]
    BY <1>1 DEF Considered
  <2>2. ~Viable(c, e)
    <3>1. e.closed # 0
      BY <1>1 DEF Environment
    <3> QED
      BY <3>1 DEF Viable, PassesFilters
  <2>3. /\ Shape(c) = Shape(v) /\ History(c) = History(v)
        /\ c.flapping = v.flapping /\ c.last = v.last /\ c.noMore = v.noMore
        /\ c.deferred = (Interval > 0)
    BY <2>1 DEF Service, Shape, History
  <2> QED
    BY <2>2, <2>3
<1>2. CASE ~(e.closed > 0)
  <2>1. c = v \/ c = [v EXCEPT !.initial = 0]
    BY <1>2 DEF Considered
  <2>2. Ledger([v EXCEPT !.initial = 0]) = Ledger(v)
        /\ [v EXCEPT !.initial = 0].flapping = v.flapping
    BY DEF Service, Ledger, Shape, Pace, History
  <2>3. Ledger(c) = Ledger(v) /\ c.flapping = v.flapping
    BY <2>1, <2>2
  <2> HIDE DEF c
  <2> QED
    BY <2>3 DEF Ledger, Pace, c
<1> QED
  BY <1>1, <1>2

\* A problem notification that does not go out, and one that does.
Withheld(v, n) ==
  /\ n.sent = v.sent /\ n.told = v.told /\ n.notified = v.notified
  /\ n.last = v.last /\ n.noMore = v.noMore
  /\ n.deferred = (Interval > 0) \/ (n.next = v.next /\ n.deferred = v.deferred)

Notified(v, n) ==
  /\ n.sent = v.sent \cup {"PROBLEM"} /\ n.told
  /\ n.last = 0 /\ n.next = Interval /\ n.noMore = (Interval = 0 /\ ~Volatile)
  /\ ~v.noMore /\ (v.next = 0 \/ Volatile)

LEMMA NormalProblem ==
  ASSUME NEW v \in Service, NEW e \in Environment, v.current # OK
  PROVE  LET n == NotifyNormal(v, e) IN
         /\ n.streak = v.streak /\ n.flapping = v.flapping
         /\ Withheld(v, n) \/ Notified(v, n)
<1> DEFINE c == Considered(v, e)
           d == Delivered(c)
<1>1. /\ c \in Service
      /\ Shape(c) = Shape(v) /\ History(c) = History(v)
      /\ c.flapping = v.flapping /\ c.last = v.last /\ c.noMore = v.noMore
      /\ c.deferred = (Interval > 0) \/ (c.next = v.next /\ c.deferred = v.deferred)
      /\ Viable(c, e) => c.next = v.next /\ c.deferred = v.deferred
  BY ConsideredType, ConsideredLedger
<1>2. NotifyNormal(v, e) = IF ~Viable(c, e) THEN c
                           ELSE Ended(IF e.duty THEN d ELSE c)
  BY DEF NotifyNormal
<1> HIDE DEF c
<1>3. c.current # OK /\ c.streak = v.streak /\ Withheld(v, c)
  BY <1>1 DEF Shape, History, Withheld
<1>4. /\ d \in Service /\ d.streak = c.streak /\ d.flapping = c.flapping
      /\ d.last = 0 /\ d.next = Interval /\ d.noMore = (Interval = 0 /\ ~Volatile)
      /\ d.told /\ d.sent = c.sent \cup {"PROBLEM"}
  BY <1>1, <1>3, DeliveredType, DeliveredLedger
<1> HIDE DEF d
<1>5. Viable(c, e) => ~c.noMore /\ (c.next = 0 \/ Volatile)
  BY <1>3 DEF Viable
<1>6. CASE ~Viable(c, e)
  BY <1>1, <1>2, <1>3, <1>6
<1>7. CASE Viable(c, e) /\ e.duty
  <2>1. NotifyNormal(v, e) = Ended(d)
    BY <1>2, <1>7
  <2>2. Ledger(Ended(d)) = Ledger(d) /\ Ended(d).flapping = d.flapping
    BY <1>4, EndedLedger
  <2>3. Ended(d).streak = v.streak /\ Ended(d).flapping = v.flapping
    BY <1>1, <1>3, <1>4, <2>2 DEF Ledger, History
  <2>4. /\ Ended(d).sent = d.sent /\ Ended(d).told = d.told
        /\ Ended(d).last = d.last /\ Ended(d).next = d.next
        /\ Ended(d).noMore = d.noMore
    BY <2>2 DEF Ledger, Pace, History
  <2>5. c.sent = v.sent
    BY <1>3 DEF Withheld
  <2>6. ~v.noMore /\ (v.next = 0 \/ Volatile)
    BY <1>1, <1>5, <1>7
  <2> QED
    BY <1>4, <2>1, <2>3, <2>4, <2>5, <2>6 DEF Notified
<1>8. CASE Viable(c, e) /\ ~e.duty
  <2>1. NotifyNormal(v, e) = Ended(c)
    BY <1>2, <1>8
  <2>2. Ledger(Ended(c)) = Ledger(c) /\ Ended(c).flapping = c.flapping
    BY <1>1, EndedLedger
  <2> QED
    BY <1>1, <1>3, <2>1, <2>2 DEF Ledger, Pace, History, Withheld
<1> QED
  BY <1>6, <1>7, <1>8

\* A recovery notification: what the last step sent, and what contacts knew.
LEMMA NormalFine ==
  ASSUME NEW v \in Service, NEW e \in Environment, v.current = OK
  PROVE  LET n == NotifyNormal(v, e) IN
         /\ n.flapping = v.flapping
         /\ n.sent \subseteq v.sent \cup {"RECOVERY", "UNTOLD"}
         /\ (v.notified # {} => v.told) => n.sent \subseteq v.sent \cup {"RECOVERY"}
         /\ \/ n.recovered
            \/ n.told = v.told /\ n.notified = v.notified
<1> DEFINE c == Considered(v, e)
           d == Delivered(c)
           k == IF c.told THEN "RECOVERY" ELSE "UNTOLD"
<1>1. /\ c \in Service
      /\ Shape(c) = Shape(v) /\ History(c) = History(v)
      /\ c.flapping = v.flapping
  BY ConsideredType, ConsideredLedger
<1>2. NotifyNormal(v, e) = IF ~Viable(c, e) THEN c
                           ELSE Ended(IF e.duty THEN d ELSE c)
  BY DEF NotifyNormal
<1> HIDE DEF c
<1>3. /\ c.current = OK /\ c.sent = v.sent /\ c.told = v.told
      /\ c.notified = v.notified
  BY <1>1 DEF Shape, History
<1>4. /\ d \in Service /\ d.flapping = c.flapping
      /\ d.sent = c.sent \cup {k} /\ d.current = OK
  BY <1>1, <1>3, DeliveredType, DeliveredLedger, DeliveredShape DEF Shape
<1> HIDE DEF d
<1>5. Viable(c, e) => c.notified # {}
  BY <1>3 DEF Viable, PassesFilters
<1>6. CASE ~Viable(c, e)
  BY <1>1, <1>2, <1>3, <1>6
<1>7. CASE Viable(c, e)
  <2> DEFINE g == IF e.duty THEN d ELSE c
  <2>1. /\ g \in Service /\ g.current = OK /\ g.flapping = v.flapping
        /\ g.sent \subseteq v.sent \cup {"RECOVERY", "UNTOLD"}
        /\ c.told => g.sent \subseteq v.sent \cup {"RECOVERY"}
    BY <1>1, <1>3, <1>4
  <2> HIDE DEF g
  <2>2. /\ Ledger(Ended(g)) = Ledger(g) /\ Ended(g).flapping = g.flapping
        /\ Ended(g).recovered
    BY <2>1, EndedLedger
  <2>3. Ended(g).sent = g.sent
    BY <2>2 DEF Ledger, History
  <2>4. NotifyNormal(v, e) = Ended(g)
    BY <1>2, <1>7 DEF g
  <2> QED
    BY <1>3, <1>5, <1>7, <2>1, <2>2, <2>3, <2>4
<1> QED
  BY <1>6, <1>7

LEMMA FlapLedger ==
  ASSUME NEW v \in Service, NEW e \in Environment, NEW f
  PROVE  /\ v.current # OK => /\ Ledger(ClearFlap(v, e)) = Ledger(v)
                              /\ Ledger(Flap(v, e, f)) = Ledger(v)
         /\ "PROBLEM" \notin v.sent => /\ "PROBLEM" \notin ClearFlap(v, e).sent
                                       /\ "PROBLEM" \notin Flap(v, e, f).sent
<1>1. Ledger(SetFlap(v, e)) = Ledger(v)
  <2> DEFINE w == [v EXCEPT !.flapping = TRUE,
                            !.flapRecovery = v.current # OK /\ v.number > 0]
  <2>1. w \in Service /\ Ledger(w) = Ledger(v)
    BY ZenonT(60) DEF Service, Ledger, Shape, Pace, History
  <2> HIDE DEF w
  <2> QED
    BY <2>1, OtherLedger DEF SetFlap, w
<1>2. /\ v.current # OK => Ledger(ClearFlap(v, e)) = Ledger(v)
      /\ "PROBLEM" \notin v.sent => "PROBLEM" \notin ClearFlap(v, e).sent
  <2> DEFINE n == NotifyOther([v EXCEPT !.flapping = FALSE], e, NotifyFlapping)
             r == IF n.flapRecovery /\ n.current = OK THEN NotifyNormal(n, e) ELSE n
  <2>1. /\ [v EXCEPT !.flapping = FALSE] \in Service
        /\ Ledger([v EXCEPT !.flapping = FALSE]) = Ledger(v)
    BY DEF Service, Ledger, Shape, Pace, History
  <2>2. n \in Service /\ Ledger(n) = Ledger(v)
    BY <2>1, OtherType, OtherLedger
  <2> HIDE DEF n
  <2>3. n.current = v.current /\ n.sent = v.sent
    BY <2>2 DEF Ledger, Shape, History
  <2>4. /\ r \in Service
        /\ v.current # OK => r = n
        /\ "PROBLEM" \notin v.sent => "PROBLEM" \notin r.sent
    BY <2>2, <2>3, NormalType, NormalFine
  <2> HIDE DEF r
  <2>5. ClearFlap(v, e) = [r EXCEPT !.flapRecovery = FALSE]
    BY DEF ClearFlap, r, n
  <2>6. /\ Ledger([r EXCEPT !.flapRecovery = FALSE]) = Ledger(r)
        /\ [r EXCEPT !.flapRecovery = FALSE].sent = r.sent
    BY <2>4 DEF Service, Ledger, Shape, Pace, History
  <2> QED
    BY <2>2, <2>4, <2>5, <2>6
<1>3. SetFlap(v, e).sent = v.sent
  BY <1>1 DEF Ledger, History
<1> QED
  BY <1>1, <1>2, <1>3 DEF Flap

LEMMA RoutedLedger ==
  ASSUME NEW v \in Service, NEW e \in Environment
  PROVE  LET u == Routed(v, e) IN
         /\ Pace(u) = Pace(v) /\ History(u) = History(v)
         /\ u.flapping = v.flapping /\ u.current = v.current /\ u.max = v.max
         /\ u.attempt \in {v.attempt, 1} /\ u.lastHard \in {v.lastHard, v.current}
BY DEF Routed, Service, Pace, History

\* A problem result: notified at the last attempt, and then the problem is hard.
LEMMA FailedLedger ==
  ASSUME NEW v \in Service, NEW e \in Environment, v.current # OK,
         NEW change \in BOOLEAN, NEW f, NEW starts \in BOOLEAN,
         starts => v.downtime < MaxDepth
  PROVE  LET n == Failed(v, e, change, f, starts) IN
         /\ n.current = v.current /\ n.max = v.max /\ n.streak = v.streak
         /\ n.attempt \in {v.attempt, 1}
         /\ f = "keep" => n.flapping = v.flapping
         /\ \/ Withheld(v, n) /\ n.lastHard \in {v.lastHard, v.current}
            \/ Notified(v, n) /\ n.lastHard = v.current /\ n.attempt >= n.max
<1> DEFINE u == Routed(v, e)
           s == [u EXCEPT !.type = "SOFT"]
           y == IF e.up THEN s ELSE u
           z == Flap(y, e, f)
           h == [u EXCEPT !.type = "HARD"]
           d == IF starts /\ (change \/ HardChange(v)) THEN DowntimeStarted(h, e)
                ELSE h
           g == Flap(d, e, f)
           n == NotifyNormal(g, e)
           x == [n EXCEPT !.lastHard = v.current]
           Kept(w) == /\ Pace(w) = Pace(v) /\ History(w) = History(v)
                      /\ w.current = v.current /\ w.max = v.max
                      /\ w.attempt = u.attempt /\ w.lastHard = u.lastHard
<1>0. Failed(v, e, change, f, starts) = IF u.attempt < u.max THEN z ELSE x
  BY DEF Failed
<1>1. /\ u \in Service /\ u.downtime = v.downtime
      /\ Kept(u) /\ u.flapping = v.flapping
      /\ u.attempt \in {v.attempt, 1} /\ u.lastHard \in {v.lastHard, v.current}
  BY RoutedType, RoutedLedger
<1>2. u.attempt \in Nat /\ u.max \in Nat
  <2>1. u.attempt \in Nat /\ u.max \in Attempts
    BY <1>1 DEF Service
  <2> QED
    BY <2>1, AttemptsType
<1> HIDE DEF u
<1>3. /\ s \in Service /\ h \in Service /\ h.downtime = v.downtime
      /\ Kept(s) /\ s.flapping = v.flapping
      /\ Kept(h) /\ h.flapping = v.flapping
  BY <1>1 DEF Service, Pace, History
<1> HIDE DEF s, h
<1>4. y \in Service /\ Kept(y) /\ y.flapping = v.flapping
  BY <1>1, <1>3
<1>5. d \in Service /\ Kept(d) /\ d.flapping = v.flapping
  <2>1. CASE d = h
    BY <1>3, <2>1
  <2>2. CASE d # h
    <3>1. d = DowntimeStarted(h, e) /\ h.downtime < MaxDepth
      BY <1>3, <2>2
    <3>2. d \in Service /\ Ledger(d) = Ledger(h) /\ d.flapping = h.flapping
      BY <1>3, <3>1, StartedType, StartedLedger
    <3> QED
      BY <1>3, <3>2 DEF Ledger, Shape
  <2> QED
    BY <2>1, <2>2
<1> HIDE DEF y, d
<1>6. z \in Service /\ Kept(z) /\ (f = "keep" => z.flapping = v.flapping)
  <2>1. z \in Service /\ Ledger(z) = Ledger(y)
    BY <1>4, FlapType, FlapLedger
  <2>2. f = "keep" => z = y
    BY DEF Flap
  <2> QED
    BY <1>4, <2>1, <2>2 DEF Ledger, Shape
<1>7. g \in Service /\ Kept(g) /\ (f = "keep" => g.flapping = v.flapping)
  <2>1. g \in Service /\ Ledger(g) = Ledger(d)
    BY <1>5, FlapType, FlapLedger
  <2>2. f = "keep" => g = d
    BY DEF Flap
  <2> QED
    BY <1>5, <2>1, <2>2 DEF Ledger, Shape
<1> HIDE DEF z, g
<1>8. CASE u.attempt < u.max
  <2>1. Withheld(v, z)
    BY <1>6 DEF Withheld, Pace, History
  <2> QED
    BY <1>0, <1>1, <1>6, <1>8, <2>1 DEF History
<1>9. CASE ~(u.attempt < u.max)
  <2>1. /\ n \in Service /\ Shape(n) = Shape(g)
        /\ n.streak = g.streak /\ n.flapping = g.flapping
        /\ Withheld(g, n) \/ Notified(g, n)
    BY <1>7, NormalType, NormalShape, NormalProblem
  <2> HIDE DEF n
  <2>2. /\ x.current = n.current /\ x.max = n.max /\ x.attempt = n.attempt
        /\ x.streak = n.streak /\ x.flapping = n.flapping
        /\ x.lastHard = v.current /\ Pace(x) = Pace(n) /\ History(x) = History(n)
    BY <2>1 DEF Service, Pace, History
  <2> HIDE DEF x
  <2>3. /\ n.current = v.current /\ n.max = u.max /\ n.attempt = u.attempt
    BY <1>1, <1>7, <2>1 DEF Shape
  <2>4. n.streak = v.streak
    BY <1>7, <2>1 DEF History
  <2>5. Withheld(v, x) \/ Notified(v, x)
    BY <1>7, <2>1, <2>2 DEF Withheld, Notified, Pace, History
  <2>6. x.attempt >= x.max
    BY <1>2, <1>9, <2>2, <2>3
  <2> QED
    BY <1>0, <1>1, <1>7, <1>9, <2>1, <2>2, <2>3, <2>4, <2>5, <2>6
<1> QED
  BY <1>8, <1>9

LEMMA ResetLedger ==
  ASSUME NEW v \in Service
  PROVE  LET n == Reset(v) IN
         /\ n.current = v.current /\ n.attempt = 1 /\ n.type = "HARD"
         /\ n.sent = v.sent /\ n.told = v.told /\ n.flapping = v.flapping
         /\ IF v.recovered THEN n.notified = {} ELSE n.notified = v.notified
<1> DEFINE w == [v EXCEPT !.hostProblem = FALSE, !.attempt = 1, !.type = "HARD",
                          !.lastHard = OK, !.last = None, !.next = 0,
                          !.acked = FALSE, !.ackType = None, !.noMore = FALSE]
           x == [w EXCEPT !.number = 0, !.notified = {}, !.initial = None]
           Base(s) == /\ s.current = v.current /\ s.attempt = 1 /\ s.type = "HARD"
                      /\ s.sent = v.sent /\ s.told = v.told /\ s.flapping = v.flapping
<1>1. Base(w) /\ w.recovered = v.recovered /\ w.notified = v.notified
  BY DEF Service
<1>2. Base(x) /\ x.notified = {}
  BY DEF Service
<1>3. Reset(v) = IF w.recovered THEN x ELSE w
  BY DEF Reset
<1> HIDE DEF w, x
<1> QED
  BY <1>1, <1>2, <1>3

\* An OK result: nothing is said of a problem, and the attempts start over.
LEMMA RecoverLedger ==
  ASSUME NEW v \in Service, NEW e \in Environment, v.current = OK,
         NEW change \in BOOLEAN, NEW f, "PROBLEM" \notin v.sent
  PROVE  LET n == Recover(v, e, change, f) IN
         /\ n.current = OK /\ n.attempt = 1 /\ n.type = "HARD"
         /\ "PROBLEM" \notin n.sent
<1> DEFINE u == [v EXCEPT !.acked = FALSE, !.ackType = None]
           h == [u EXCEPT !.type = "HARD", !.recovered = FALSE, !.initial = None]
           s == [u EXCEPT !.type = "SOFT"]
           w == IF change THEN s ELSE u
           m == IF w.recovered THEN w ELSE NotifyNormal(w, e)
           Fine(x) == x \in Service /\ x.current = OK /\ "PROBLEM" \notin x.sent
           Over(x) == Fine(x) /\ x.attempt = 1 /\ x.type = "HARD"
<1>1. Fine(u)
  BY DEF Service
<1> HIDE DEF u
<1>2. Fine(h) /\ Fine(s)
  <2>1. h \in Service /\ s \in Service
    <3>1. h \in Service
      BY <1>1 DEF Service
    <3>2. s \in Service
      BY <1>1 DEF Service
    <3> QED
      BY <3>1, <3>2
  <2>2. /\ h.current = u.current /\ h.sent = u.sent
        /\ s.current = u.current /\ s.sent = u.sent
    BY <1>1 DEF Service
  <2> QED
    BY <1>1, <2>1, <2>2
<1> HIDE DEF h, s
<1>3. Fine(w)
  BY <1>1, <1>2
<1> HIDE DEF w
<1>4. ASSUME NEW x, Fine(x)
      PROVE  Fine(NotifyNormal(x, e)) /\ Fine(Flap(x, e, f)) /\ Over(Reset(x))
  <2>1. NotifyNormal(x, e) \in Service /\ Flap(x, e, f) \in Service /\ Reset(x) \in Service
    BY <1>4, NormalType, FlapType, ResetType
  <2>2. Shape(NotifyNormal(x, e)) = Shape(x) /\ Shape(Flap(x, e, f)) = Shape(x)
    BY <1>4, NormalShape, FlapShape
  <2>3. "PROBLEM" \notin NotifyNormal(x, e).sent
    <3>1. NotifyNormal(x, e).sent \subseteq x.sent \cup {"RECOVERY", "UNTOLD"}
      BY <1>4, NormalFine
    <3> QED
      BY <1>4, <3>1
  <2>4. "PROBLEM" \notin Flap(x, e, f).sent
    BY <1>4, FlapLedger
  <2> QED
    BY <1>4, <2>1, <2>2, <2>3, <2>4, ResetLedger DEF Shape
<1>5. Over(Reset(NotifyNormal(Flap(h, e, f), e)))
  BY <1>2, <1>4
<1>6. Fine(m)
  BY <1>3, <1>4
<1> HIDE DEF m
<1>7. Over(Flap(Reset(m), e, f))
  <2>1. Over(Reset(m))
    BY <1>4, <1>6
  <2>2. Fine(Flap(Reset(m), e, f)) /\ Shape(Flap(Reset(m), e, f)) = Shape(Reset(m))
    BY <1>4, <2>1, FlapShape
  <2> QED
    BY <2>1, <2>2 DEF Shape
<1>8. Recover(v, e, change, f) =
        IF HardChange(v) THEN Reset(NotifyNormal(Flap(h, e, f), e))
        ELSE Flap(Reset(m), e, f)
  BY DEF Recover, u, h, s, w, m
<1> QED
  BY <1>5, <1>7, <1>8

\* Contacts told of every problem noted are never told of another recovery.
Informed(v) == ~v.flapping /\ (v.notified # {} => v.told) /\ "UNTOLD" \notin v.sent

LEMMA RecoverInformed ==
  ASSUME NEW v \in Service, NEW e \in Environment, v.current = OK,
         NEW change \in BOOLEAN, Informed(v)
  PROVE  Informed(Recover(v, e, change, "keep"))
<1> DEFINE u == [v EXCEPT !.acked = FALSE, !.ackType = None]
           h == [u EXCEPT !.type = "HARD", !.recovered = FALSE, !.initial = None]
           s == [u EXCEPT !.type = "SOFT"]
           w == IF change THEN s ELSE u
           m == IF w.recovered THEN w ELSE NotifyNormal(w, e)
<1>1. u \in Service /\ u.current = OK /\ Informed(u)
  BY DEF Service, Informed
<1> HIDE DEF u
<1>2. /\ h \in Service /\ h.current = OK /\ Informed(h)
      /\ s \in Service /\ s.current = OK /\ Informed(s)
  <2>1. h \in Service /\ s \in Service
    <3>1. h \in Service
      BY <1>1 DEF Service
    <3>2. s \in Service
      BY <1>1 DEF Service
    <3> QED
      BY <3>1, <3>2
  <2>2. /\ h.current = u.current /\ h.sent = u.sent /\ h.told = u.told
        /\ h.notified = u.notified /\ h.flapping = u.flapping
        /\ s.current = u.current /\ s.sent = u.sent /\ s.told = u.told
        /\ s.notified = u.notified /\ s.flapping = u.flapping
    BY <1>1 DEF Service
  <2> QED
    BY <1>1, <2>1, <2>2 DEF Informed
<1> HIDE DEF h, s
<1>3. w \in Service /\ w.current = OK /\ Informed(w)
  BY <1>1, <1>2
<1> HIDE DEF w
<1>4. ASSUME NEW x \in Service, x.current = OK, Informed(x)
      PROVE  /\ Informed(Reset(x))
             /\ Informed(Reset(NotifyNormal(x, e)))
  <2>1. Informed(Reset(x))
    BY <1>4, ResetLedger DEF Informed
  <2> DEFINE n == NotifyNormal(x, e)
  <2>2. n \in Service
    BY NormalType
  <2>3. /\ ~n.flapping /\ n.sent \subseteq x.sent \cup {"RECOVERY"}
        /\ n.recovered \/ (n.told = x.told /\ n.notified = x.notified)
    BY <1>4, NormalFine DEF Informed
  <2> HIDE DEF n
  <2>4. "UNTOLD" \notin n.sent
    BY <1>4, <2>3 DEF Informed
  <2>5. Informed(Reset(n))
    BY <1>4, <2>2, <2>3, <2>4, ResetLedger DEF Informed
  <2> QED
    BY <2>1, <2>5 DEF n
<1>5. Recover(v, e, change, "keep") =
        IF HardChange(v) THEN Reset(NotifyNormal(h, e)) ELSE Reset(m)
  BY DEF Recover, Flap, u, h, s, w, m
<1>6. Informed(Reset(NotifyNormal(h, e)))
  BY <1>2, <1>4
<1>7. Informed(Reset(m))
  BY <1>3, <1>4
<1> QED
  BY <1>5, <1>6, <1>7

-----------------------------------------------------------------------------
(* What happens between two results.                                           *)
Passed(v, w) ==
  /\ w.last = (IF v.last = None THEN None ELSE Cap(v.last + 1, Interval))
  /\ w.next = (IF v.next = 0 THEN 0 ELSE v.next - 1)
  /\ w.noMore = v.noMore /\ w.deferred = v.deferred

Resumed(v, w) ==
  LET again == v.current # OK /\ v.last # None
  IN /\ w.last = v.last /\ w.next = (IF again THEN Interval - v.last ELSE 0)
     /\ w.noMore = (again /\ Interval = 0 /\ ~Volatile)

LEMMA BetweenResults ==
  ASSUME TypeOK, Next, ~Result
  PROVE  /\ svc'.current # OK =>
              /\ svc'.streak = svc.streak
              /\ \/ Pace(svc') = Pace(svc)
                 \/ Passed(svc, svc')
                 \/ Resumed(svc, svc')
         /\ "PROBLEM" \notin svc'.sent
         /\ Features \cap {"attempts", "restart"} = {} => Shape(svc') = Shape(svc)
         /\ Informed(svc) => Informed(svc')
<1> DEFINE v == Unsent(svc)
           Kept(w) == Ledger(w) = Ledger(v) /\ w.flapping = v.flapping
<1>0. svc \in Service /\ env \in Environment /\ v \in Service
  BY UnsentType DEF TypeOK
<1>00. /\ Shape(v) = Shape(svc) /\ Pace(v) = Pace(svc) /\ v.downtime = svc.downtime
       /\ v.sent = {} /\ v.streak = svc.streak /\ v.told = svc.told
       /\ v.notified = svc.notified /\ v.flapping = svc.flapping
  BY <1>0 DEF Unsent, Service, Shape, Pace
<1> HIDE DEF v
<1>kept. ASSUME Kept(svc')
         PROVE  /\ svc'.streak = svc.streak /\ Pace(svc') = Pace(svc)
                /\ "PROBLEM" \notin svc'.sent /\ Shape(svc') = Shape(svc)
                /\ Informed(svc) => Informed(svc')
  BY <1>00, <1>kept DEF Ledger, History, Informed
<1>1. CASE HostResult \/ SwitchNotifications \/ DutyChanges
           \/ \E d \in 1 .. MaxClosed : PeriodCloses(d)
  <2>1. svc' = v
    BY <1>1 DEF HostResult, SwitchNotifications, DutyChanges, PeriodCloses, v
  <2> QED
    BY <2>1, <1>kept
<1>2. CASE \E type \in {"NORMAL", "STICKY"} : Acknowledge(type)
  <2>1. PICK type \in {"NORMAL", "STICKY"} : Acknowledge(type)
    BY <1>2
  <2> DEFINE w == [v EXCEPT !.acked = TRUE, !.ackType = type]
  <2>2. w \in Service
    BY <1>0 DEF Service
  <2>3. Kept(w)
    BY <1>0 DEF Service, Ledger, Shape, Pace, History
  <2>4. svc' = NotifyOther(w, env, TRUE)
    BY <2>1 DEF Acknowledge, v
  <2> HIDE DEF w
  <2>5. Kept(svc')
    BY <2>2, <2>3, <2>4, OtherLedger
  <2> QED
    BY <2>5, <1>kept
<1>3. CASE RemoveAcknowledgement \/ AcknowledgementExpires
  <2>1. \/ svc' = [v EXCEPT !.acked = FALSE]
        \/ svc' = [v EXCEPT !.acked = FALSE, !.ackType = None]
    BY <1>3 DEF RemoveAcknowledgement, AcknowledgementExpires, v
  <2>2. Kept([v EXCEPT !.acked = FALSE])
    BY <1>0 DEF Service, Ledger, Shape, Pace, History
  <2>3. Kept([v EXCEPT !.acked = FALSE, !.ackType = None])
    BY <1>0 DEF Service, Ledger, Shape, Pace, History
  <2>4. Kept(svc')
    BY <2>1, <2>2, <2>3
  <2> QED
    BY <2>4, <1>kept
<1>4. CASE StartDowntime
  <2>1. Kept(svc')
    BY <1>0, <1>4, StartedLedger DEF StartDowntime, v
  <2> QED
    BY <2>1, <1>kept
<1>5. CASE EndDowntime
  <2> DEFINE w == [v EXCEPT !.downtime = @ - 1]
  <2>1. w \in Service
    BY <1>0, <1>00, <1>5 DEF EndDowntime, Service
  <2>2. Kept(w)
    BY <1>0 DEF Service, Ledger, Shape, Pace, History
  <2>3. svc' = NotifyOther(w, env, NotifyDowntime)
    BY <1>5 DEF EndDowntime, v
  <2> HIDE DEF w
  <2>4. Kept(svc')
    BY <2>1, <2>2, <2>3, OtherLedger
  <2> QED
    BY <2>4, <1>kept
<1>6. CASE DisableFlapDetection
  <2>1. svc' = ClearFlap(v, env) /\ ~Informed(svc)
    BY <1>6 DEF DisableFlapDetection, v, Informed
  <2>2. /\ v.current # OK => Ledger(svc') = Ledger(v)
        /\ "PROBLEM" \notin svc'.sent /\ Shape(svc') = Shape(v)
    BY <1>0, <1>00, <2>1, FlapShape, FlapLedger
  <2>3. svc'.current = v.current
    BY <2>2 DEF Shape
  <2>4. v.current # OK => svc'.streak = v.streak /\ Pace(svc') = Pace(v)
    BY <2>2 DEF Ledger, History
  <2> QED
    BY <1>00, <2>1, <2>2, <2>3, <2>4
<1>7. CASE \E forced, increment \in BOOLEAN : CustomNotification(forced, increment)
  <2>1. PICK forced \in BOOLEAN, increment \in BOOLEAN :
          CustomNotification(forced, increment)
    BY <1>7
  <2> DEFINE n == Cap(v.number + 1, MaxNumber)
             x == [v EXCEPT !.number = n]
             w == IF increment THEN x ELSE v
  <2>2. n \in 0 .. MaxNumber
    <3>1. v.number + 1 \in Nat /\ MaxNumber \in Nat
      BY <1>0 DEF Service
    <3> QED
      BY <3>1, CapType
  <2>3. svc' = Ended(w)
    BY <2>1 DEF CustomNotification, v
  <2> HIDE DEF n
  <2>4. x \in Service
    BY <1>0, <2>2 DEF Service
  <2>5. Kept(x)
    BY <1>0 DEF Service, Ledger, Shape, Pace, History
  <2> HIDE DEF x
  <2>6. w \in Service /\ Kept(w)
    BY <1>0, <2>4, <2>5
  <2> HIDE DEF w
  <2>7. Kept(svc')
    BY <2>3, <2>6, EndedLedger
  <2> QED
    BY <2>7, <1>kept
<1>8. CASE \E n \in 0 .. MaxNumber : SetNumber(n)
  <2>1. PICK n \in 0 .. MaxNumber : svc' = [v EXCEPT !.number = n]
    BY <1>8 DEF SetNumber, v
  <2>2. Kept(svc')
    BY <1>0, <2>1 DEF Service, Ledger, Shape, Pace, History
  <2> QED
    BY <2>2, <1>kept
<1>9. CASE \E m \in Attempts : ChangeMaxAttempts(m) \/ ReloadAttempts(m)
  <2>1. PICK m \in Attempts : ChangeMaxAttempts(m) \/ ReloadAttempts(m)
    BY <1>9
  <2> DEFINE a == IF svc.type = "HARD" /\ svc.current # OK /\ v.attempt > 1
                  THEN m ELSE v.attempt
  <2>2. \/ svc' = [v EXCEPT !.max = m, !.attempt = a]
        \/ svc' = [v EXCEPT !.max = m]
    BY <2>1, <1>0 DEF ChangeMaxAttempts, ReloadAttempts, v
  <2> HIDE DEF a
  <2>3. Pace(svc') = Pace(v) /\ History(svc') = History(v) /\ svc'.flapping = v.flapping
    BY <1>0, <2>2, ZenonT(60) DEF Service, Pace, History
  <2>4. Features \cap {"attempts", "restart"} # {}
    BY <2>1 DEF ChangeMaxAttempts, ReloadAttempts, On
  <2> QED
    BY <1>00, <2>3, <2>4 DEF History, Informed
<1>10. CASE \E flaps \in BOOLEAN : Restart(flaps)
  <2>1. PICK flaps \in BOOLEAN : Restart(flaps)
    BY <1>10
  <2> DEFINE w == Restored(svc, flaps)
  <2>2. /\ svc' = w /\ (flaps => svc.flapping)
        /\ Features \cap {"attempts", "restart"} # {}
    BY <2>1 DEF Restart, On
  <2>3. /\ History(w) = History(v) /\ w.flapping = flaps
    BY <1>0 DEF Restored, Service, History, v
  <2>4. Resumed(svc, w)
    BY <1>0 DEF Restored, Unsent, Service, Resumed
  <2> HIDE DEF w
  <2> QED
    BY <1>00, <2>2, <2>3, <2>4 DEF History, Informed
<1>11. CASE Tick
  <2> DEFINE l == IF v.last = None THEN None ELSE Cap(v.last + 1, Interval)
             n == IF v.next = 0 THEN 0 ELSE v.next - 1
             i == IF v.initial = None THEN None ELSE Cap(v.initial + 1, LongestDelay)
  <2>1. svc' = [v EXCEPT !.last = l, !.next = n, !.initial = i]
    BY <1>11 DEF Tick, v
  <2> HIDE DEF l, n, i
  <2>2. /\ Shape(svc') = Shape(v) /\ History(svc') = History(v)
        /\ svc'.flapping = v.flapping
        /\ svc'.last = l /\ svc'.next = n /\ svc'.noMore = v.noMore
        /\ svc'.deferred = v.deferred
    BY <1>0, <2>1 DEF Service, Shape, History
  <2>3. Passed(v, svc')
    BY <2>2 DEF Passed, l, n
  <2>4. Passed(svc, svc')
    BY <1>00, <2>3 DEF Passed, Pace
  <2> QED
    BY <1>00, <2>2, <2>4 DEF History, Informed
<1> QED
  BY <1>1, <1>2, <1>3, <1>4, <1>5, <1>6, <1>7, <1>8, <1>9, <1>10, <1>11 DEF Next

\* What a result is handled with.
LEMMA ResultTaken ==
  ASSUME TypeOK, NEW r \in States
  PROVE  LET v == Counted(svc, r)
             w == Changed(v, r # svc.current)
         IN /\ w \in Service /\ w.current = r /\ w.downtime = svc.downtime
            /\ w.sent = {} /\ w.told = svc.told /\ w.notified = svc.notified
            /\ w.flapping = svc.flapping /\ w.max = svc.max
            /\ w.lastHard = svc.lastHard
            /\ w.attempt = (IF svc.type = "SOFT" /\ svc.attempt < svc.max
                            THEN svc.attempt + 1 ELSE svc.attempt)
            /\ w.streak = (IF r = OK THEN 0 ELSE Cap(svc.streak + 1, svc.max))
            /\ \/ w.last = None
               \/ /\ r = svc.current
                  /\ Pace(w) = Pace(svc)
            /\ r = svc.current /\ r # OK /\ r = svc.lastHard => Pace(w) = Pace(svc)
<1> DEFINE a == IF svc.type = "SOFT" /\ svc.attempt < svc.max
                THEN svc.attempt + 1 ELSE svc.attempt
           k == IF r = OK THEN 0 ELSE Cap(svc.streak + 1, svc.max)
           change == r # svc.current
           v == Counted(svc, r)
           w == Changed(v, change)
<1>0. svc \in Service
  BY DEF TypeOK
<1>1. v \in Service
  BY <1>0, CountedType
<1>2. v = [svc EXCEPT !.current = r, !.attempt = a, !.sent = {}, !.streak = k]
  BY DEF Counted
<1> HIDE DEF a, k
<1>3. /\ v.current = r /\ v.downtime = svc.downtime
      /\ v.sent = {} /\ v.told = svc.told /\ v.notified = svc.notified
      /\ v.flapping = svc.flapping /\ v.max = svc.max
      /\ v.lastHard = svc.lastHard /\ v.attempt = a /\ v.streak = k
      /\ Pace(v) = Pace(svc)
  BY <1>0, <1>2 DEF Service, Pace
<1> HIDE DEF v
<1>4. w \in Service
  BY <1>1, ChangedType
<1>5. /\ w.current = v.current /\ w.downtime = v.downtime
      /\ w.sent = v.sent /\ w.told = v.told /\ w.notified = v.notified
      /\ w.flapping = v.flapping /\ w.max = v.max
      /\ w.lastHard = v.lastHard /\ w.attempt = v.attempt /\ w.streak = v.streak
  BY <1>1 DEF Changed, Service
<1>6. w = v \/ w.last = None
  BY <1>1 DEF Changed, Service
<1>7. ~change /\ ~HardChange(v) => w = v
  BY DEF Changed
<1>8. change => w.last = None
  BY <1>1 DEF Changed, Service
<1>9. v.current # OK /\ v.current = v.lastHard => ~HardChange(v)
  BY DEF HardChange
<1> HIDE DEF w
<1>10. w.last = None \/ (r = svc.current /\ Pace(w) = Pace(svc))
  BY <1>3, <1>6, <1>8 DEF change
<1>11. r = svc.current /\ r # OK /\ r = svc.lastHard => Pace(w) = Pace(svc)
  BY <1>3, <1>7, <1>9 DEF change
<1>12. /\ w \in Service /\ w.current = r /\ w.downtime = svc.downtime
       /\ w.sent = {} /\ w.told = svc.told /\ w.notified = svc.notified
       /\ w.flapping = svc.flapping /\ w.max = svc.max
       /\ w.lastHard = svc.lastHard /\ w.attempt = a /\ w.streak = k
  BY <1>3, <1>4, <1>5
<1> QED
  BY <1>10, <1>11, <1>12 DEF a, k, w, v, change

-----------------------------------------------------------------------------
(* A problem is notified when it has earned it.                                *)
(*                                                                             *)
(* The attempts never run ahead of the problem results in a row, but for the   *)
(* streak's own bound; they start at 1 again with every OK result, which        *)
(* leaves a hard state, so that the first problem after it is not counted as    *)
(* one more attempt.                                                           *)
Earned(v) ==
  IF v.current = OK THEN v.attempt = 1 /\ v.type = "HARD"
  ELSE v.streak >= 1 /\ (v.attempt <= v.streak \/ v.streak >= v.max)

EarnedInv == TypeOK /\ EarnedProblem /\ Earned(svc)

LEMMA EarnedStep ==
  ASSUME Features \cap {"attempts", "restart"} = {}
  PROVE  EarnedInv /\ [Next]_vars => EarnedInv'
<1> SUFFICES ASSUME EarnedInv, [Next]_vars
             PROVE  EarnedInv'
  OBVIOUS
<1>0. /\ TypeOK /\ svc \in Service /\ env \in Environment /\ Earned(svc)
      /\ EarnedProblem
  BY DEF EarnedInv, TypeOK
<1>type. TypeOK'
  BY <1>0, StepType
<1>1. CASE Result
  <2>1. PICK r \in States, f \in Flaps, starts \in Starts : Handle(r, f, starts)
    BY <1>1 DEF Result
  <2> DEFINE change == r # svc.current
             w == Changed(Counted(svc, r), change)
  <2>2. /\ w \in Service /\ w.current = r /\ w.downtime = svc.downtime
        /\ w.sent = {} /\ w.max = svc.max
        /\ w.attempt = (IF svc.type = "SOFT" /\ svc.attempt < svc.max
                        THEN svc.attempt + 1 ELSE svc.attempt)
        /\ w.streak = (IF r = OK THEN 0 ELSE Cap(svc.streak + 1, svc.max))
    BY <1>0, ResultTaken
  <2>3. svc' = IF r = OK THEN Recover(w, env, change, f)
                         ELSE Failed(w, env, change, f, starts)
    BY <2>1 DEF Handle
  <2>4. /\ change \in BOOLEAN /\ starts \in BOOLEAN
        /\ (starts => w.downtime < MaxDepth)
    BY <2>2 DEF Starts
  <2>5. /\ svc.attempt \in Nat \ {0} /\ svc.streak \in Nat
        /\ svc.max \in Nat \ {0}
    <3>1. svc.attempt \in Nat \ {0} /\ svc.streak \in Nat /\ svc.max \in Attempts
      BY <1>0 DEF Service
    <3>2. svc.max \in Nat /\ svc.max > 0
      BY <3>1, AttemptsType
    <3> QED
      BY <3>1, <3>2
  <2> HIDE DEF w, change
  <2>6. CASE r = OK
    <3>1. LET n == Recover(w, env, change, f)
          IN n.current = OK /\ n.attempt = 1 /\ n.type = "HARD" /\ "PROBLEM" \notin n.sent
      BY <1>0, <2>2, <2>4, <2>6, RecoverLedger
    <3> QED
      BY <1>type, <2>3, <2>6, <3>1 DEF EarnedInv, Earned, EarnedProblem
  <2>7. CASE r # OK
    <3> DEFINE n == Failed(w, env, change, f, starts)
    <3>1. /\ n.current = w.current /\ n.max = w.max /\ n.streak = w.streak
          /\ n.attempt \in {w.attempt, 1}
          /\ \/ Withheld(w, n) /\ n.lastHard \in {w.lastHard, w.current}
             \/ Notified(w, n) /\ n.lastHard = w.current /\ n.attempt >= n.max
      <4>1. /\ n.current = w.current /\ n.max = w.max /\ n.streak = w.streak
            /\ n.attempt \in {w.attempt, 1}
            /\ f = "keep" => n.flapping = w.flapping
            /\ \/ Withheld(w, n) /\ n.lastHard \in {w.lastHard, w.current}
               \/ Notified(w, n) /\ n.lastHard = w.current /\ n.attempt >= n.max
        BY <1>0, <2>2, <2>4, <2>7, FailedLedger
      <4> QED
        BY <4>1
    <3>2. svc' = n
      BY <2>3, <2>7
    <3> HIDE DEF n
    <3>3. w.streak >= 1 /\ (w.attempt <= w.streak \/ w.streak >= w.max)
      <4>1. w.streak = Cap(svc.streak + 1, svc.max)
        BY <2>2, <2>7
      <4>2. CASE svc.current = OK
        <5>1. svc.attempt = 1 /\ w.attempt = 1
          BY <1>0, <2>2, <4>2 DEF Earned
        <5> QED
          BY <2>2, <2>5, <4>1, <5>1 DEF Cap
      <4>3. CASE svc.current # OK
        <5>1. svc.attempt <= svc.streak \/ svc.streak >= svc.max
          BY <1>0, <4>3 DEF Earned
        <5> QED
          BY <2>2, <2>5, <4>1, <5>1 DEF Cap
      <4> QED
        BY <4>2, <4>3
    <3>4. n.streak >= 1 /\ (n.attempt <= n.streak \/ n.streak >= n.max)
      BY <3>1, <3>3
    <3>5. "PROBLEM" \in n.sent => n.streak >= n.max
      <4>1. "PROBLEM" \in n.sent => n.attempt >= n.max
        BY <2>2, <3>1 DEF Withheld
      <4>2. n.attempt \in Nat /\ n.streak \in Nat /\ n.max \in Nat
        <5>1. w.attempt \in Nat /\ w.streak \in Nat
          BY <2>2 DEF Service
        <5> QED
          BY <2>2, <2>5, <3>1, <5>1
      <4> QED
        BY <3>4, <4>1, <4>2
    <3> QED
      BY <1>type, <2>2, <2>7, <3>1, <3>2, <3>4, <3>5 DEF EarnedInv, Earned, EarnedProblem
  <2> QED
    BY <2>6, <2>7
<1>2. CASE Next /\ ~Result
  <2>1. /\ svc'.current # OK => svc'.streak = svc.streak
        /\ "PROBLEM" \notin svc'.sent
        /\ Shape(svc') = Shape(svc)
    BY <1>0, <1>2, BetweenResults
  <2> QED
    BY <1>0, <1>type, <2>1 DEF EarnedInv, Earned, EarnedProblem, Shape
<1>3. CASE UNCHANGED vars
  BY <1>0, <1>3, <1>type DEF vars, EarnedInv, EarnedProblem
<1> QED
  BY <1>1, <1>2, <1>3

(* A problem is notified only after max_check_attempts problem results in a row, *)
(* for any numbers of attempts, options and delays, with a host that goes down   *)
(* and up, acknowledgements, downtimes, flapping and custom notifications, as    *)
(* long as nobody changes the attempts and the engine does not restart.          *)
THEOREM EarnedProblems ==
  ASSUME Features \cap {"attempts", "restart"} = {}
  PROVE  Spec => []EarnedProblem
<1>1. Init => EarnedInv
  <2> SUFFICES ASSUME NEW s \in States, NEW m \in Attempts, svc = Created(s, m), TypeOK
               PROVE  EarnedProblem /\ Earned(svc)
    BY InitType DEF Init, EarnedInv
  <2>1. m \in Nat /\ m > 0
    BY AttemptsType
  <2>2. /\ svc.sent = {} /\ svc.current = s /\ svc.type = "HARD" /\ svc.max = m
        /\ svc.attempt = (IF s = OK THEN 1 ELSE m)
        /\ svc.streak = (IF s = OK THEN 0 ELSE m)
    BY DEF Created
  <2> QED
    BY <2>1, <2>2 DEF EarnedProblem, Earned
<1>2. EarnedInv /\ [Next]_vars => EarnedInv'
  BY EarnedStep
<1>3. EarnedInv => EarnedProblem
  BY DEF EarnedInv
<1> QED
  BY <1>1, <1>2, <1>3, PTL DEF Spec

-----------------------------------------------------------------------------
(* No recovery is told to contacts who do not know of a problem.               *)
(*                                                                             *)
(* While the service does not flap, contacts know of a problem as long as one   *)
(* is noted in notified_on_<state>: what announces a recovery is always         *)
(* followed by the reset that forgets the problems (RecoverInformed).  Flapping *)
(* breaks this: what its end announces is not followed by a reset.              *)
InformedInv == TypeOK /\ Informed(svc)

LEMMA InformedStep ==
  ASSUME "flapping" \notin Features
  PROVE  InformedInv /\ [Next]_vars => InformedInv'
<1> SUFFICES ASSUME InformedInv, [Next]_vars
             PROVE  InformedInv'
  OBVIOUS
<1>0. TypeOK /\ svc \in Service /\ env \in Environment /\ Informed(svc)
  BY DEF InformedInv, TypeOK
<1>type. TypeOK'
  BY <1>0, StepType
<1>1. CASE Result
  <2>1. PICK r \in States, f \in Flaps, starts \in Starts : Handle(r, f, starts)
    BY <1>1 DEF Result
  <2> DEFINE change == r # svc.current
             w == Changed(Counted(svc, r), change)
  <2>2. /\ w \in Service /\ w.current = r /\ w.downtime = svc.downtime
        /\ w.sent = {} /\ w.told = svc.told /\ w.notified = svc.notified
        /\ w.flapping = svc.flapping
    BY <1>0, ResultTaken
  <2>3. svc' = IF r = OK THEN Recover(w, env, change, f)
                         ELSE Failed(w, env, change, f, starts)
    BY <2>1 DEF Handle
  <2>4. /\ change \in BOOLEAN /\ starts \in BOOLEAN
        /\ (starts => w.downtime < MaxDepth)
    BY <2>2 DEF Starts
  <2>5. f = "keep"
    BY DEF Flaps, On
  <2> HIDE DEF w, change
  <2>6. Informed(w)
    BY <1>0, <2>2 DEF Informed
  <2>7. CASE r = OK
    <3>1. Informed(Recover(w, env, change, "keep"))
      BY <1>0, <2>2, <2>4, <2>6, <2>7, RecoverInformed
    <3> QED
      BY <1>type, <2>3, <2>5, <2>7, <3>1 DEF InformedInv
  <2>8. CASE r # OK
    <3> DEFINE n == Failed(w, env, change, f, starts)
    <3>1. /\ n.current = w.current /\ n.max = w.max /\ n.streak = w.streak
          /\ n.attempt \in {w.attempt, 1}
          /\ f = "keep" => n.flapping = w.flapping
          /\ \/ Withheld(w, n) /\ n.lastHard \in {w.lastHard, w.current}
             \/ Notified(w, n) /\ n.lastHard = w.current /\ n.attempt >= n.max
      BY <1>0, <2>2, <2>4, <2>8, FailedLedger
    <3>2. svc' = n
      BY <2>3, <2>8
    <3> HIDE DEF n
    <3>3. Informed(n)
      BY <2>2, <2>5, <2>6, <3>1 DEF Informed, Withheld, Notified
    <3> QED
      BY <1>type, <3>2, <3>3 DEF InformedInv
  <2> QED
    BY <2>7, <2>8
<1>2. CASE Next /\ ~Result
  <2>1. Informed(svc) => Informed(svc')
    BY <1>0, <1>2, BetweenResults
  <2> QED
    BY <1>0, <1>type, <2>1 DEF InformedInv
<1>3. CASE UNCHANGED vars
  BY <1>0, <1>3, <1>type DEF vars, InformedInv, Informed
<1> QED
  BY <1>1, <1>2, <1>3

(* No recovery notification for a problem that contacts never knew of, or whose *)
(* recovery they know, for any options and delays, whatever users, the host,     *)
(* the contact and restarts do, as long as the service does not flap.            *)
THEOREM NoUntoldRecoveries ==
  ASSUME "flapping" \notin Features
  PROVE  Spec => []NoUntoldRecovery
<1>1. Init => InformedInv
  <2> SUFFICES ASSUME NEW s \in States, NEW m \in Attempts, svc = Created(s, m), TypeOK
               PROVE  InformedInv
    BY InitType DEF Init
  <2>1. svc.flapping = FALSE /\ svc.notified = {} /\ svc.sent = {}
    BY DEF Created
  <2> QED
    BY <2>1 DEF InformedInv, Informed
<1>2. InformedInv /\ [Next]_vars => InformedInv'
  BY InformedStep
<1>3. InformedInv => NoUntoldRecovery
  BY DEF InformedInv, Informed, NoUntoldRecovery
<1> QED
  BY <1>1, <1>2, <1>3, PTL DEF Spec

-----------------------------------------------------------------------------
(* A problem that stays the same is not notified again too early.              *)
(*                                                                             *)
(* As long as the last notification of a problem counts (last is not None), the *)
(* problem is the last hard state, so that no result takes it for a change, and  *)
(* the time since that notification and the time until the next one make up      *)
(* the interval, unless a closed period has moved the next one.                  *)
Spaced(v) ==
  v.current # OK /\ v.last # None =>
     /\ v.lastHard = v.current
     /\ ~Volatile => /\ Interval = 0 => v.noMore
                     /\ v.deferred \/ v.next + v.last >= Interval

SpacedInv == TypeOK /\ Spaced(svc)

\* one step of RenotifySpacing
NotTooEarly ==
  "PROBLEM" \in svc'.sent /\ ~Volatile /\ svc.last # None /\ svc'.current = svc.current
  => Interval > 0 /\ (svc.last >= Interval \/ svc.deferred)

\* What a problem result makes of the spacing.
LEMMA FailedSpaced ==
  ASSUME NEW v \in Service, NEW n \in Service, Spaced(v), v.current # OK,
         n.current = v.current,
         \/ Withheld(v, n) /\ n.lastHard \in {v.lastHard, v.current}
         \/ Notified(v, n) /\ n.lastHard = v.current /\ n.attempt >= n.max
  PROVE  Spaced(n)
<1>0. /\ Interval \in Nat
      /\ n.last # None => n.last \in 0 .. Interval
      /\ n.next \in Nat
  BY DEF Service
<1>1. CASE Withheld(v, n) /\ n.lastHard \in {v.lastHard, v.current}
  <2> SUFFICES ASSUME n.last # None
               PROVE  /\ n.lastHard = n.current
                      /\ ~Volatile => /\ Interval = 0 => n.noMore
                                      /\ n.deferred \/ n.next + n.last >= Interval
    BY DEF Spaced
  <2>1. n.last = v.last /\ n.noMore = v.noMore
    BY <1>1 DEF Withheld
  <2>2. /\ v.lastHard = v.current
        /\ ~Volatile => /\ Interval = 0 => v.noMore
                        /\ v.deferred \/ v.next + v.last >= Interval
    BY <2>1 DEF Spaced
  <2>3. n.lastHard = n.current
    BY <1>1, <2>2
  <2>4. CASE n.deferred = (Interval > 0)
    <3>1. CASE Interval > 0
      BY <2>1, <2>2, <2>3, <2>4, <3>1
    <3>2. CASE Interval = 0
      <4>1. n.next + n.last >= Interval
        BY <1>0, <3>2
      <4> QED
        BY <2>1, <2>2, <2>3, <4>1
    <3> QED
      BY <1>0, <3>1, <3>2
  <2>5. CASE n.next = v.next /\ n.deferred = v.deferred
    BY <2>1, <2>2, <2>3, <2>5
  <2> QED
    BY <1>1, <2>4, <2>5 DEF Withheld
<1>2. CASE Notified(v, n) /\ n.lastHard = v.current
  <2>1. /\ n.lastHard = n.current /\ n.last = 0 /\ n.next = Interval
        /\ n.noMore = (Interval = 0 /\ ~Volatile)
    BY <1>2 DEF Notified
  <2>2. n.next + n.last >= Interval
    BY <1>0, <2>1
  <2>3. ~Volatile /\ Interval = 0 => n.noMore
    BY <2>1
  <2> QED
    BY <2>1, <2>2, <2>3 DEF Spaced
<1> QED
  BY <1>1, <1>2

LEMMA ResultSpaced ==
  ASSUME SpacedInv, Result
  PROVE  Spaced(svc') /\ NotTooEarly
<1>0. TypeOK /\ svc \in Service /\ env \in Environment /\ Spaced(svc)
  BY DEF SpacedInv, TypeOK
<1>1. PICK r \in States, f \in Flaps, starts \in Starts : Handle(r, f, starts)
  BY DEF Result
<1> DEFINE change == r # svc.current
           w == Changed(Counted(svc, r), change)
<1>2. /\ w \in Service /\ w.current = r /\ w.downtime = svc.downtime
      /\ w.sent = {} /\ w.lastHard = svc.lastHard
      /\ \/ w.last = None
         \/ /\ r = svc.current
            /\ Pace(w) = Pace(svc)
      /\ r = svc.current /\ r # OK /\ r = svc.lastHard => Pace(w) = Pace(svc)
  BY <1>0, ResultTaken
<1>3. svc' = IF r = OK THEN Recover(w, env, change, f)
                       ELSE Failed(w, env, change, f, starts)
  BY <1>1 DEF Handle
<1>4. /\ change \in BOOLEAN /\ starts \in BOOLEAN
      /\ (starts => w.downtime < MaxDepth)
  BY <1>2 DEF Starts
<1> HIDE DEF w, change
<1>5. CASE r = OK
  <2>1. LET n == Recover(w, env, change, f)
        IN n.current = OK /\ n.attempt = 1 /\ n.type = "HARD" /\ "PROBLEM" \notin n.sent
    BY <1>0, <1>2, <1>4, <1>5, RecoverLedger
  <2> QED
    BY <1>3, <1>5, <2>1 DEF Spaced, NotTooEarly
<1>6. CASE r # OK
  <2> DEFINE n == Failed(w, env, change, f, starts)
  <2>1. /\ n.current = w.current /\ n.max = w.max /\ n.streak = w.streak
        /\ n.attempt \in {w.attempt, 1}
        /\ f = "keep" => n.flapping = w.flapping
        /\ \/ Withheld(w, n) /\ n.lastHard \in {w.lastHard, w.current}
           \/ Notified(w, n) /\ n.lastHard = w.current /\ n.attempt >= n.max
    BY <1>0, <1>2, <1>4, <1>6, FailedLedger
  <2>2. n \in Service
    BY <1>0, <1>2, <1>4, FailedType
  <2>3. svc' = n
    BY <1>3, <1>6
  <2> HIDE DEF n
  <2>4. Spaced(w)
    <3>1. CASE w.last = None
      BY <3>1 DEF Spaced
    <3>2. CASE r = svc.current /\ Pace(w) = Pace(svc)
      BY <1>0, <1>2, <3>2 DEF Spaced, Pace
    <3> QED
      BY <1>2, <3>1, <3>2
  <2>5. Spaced(n)
    BY <1>2, <1>6, <2>1, <2>2, <2>4, FailedSpaced
  <2>6. NotTooEarly
    <3> SUFFICES ASSUME "PROBLEM" \in n.sent, ~Volatile, svc.last # None,
                        n.current = svc.current
                 PROVE  Interval > 0 /\ (svc.last >= Interval \/ svc.deferred)
      BY <2>3 DEF NotTooEarly
    <3>1. r = svc.current
      BY <1>2, <2>1
    <3>2. svc.lastHard = svc.current
      BY <1>0, <1>6, <3>1 DEF Spaced
    <3>3. Pace(w) = Pace(svc)
      BY <1>2, <1>6, <3>1, <3>2
    <3>4. Notified(w, n)
      BY <1>2, <2>1 DEF Withheld
    <3>5. ~svc.noMore /\ svc.next = 0
      BY <3>3, <3>4 DEF Notified, Pace
    <3>6. Interval # 0 /\ (svc.deferred \/ 0 + svc.last >= Interval)
      BY <1>0, <1>6, <3>1, <3>5 DEF Spaced
    <3>7. svc.last \in 0 .. Interval
      BY <1>0 DEF Service
    <3> QED
      BY <3>6, <3>7
  <2> QED
    BY <2>3, <2>5, <2>6
<1> QED
  BY <1>5, <1>6

LEMMA BetweenSpaced ==
  ASSUME SpacedInv, TypeOK', Next, ~Result
  PROVE  Spaced(svc') /\ NotTooEarly
<1>0. TypeOK /\ svc \in Service /\ svc' \in Service /\ Spaced(svc)
  BY DEF SpacedInv, TypeOK
<1>1. /\ svc'.current # OK => \/ Pace(svc') = Pace(svc)
                              \/ Passed(svc, svc')
                              \/ Resumed(svc, svc')
      /\ "PROBLEM" \notin svc'.sent
  BY <1>0, BetweenResults
<1>2. svc'.current = svc.current /\ svc'.lastHard = svc.lastHard
  BY <1>0, OtherActions
<1>3. NotTooEarly
  BY <1>1 DEF NotTooEarly
<1>4. ASSUME svc'.current # OK, svc'.last # None
      PROVE  /\ svc'.lastHard = svc'.current
             /\ ~Volatile => /\ Interval = 0 => svc'.noMore
                             /\ svc'.deferred \/ svc'.next + svc'.last >= Interval
  <2>0. Interval \in Nat /\ svc.next \in Nat
    BY <1>0 DEF Service
  <2>1. svc.last # None /\ svc.last \in 0 .. Interval
    <3>1. svc.last # None
      BY <1>1, <1>4 DEF Pace, Passed, Resumed
    <3> QED
      BY <1>0, <3>1 DEF Service
  <2>2. /\ svc.lastHard = svc.current
        /\ ~Volatile => /\ Interval = 0 => svc.noMore
                        /\ svc.deferred \/ svc.next + svc.last >= Interval
    BY <1>0, <1>2, <1>4, <2>1 DEF Spaced
  <2>3. CASE Pace(svc') = Pace(svc)
    BY <1>2, <2>2, <2>3 DEF Pace
  <2>4. CASE Passed(svc, svc')
    <3>1. /\ svc'.last = Cap(svc.last + 1, Interval)
          /\ svc'.next = (IF svc.next = 0 THEN 0 ELSE svc.next - 1)
          /\ svc'.noMore = svc.noMore /\ svc'.deferred = svc.deferred
      BY <2>1, <2>4 DEF Passed
    <3>2. svc.next + svc.last >= Interval => svc'.next + svc'.last >= Interval
      BY <2>0, <2>1, <3>1 DEF Cap
    <3> QED
      BY <1>2, <2>2, <3>1, <3>2
  <2>5. CASE Resumed(svc, svc')
    <3>1. /\ svc'.last = svc.last /\ svc'.next = Interval - svc.last
          /\ svc'.noMore = (Interval = 0 /\ ~Volatile)
      BY <1>2, <1>4, <2>1, <2>5 DEF Resumed
    <3>2. svc'.next + svc'.last >= Interval
      BY <2>0, <2>1, <3>1
    <3> QED
      BY <1>2, <2>2, <3>1, <3>2
  <2> QED
    BY <1>1, <1>4, <2>3, <2>4, <2>5
<1> QED
  BY <1>3, <1>4 DEF Spaced

(* A problem that does not change is not notified again before its interval is  *)
(* over, and never if the interval is 0, but for the end of a closed period, for *)
(* any interval, delays and options, whatever users, the host, downtimes and     *)
(* restarts do.                                                                  *)
THEOREM RenotificationsSpaced ==
  Spec => RenotifySpacing
<1>1. Init => SpacedInv
  <2> SUFFICES ASSUME NEW s \in States, NEW m \in Attempts, svc = Created(s, m), TypeOK
               PROVE  SpacedInv
    BY InitType DEF Init
  <2>1. svc.last = None
    BY DEF Created
  <2> QED
    BY <2>1 DEF SpacedInv, Spaced
<1>2. SpacedInv /\ [Next]_vars => SpacedInv' /\ [NotTooEarly]_vars
  <2> SUFFICES ASSUME SpacedInv, [Next]_vars
               PROVE  SpacedInv' /\ [NotTooEarly]_vars
    OBVIOUS
  <2>1. TypeOK'
    BY StepType DEF SpacedInv
  <2>2. CASE Result
    BY <2>1, <2>2, ResultSpaced DEF SpacedInv
  <2>3. CASE Next /\ ~Result
    BY <2>1, <2>3, BetweenSpaced DEF SpacedInv
  <2>4. CASE UNCHANGED vars
    BY <2>1, <2>4 DEF vars, SpacedInv, Spaced
  <2> QED
    BY <2>2, <2>3, <2>4
<1> QED
  BY <1>1, <1>2, PTL DEF Spec, RenotifySpacing, NotTooEarly
=============================================================================
