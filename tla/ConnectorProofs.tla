-------------------------- MODULE ConnectorProofs --------------------------
(* The connector keeps the promise of CommandService for any set of command  *)
(* ids, any number of crashes and every feature (ServiceKept), and no query  *)
(* is accepted and never sent (NoQueryForgotten).                            *)
EXTENDS Connector, TLAPS

\* A query is in one place at a time.
Apart ==
  /\ queries \cap results = {} /\ queries \cap failed = {}
  /\ results \cap failed = {}
  /\ hand \notin queries \cup results \cup failed

\* The query of a synchronous run is nowhere before it is sent.
Unsent ==
  pc["main"] \in Starting \cup {"send"} =>
    current \in Ids /\ current \notin Known /\ inbox[current] = 0

\* Only the restart thread that gives up holds queries.
Holding == failed # {} => pc["restart"] = "deliver"

Inv == TypeOK /\ Apart /\ Unsent /\ Holding

USE ConnectorAssumption

LEMMA PlacesFacts ==
  /\ Starting \subseteq Places
  /\ {"off", "send", "result", "close", "quit", "join", "fail", "deliver", "end"}
       \subseteq Places
  /\ "off" \notin Starting /\ "send" \notin Starting /\ "fail" \notin Starting
  /\ "deliver" \notin Starting /\ "end" \notin Starting /\ "result" \notin Starting
  /\ "close" \notin Starting /\ "quit" \notin Starting /\ "join" \notin Starting
BY DEF Places, Starting

LEMMA InitInv == Init => Inv
<1> SUFFICES ASSUME Init PROVE Inv
  OBVIOUS
<1>1. TypeOK
  <2>1. todo \in [Ids -> Nat] /\ inbox \in [Ids -> Nat]
    BY DEF Init
  <2>2. pc \in [Threads -> Places]
    BY PlacesFacts DEF Init
  <2>3. crashes \in 0 .. MaxCrashes
    BY DEF Init
  <2> QED
    BY <2>1, <2>2, <2>3 DEF Init, TypeOK
<1>2. Apart /\ Holding
  BY DEF Init, Apart, Holding
<1>3. Unsent
  BY PlacesFacts DEF Init, Unsent, Threads
<1> QED
  BY <1>1, <1>2, <1>3 DEF Inv

\* What a thread does when it is thrown out of the start of the process.
LEMMA ThrownPlaces ==
  ASSUME NEW t \in Threads, TypeOK, Thrown(t)
  PROVE  /\ pc' \in [Threads -> Places] /\ current' \in Sync \cup {None}
         /\ t = "main" => pc'["main"] = "off" /\ pc'["restart"] = pc["restart"]
         /\ t = "restart" => /\ pc'["main"] = pc["main"] /\ pc'["restart"] = "fail"
                             /\ current' = current
BY PlacesFacts DEF Thrown, TypeOK, Threads

LEMMA SendType ==
  ASSUME TypeOK, NEW S, Send(S)
  PROVE  todo' \in [Ids -> Nat]
BY DEF Send, TypeOK

LEMMA RestartingPlaces ==
  ASSUME TypeOK
  PROVE  /\ Restarting \in [Threads -> Places]
         /\ Restarting["main"] = pc["main"]
         /\ pc["restart"] = "deliver" => Restarting["restart"] = "deliver"
BY PlacesFacts DEF Restarting, TypeOK, Threads, Starting

-----------------------------------------------------------------------------
(* A step of _connector_start moves a thread and touches no query.           *)
Quiet == UNCHANGED <<queries, answers>>

LEMMA StartQuiet ==
  ASSUME NEW t \in Threads, Start(t)
  PROVE  Quiet /\ pc[t] \in Starting
BY DEF Start, ResetStart, Exec, AskVersion, CheckVersion, Resend, Quiet, answers,
       Starting

LEMMA StartPlaces ==
  ASSUME NEW t \in Threads, TypeOK, Start(t)
  PROVE  /\ pc' \in [Threads -> Places] /\ current' \in Sync \cup {None}
         /\ t = "main" => /\ pc'["restart"] = pc["restart"]
                          /\ \/ pc'["main"] = "off"
                             \/ /\ pc'["main"] \in Starting \cup {"send"}
                                /\ current' = current
         /\ t = "restart" => /\ pc'["main"] = pc["main"] /\ current' = current
                             /\ pc["restart"] # "deliver"
<1>1. \/ Thrown(t)
      \/ /\ current' = current
         /\ \E p \in (Starting \ {"reset"}) \cup {IF t = "main" THEN "send" ELSE "end"} :
              pc' = [pc EXCEPT ![t] = p]
  BY DEF Start, ResetStart, Exec, AskVersion, CheckVersion, Resend, Starting
<1>2. pc[t] # "deliver"
  BY StartQuiet, PlacesFacts
<1>3. CASE Thrown(t)
  BY <1>2, <1>3, ThrownPlaces DEF Threads
<1>4. CASE /\ current' = current
           /\ \E p \in (Starting \ {"reset"}) \cup {IF t = "main" THEN "send" ELSE "end"} :
                pc' = [pc EXCEPT ![t] = p]
  <2>1. PICK p \in (Starting \ {"reset"}) \cup {IF t = "main" THEN "send" ELSE "end"} :
          pc' = [pc EXCEPT ![t] = p]
    BY <1>4
  <2>2. p \in Places
    BY PlacesFacts
  <2> QED
    BY <1>2, <1>4, <2>1, <2>2 DEF TypeOK, Threads
<1> QED
  BY <1>1, <1>3, <1>4

LEMMA StartType ==
  ASSUME NEW t \in Threads, TypeOK, Start(t)
  PROVE  TypeOK'
<1>1. pc' \in [Threads -> Places] /\ current' \in Sync \cup {None}
  BY StartPlaces
<1>2. Quiet
  BY StartQuiet
<1>3. CASE ResetStart(t)
  BY <1>1, <1>2, <1>3 DEF ResetStart, TypeOK, Quiet, answers, process
<1>4. CASE Exec(t)
  <2>1. todo' \in [Ids -> Nat]
    BY <1>4 DEF Exec, TypeOK
  <2>2. /\ proc' \in {"none", "alive", "dead"} /\ asked' \subseteq {"version", "quit"}
        /\ UNCHANGED <<running, restart, version, quit, woken, crashes>>
    BY <1>4 DEF Exec, TypeOK, flags
  <2>3. UNCHANGED <<queries, results, failed, hand, inbox>>
    BY <1>2 DEF Quiet, answers
  <2> QED
    BY <1>1, <2>1, <2>2, <2>3 DEF TypeOK
<1>5. CASE AskVersion(t)
  BY <1>1, <1>2, <1>5 DEF AskVersion, TypeOK, Quiet, answers, flags
<1>6. CASE CheckVersion(t)
  <2>1. proc' \in {"none", "alive", "dead"}
    BY <1>6 DEF CheckVersion, TypeOK, Killed
  <2>2. running' \in BOOLEAN /\ restart' \in BOOLEAN
    BY <1>6 DEF CheckVersion, TypeOK
  <2>3. UNCHANGED <<version, quit, todo, asked, crashes>> /\ woken' \subseteq Threads
    BY <1>6 DEF CheckVersion, TypeOK
  <2> QED
    BY <1>1, <1>2, <2>1, <2>2, <2>3 DEF TypeOK, Quiet, answers
<1>7. CASE Resend(t)
  <2>1. todo' \in [Ids -> Nat]
    BY <1>7, SendType DEF Resend, TypeOK
  <2>2. crashes' \in 0 .. MaxCrashes /\ proc' \in {"none", "alive", "dead"}
    BY <1>7 DEF Resend, TypeOK
  <2>3. UNCHANGED <<running, restart, version, quit, asked, woken>>
    BY <1>7 DEF Resend, flags
  <2>4. UNCHANGED <<queries, results, failed, hand, inbox>>
    BY <1>2 DEF Quiet, answers
  <2> QED
    BY <1>1, <2>1, <2>2, <2>3, <2>4 DEF TypeOK
<1> QED
  BY <1>3, <1>4, <1>5, <1>6, <1>7 DEF Start

LEMMA StartInv ==
  ASSUME NEW t \in Threads, Inv, Start(t)
  PROVE  Inv'
<1>1. TypeOK'
  BY StartType DEF Inv
<1>2. Quiet
  BY StartQuiet
<1>3. Apart'
  BY <1>2 DEF Quiet, answers, Apart, Inv
<1>4. Known' = Known /\ inbox' = inbox
  BY <1>2 DEF Quiet, answers, Known
<1>5. Unsent'
  <2>1. CASE t = "main"
    BY <1>4, <2>1, StartPlaces, StartQuiet, PlacesFacts DEF Unsent, Inv
  <2>2. CASE t = "restart"
    BY <1>4, <2>2, StartPlaces DEF Unsent, Inv
  <2> QED
    BY <2>1, <2>2 DEF Threads
<1>6. Holding'
  BY <1>2, StartPlaces DEF Holding, Inv, Quiet, answers, Threads
<1> QED
  BY <1>1, <1>3, <1>5, <1>6 DEF Inv

-----------------------------------------------------------------------------
(* What a step may do to the queries the engine waits for.                   *)
Stays == Known' = Known /\ inbox' = inbox
Step == Stays \/ Service!Next

LEMMA DeliverType ==
  ASSUME TypeOK, NEW id \in Ids, Deliver(id)
  PROVE  /\ results' \subseteq Sync /\ inbox' \in [Ids -> Nat]
         /\ woken' \subseteq Threads
BY DEF Deliver, TypeOK, WakeAll

\* An answer that is handed over leaves Known unless somebody waits for it.
LEMMA HandOverInv ==
  ASSUME Inv, HandOver
  PROVE  Inv' /\ Step
<1>1. hand \in Ids /\ hand \in Known
  BY DEF Inv, TypeOK, HandOver, Known
<1>2. TypeOK'
  BY <1>1, DeliverType DEF Inv, TypeOK, HandOver, flags, process
<1>3. UNCHANGED <<queries, pc, current, failed>> /\ hand' = None
  BY DEF HandOver
<1>4. CASE hand \in Sync
  <2>1. results' = results \cup {hand} /\ inbox' = inbox
    BY <1>4 DEF HandOver, Deliver
  <2>2. Known' = Known
    BY <1>1, <1>3, <2>1 DEF Known
  <2>3. Apart' /\ Unsent' /\ Holding'
    BY <1>1, <1>3, <2>1, <2>2 DEF Inv, Apart, Unsent, Holding, TypeOK
  <2> QED
    BY <1>2, <2>1, <2>2, <2>3 DEF Inv, Step, Stays
<1>5. CASE hand \notin Sync
  <2>1. results' = results /\ inbox' = [inbox EXCEPT ![hand] = @ + 1]
    BY <1>5 DEF HandOver, Deliver
  <2>2. Known' = Known \ {hand}
    BY <1>1, <1>3, <2>1 DEF Known, Inv, Apart
  <2>3. Apart' /\ Holding'
    BY <1>1, <1>3, <2>1 DEF Inv, Apart, Holding, TypeOK
  <2>4. Unsent'
    BY <1>1, <1>3, <2>1, <2>2 DEF Inv, Unsent, TypeOK
  <2>5. Service!Answer(hand)
    BY <1>1, <2>1, <2>2 DEF Service!Answer
  <2> QED
    BY <1>1, <1>2, <2>3, <2>4, <2>5 DEF Inv, Step, Service!Next
<1> QED
  BY <1>4, <1>5

LEMMA FailQueryInv ==
  ASSUME Inv, NEW id \in Ids, FailQuery(id)
  PROVE  Inv' /\ Step
<1>1. id \in failed /\ id \in Known
  BY DEF FailQuery, Known
<1>2. TypeOK'
  BY DeliverType DEF Inv, TypeOK, FailQuery, flags, process
<1>3. UNCHANGED <<queries, pc, current, hand>> /\ failed' = failed \ {id}
  BY DEF FailQuery
<1>4. CASE id \in Sync
  <2>1. results' = results \cup {id} /\ inbox' = inbox
    BY <1>4 DEF FailQuery, Deliver
  <2>2. Known' = Known
    BY <1>1, <1>3, <2>1 DEF Known
  <2>3. Apart' /\ Unsent' /\ Holding'
    BY <1>1, <1>3, <2>1, <2>2 DEF Inv, Apart, Unsent, Holding
  <2> QED
    BY <1>2, <2>1, <2>2, <2>3 DEF Inv, Step, Stays
<1>5. CASE id \notin Sync
  <2>1. results' = results /\ inbox' = [inbox EXCEPT ![id] = @ + 1]
    BY <1>5 DEF FailQuery, Deliver
  <2>2. Known' = Known \ {id}
    BY <1>1, <1>3, <2>1 DEF Known, Inv, Apart
  <2>3. Apart' /\ Holding'
    BY <1>1, <1>3, <2>1 DEF Inv, Apart, Holding
  <2>4. Unsent'
    BY <1>1, <1>3, <2>1, <2>2 DEF Inv, Unsent, TypeOK
  <2>5. Service!Answer(id)
    BY <1>1, <2>1, <2>2 DEF Service!Answer
  <2> QED
    BY <1>2, <2>3, <2>4, <2>5 DEF Inv, Step, Service!Next
<1> QED
  BY <1>4, <1>5

\* A query that comes in was nowhere before.
LEMMA SubmitInv ==
  ASSUME Inv, NEW id \in Ids, id \notin Known, inbox[id] = 0, TypeOK',
         queries' = queries \cup {id}, UNCHANGED answers,
         pc'["main"] \notin Starting \cup {"send"} \/
           (pc'["main"] = pc["main"] /\ current' = current /\ id # current),
         pc["restart"] = "deliver" => pc'["restart"] = "deliver"
  PROVE  Inv' /\ Step
<1>1. Known' = Known \cup {id} /\ inbox' = inbox
  BY DEF Known, answers
<1>2. Apart' /\ Holding'
  BY DEF Apart, Known, answers, Inv, Holding, TypeOK
<1>3. Unsent'
  BY <1>1 DEF Unsent, Inv
<1>4. Service!Submit(id)
  BY <1>1 DEF Service!Submit
<1> QED
  BY <1>2, <1>3, <1>4 DEF Inv, Step, Service!Next

LEMMA RunAsyncInv ==
  ASSUME Inv, NEW id \in Ids, RunAsync(id)
  PROVE  Inv' /\ Step
<1>1. id \notin Known /\ inbox[id] = 0 /\ queries' = queries \cup {id}
      /\ UNCHANGED answers /\ pc["main"] = "off"
  BY DEF RunAsync, Fresh
<1>2. /\ pc' \in [Threads -> Places] /\ pc'["main"] = "off"
      /\ pc["restart"] = "deliver" => pc'["restart"] = "deliver"
  BY <1>1, RestartingPlaces DEF RunAsync, Inv, TypeOK
<1>3. todo' \in [Ids -> Nat]
  BY SendType DEF RunAsync, Inv, TypeOK
<1>4. TypeOK'
  BY <1>1, <1>2, <1>3 DEF RunAsync, Inv, TypeOK, flags, answers
<1> QED
  BY <1>1, <1>2, <1>4, SubmitInv, PlacesFacts

LEMMA RunSyncInv ==
  ASSUME Inv, NEW id \in Ids, RunSync(id)
  PROVE  Inv' /\ Step
<1>1. id \notin Known /\ inbox[id] = 0 /\ id \in Sync /\ UNCHANGED answers
      /\ current' = id /\ pc["main"] = "off"
  BY DEF RunSync, Fresh
<1>2. todo' \in [Ids -> Nat] /\ queries' \subseteq Ids
  BY SendType DEF RunSync, Inv, TypeOK
<1>3. CASE pc' = [pc EXCEPT !["main"] = "reset"] /\ UNCHANGED <<todo, queries>>
  <2>1. TypeOK'
    BY <1>1, <1>3, PlacesFacts DEF RunSync, Inv, TypeOK, flags, answers, Threads, Starting
  <2>2. Known' = Known /\ inbox' = inbox
    BY <1>1, <1>3 DEF Known, answers
  <2>3. Apart' /\ Holding'
    BY <1>1, <1>3 DEF Inv, Apart, Holding, answers, TypeOK, Threads
  <2>4. Unsent'
    BY <1>1, <2>2 DEF Unsent
  <2> QED
    BY <2>1, <2>2, <2>3, <2>4 DEF Inv, Step, Stays
<1>4. CASE pc' = [pc EXCEPT !["main"] = "result"] /\ queries' = queries \cup {id}
  <2>1. TypeOK'
    BY <1>1, <1>2, <1>4, PlacesFacts DEF RunSync, Inv, TypeOK, flags, answers, Threads
  <2>2. pc'["main"] = "result" /\ pc'["restart"] = pc["restart"]
    BY <1>4 DEF Inv, TypeOK, Threads
  <2> QED
    BY <1>1, <1>4, <2>1, <2>2, SubmitInv, PlacesFacts
<1> QED
  BY <1>3, <1>4 DEF RunSync

LEMMA SendCurrentInv ==
  ASSUME Inv, SendCurrent
  PROVE  Inv' /\ Step
<1>1. current \in Ids /\ current \notin Known /\ inbox[current] = 0
      /\ UNCHANGED answers
  BY DEF SendCurrent, Inv, Unsent
<1>2. CASE proc = "alive"
  <2>1. /\ pc' = [pc EXCEPT !["main"] = "result"] /\ current' = current
        /\ queries' = queries \cup {current} /\ Send({current})
    BY <1>2 DEF SendCurrent
  <2>2. todo' \in [Ids -> Nat]
    BY <2>1, SendType DEF Inv
  <2>3. TypeOK'
    BY <1>1, <2>1, <2>2, PlacesFacts DEF SendCurrent, Inv, TypeOK, flags, answers, Threads
  <2>4. pc'["main"] = "result" /\ pc'["restart"] = pc["restart"]
    BY <2>1 DEF Inv, TypeOK, Threads
  <2> QED
    BY <1>1, <2>1, <2>3, <2>4, SubmitInv, PlacesFacts
<1>3. CASE proc # "alive"
  <2>1. /\ Thrown("main") /\ UNCHANGED <<todo, queries>>
    BY <1>3 DEF SendCurrent
  <2>2. /\ pc' \in [Threads -> Places] /\ current' \in Sync \cup {None}
        /\ pc'["main"] = "off" /\ pc'["restart"] = pc["restart"]
    BY <2>1, ThrownPlaces DEF Inv, Threads
  <2>3. TypeOK'
    BY <1>1, <2>1, <2>2 DEF SendCurrent, Inv, TypeOK, flags, answers
  <2>4. Stays
    BY <1>1, <2>1 DEF Stays, Known, answers
  <2>5. Apart' /\ Holding'
    BY <1>1, <2>1, <2>2 DEF Inv, Apart, Holding, answers
  <2>6. Unsent'
    BY <2>2, PlacesFacts DEF Unsent
  <2> QED
    BY <2>3, <2>4, <2>5, <2>6 DEF Inv, Step
<1> QED
  BY <1>2, <1>3

LEMMA ReturnInv ==
  ASSUME Inv, Return
  PROVE  Inv' /\ Step
<1>1. current \in Ids /\ current \in results /\ current \in Known
  BY DEF Inv, TypeOK, Return, Known
<1>2. /\ results' = results \ {current} /\ inbox' = [inbox EXCEPT ![current] = @ + 1]
      /\ UNCHANGED <<queries, failed, hand>>
      /\ pc' = [pc EXCEPT !["main"] = "off"] /\ current' = None
  BY DEF Return
<1>3. TypeOK'
  BY <1>1, <1>2, PlacesFacts DEF Return, Inv, TypeOK, flags, process, Threads
<1>4. Known' = Known \ {current}
  BY <1>1, <1>2 DEF Known, Inv, Apart
<1>5. Service!Answer(current)
  BY <1>1, <1>2, <1>4 DEF Service!Answer
<1>6. Apart' /\ Holding'
  BY <1>2 DEF Inv, Apart, Holding, TypeOK, Threads
<1>7. Unsent'
  BY <1>2, PlacesFacts DEF Unsent, Inv, TypeOK, Threads
<1> QED
  BY <1>1, <1>3, <1>5, <1>6, <1>7 DEF Inv, Step, Service!Next

\* An answer that the reader finds goes from one place to another.
LEMMA RecvExecuteInv ==
  ASSUME Inv, NEW id \in Ids, RecvExecute(id)
  PROVE  Inv' /\ Step
<1>1. UNCHANGED <<pc, current, results, failed, inbox>> /\ hand = None
  BY DEF RecvExecute
<1>2. todo' \in [Ids -> Nat]
  BY DEF RecvExecute, Inv, TypeOK
<1>3. TypeOK'
  BY <1>1, <1>2 DEF RecvExecute, Inv, TypeOK, flags
<1>4. \/ id \in queries /\ queries' = queries \ {id} /\ hand' = id
      \/ UNCHANGED <<queries, hand>>
  BY DEF RecvExecute
<1>5. Known' = Known /\ inbox' = inbox
  BY <1>1, <1>4 DEF Known
<1>6. Apart' /\ Holding'
  BY <1>1, <1>4 DEF Inv, Apart, Holding
<1>7. Unsent'
  BY <1>1, <1>5 DEF Inv, Unsent
<1> QED
  BY <1>3, <1>5, <1>6, <1>7 DEF Inv, Step, Stays

LEMMA GiveUpInv ==
  ASSUME Inv, GiveUp
  PROVE  Inv' /\ Step
<1>1. /\ failed' = queries /\ queries' = {} /\ UNCHANGED <<results, hand, inbox, current>>
      /\ pc' = [pc EXCEPT !["restart"] = "deliver"] /\ failed = {}
  BY DEF GiveUp, Inv, Holding
<1>2. TypeOK'
  <2>1. pc' \in [Threads -> Places]
    BY <1>1, PlacesFacts DEF Inv, TypeOK
  <2>2. restart' = FALSE /\ UNCHANGED <<running, version, quit, proc, todo, asked, crashes, woken>>
    BY DEF GiveUp, process
  <2> QED
    BY <1>1, <2>1, <2>2 DEF Inv, TypeOK
<1>3. Known' = Known /\ inbox' = inbox
  BY <1>1 DEF Known
<1>4. Apart'
  BY <1>1 DEF Inv, Apart
<1>5. Holding' /\ pc'["main"] = pc["main"]
  BY <1>1 DEF Holding, Inv, TypeOK, Threads
<1>6. Unsent'
  BY <1>1, <1>3, <1>5 DEF Inv, Unsent
<1> QED
  BY <1>2, <1>3, <1>4, <1>5, <1>6 DEF Inv, Step, Stays

\* The other steps touch neither queries nor answers, and move no thread into
\* the start of the process but the restart thread.
LEMMA QuietInv ==
  ASSUME Inv, Quiet, TypeOK',
         pc'["main"] \notin Starting \cup {"send"} \/
           (pc'["main"] = pc["main"] /\ current' = current),
         pc["restart"] = "deliver" /\ failed # {} => pc'["restart"] = "deliver"
  PROVE  Inv' /\ Step
<1>1. Known' = Known /\ inbox' = inbox
  BY DEF Quiet, answers, Known
<1>2. Apart' /\ Holding'
  BY DEF Quiet, answers, Apart, Holding, Inv
<1>3. Unsent'
  BY <1>1 DEF Unsent, Inv
<1> QED
  BY <1>1, <1>2, <1>3 DEF Inv, Step, Stays

LEMMA CollectInv ==
  ASSUME Inv, NEW id \in Ids, Collect(id)
  PROVE  Inv' /\ Step
<1>1. Known' = Known /\ UNCHANGED <<queries, results, pc, current, failed, hand>>
      /\ inbox' = [inbox EXCEPT ![id] = 0]
  BY DEF Collect, Known
<1>2. TypeOK'
  BY <1>1 DEF Collect, Inv, TypeOK, flags, process
<1>3. Apart' /\ Holding'
  BY <1>1 DEF Inv, Apart, Holding
<1>4. Unsent'
  BY <1>1 DEF Inv, Unsent, TypeOK
<1>5. Service!Collect(id)
  BY <1>1 DEF Service!Collect, Collect
<1> QED
  BY <1>2, <1>3, <1>4, <1>5 DEF Inv, Step, Service!Next

LEMMA FinishedInv ==
  ASSUME Inv, Finished
  PROVE  Inv' /\ Step
<1>1. Quiet /\ current' = current
  BY DEF Finished, Quiet
<1>2. /\ pc' \in [Threads -> Places] /\ pc'["main"] = pc["main"]
      /\ pc["restart"] = "deliver" => pc'["restart"] = "deliver"
  BY RestartingPlaces DEF Finished, Inv, TypeOK
<1>3. woken' \subseteq Threads /\ todo' \in [Ids -> Nat]
  BY DEF Finished, WakeAll, Inv, TypeOK
<1>4. TypeOK'
  BY <1>1, <1>2, <1>3 DEF Finished, Inv, TypeOK, Quiet, answers
<1> QED
  BY <1>1, <1>2, <1>4, QuietInv

LEMMA SmallSteps ==
  ASSUME Inv,
         \/ EndRestart \/ AskQuit \/ CheckQuit \/ Joined \/ RecvVersion
         \/ RecvQuit \/ Crash \/ Exit \/ Reload
  PROVE  Inv' /\ Step
<1>1. Quiet /\ current' = current
  BY DEF EndRestart, AskQuit, CheckQuit, Joined, RecvVersion, RecvQuit, Crash,
         Exit, Reload, Quiet, answers
<1>2. pc' = pc \/ (EndRestart /\ pc' = [pc EXCEPT !["restart"] = "off"])
      \/ \E p \in {"quit", "off", "join", "close"} : pc' = [pc EXCEPT !["main"] = p]
  BY DEF EndRestart, AskQuit, CheckQuit, Joined, RecvVersion, RecvQuit, Crash,
         Exit, Reload
<1>3. /\ pc' \in [Threads -> Places]
      /\ pc'["main"] \notin Starting \cup {"send"} \/ pc'["main"] = pc["main"]
      /\ pc["restart"] = "deliver" /\ failed # {} => pc'["restart"] = "deliver"
  <2>1. CASE pc' = pc
    BY <2>1 DEF Inv, TypeOK
  <2>2. CASE EndRestart /\ pc' = [pc EXCEPT !["restart"] = "off"]
    BY <2>2, PlacesFacts DEF EndRestart, Inv, TypeOK, Threads
  <2>3. CASE \E p \in {"quit", "off", "join", "close"} : pc' = [pc EXCEPT !["main"] = p]
    <3>1. PICK p \in {"quit", "off", "join", "close"} : pc' = [pc EXCEPT !["main"] = p]
      BY <2>3
    <3> QED
      BY <3>1, PlacesFacts DEF Inv, TypeOK, Threads
  <2> QED
    BY <1>2, <2>1, <2>2, <2>3
<1>4. /\ running' \in BOOLEAN /\ restart' \in BOOLEAN
      /\ version' \in BOOLEAN /\ quit' \in BOOLEAN
  BY DEF EndRestart, AskQuit, CheckQuit, Joined, RecvVersion, RecvQuit, Crash,
         Exit, Reload, flags, Inv, TypeOK
<1>5. /\ todo' = todo /\ asked' \subseteq {"version", "quit"}
      /\ woken' \subseteq Threads
  BY DEF EndRestart, AskQuit, CheckQuit, Joined, RecvVersion, RecvQuit, Crash,
         Exit, Reload, process, WakeAll, Inv, TypeOK
<1>6. proc' \in {"none", "alive", "dead"}
  BY DEF EndRestart, AskQuit, CheckQuit, Joined, RecvVersion, RecvQuit, Crash,
         Exit, Reload, process, Killed, Inv, TypeOK
<1>7. crashes' \in 0 .. MaxCrashes
  BY DEF EndRestart, AskQuit, CheckQuit, Joined, RecvVersion, RecvQuit, Crash,
         Exit, Reload, process, Inv, TypeOK
<1>8. TypeOK'
  BY <1>1, <1>3, <1>4, <1>5, <1>6, <1>7 DEF Inv, TypeOK, Quiet, answers
<1> QED
  BY <1>1, <1>3, <1>8, QuietInv

LEMMA NextInv ==
  ASSUME Inv, [Next]_vars
  PROVE  Inv' /\ Step
<1>1. ASSUME NEW t \in Threads, Start(t) PROVE Inv' /\ Step
  BY <1>1, StartInv, StartQuiet DEF Step, Stays, Quiet, answers, Known
<1>2. CASE MainStep
  BY <1>1, <1>2, SendCurrentInv, ReturnInv, SmallSteps DEF MainStep, Threads
<1>3. CASE RestartStep
  BY <1>1, <1>3, GiveUpInv, SmallSteps, FailQueryInv DEF RestartStep, Threads
<1>4. CASE ReaderStep
  BY <1>4, SmallSteps, HandOverInv, FinishedInv DEF ReaderStep
<1>5. CASE Crash \/ Exit \/ Reload
  BY <1>5, SmallSteps
<1>6. CASE \E id \in Ids : RunAsync(id) \/ RunSync(id) \/ RecvExecute(id) \/ Collect(id)
  BY <1>6, RunAsyncInv, RunSyncInv, RecvExecuteInv, CollectInv
<1>7. CASE UNCHANGED vars
  <2>1. UNCHANGED <<flags, process, queries, answers, pc, current, woken>>
    BY <1>7 DEF vars, flags, process, answers
  <2>2. TypeOK'
    BY <2>1 DEF Inv, TypeOK, flags, process, answers
  <2> QED
    BY <2>1, <2>2, QuietInv DEF Quiet
<1> QED
  BY <1>2, <1>3, <1>4, <1>5, <1>6, <1>7 DEF Next

-----------------------------------------------------------------------------
(* A process that was executed is in the hands of a thread until every query *)
(* has been written to it; without such a thread, a query is accepted only   *)
(* together with its being written.                                          *)
Begun == {"ask", "version", "resend"}
Written == \A id \in queries : todo[id] > 0
AllWritten ==
  (running /\ proc = "alive" /\ \A t \in Threads : pc[t] \notin Begun) => Written

LEMMA SendWrites ==
  ASSUME TypeOK, NEW S, Send(S)
  PROVE  \A id \in Ids : (id \in S \/ todo[id] > 0) => todo'[id] > 0
BY DEF Send, TypeOK

\* The start of the process leaves its hands only dead or with every query.
LEMMA StartWrites ==
  ASSUME TypeOK, TypeOK', AllWritten, NEW t \in Threads, Start(t)
  PROVE  AllWritten'
<1>1. CASE ResetStart(t)
  BY <1>1 DEF ResetStart, AllWritten
<1>2. CASE Exec(t)
  <2>1. CASE pc' = [pc EXCEPT ![t] = "ask"]
    BY <2>1 DEF TypeOK, AllWritten, Begun
  <2>2. CASE Thrown(t) /\ UNCHANGED <<proc, todo, asked>>
    <3>1. UNCHANGED <<running, proc, todo, queries>>
      BY <1>2, <2>2 DEF Exec, flags
    <3>2. \A u \in Threads : pc[u] \in Begun => pc'[u] \in Begun
      BY <1>2, <2>2 DEF Exec, Thrown, TypeOK, Begun
    <3> QED
      BY <3>1, <3>2 DEF AllWritten, Written
  <2> QED
    BY <1>2, <2>1, <2>2 DEF Exec
<1>3. CASE AskVersion(t)
  BY <1>3 DEF AskVersion, TypeOK, AllWritten, Begun
<1>4. CASE CheckVersion(t)
  BY <1>4 DEF CheckVersion, Killed, TypeOK, AllWritten, Begun
<1>5. CASE Resend(t)
  <2>1. CASE proc' # "alive"
    BY <2>1 DEF AllWritten
  <2>2. CASE Send(queries)
    <3>1. Written'
      BY <1>5, <2>2, SendWrites DEF Resend, Written, TypeOK
    <3> QED
      BY <3>1 DEF AllWritten
  <2> QED
    BY <1>5, <2>1, <2>2 DEF Resend
<1> QED
  BY <1>1, <1>2, <1>3, <1>4, <1>5 DEF Start

\* A step that leaves the process, its queries and the threads in the start alone.
LEMMA QuietWrites ==
  ASSUME AllWritten, UNCHANGED <<running, todo, queries>>,
         proc' = "alive" => proc = "alive",
         \A u \in Threads : pc[u] \in Begun => pc'[u] \in Begun
  PROVE  AllWritten'
BY DEF AllWritten, Written

LEMMA RunWrites ==
  ASSUME TypeOK, TypeOK', AllWritten, NEW id \in Ids,
         RunAsync(id) \/ RunSync(id)
  PROVE  AllWritten'
<1>1. CASE running /\ proc = "alive"
  <2>1. Send({id}) /\ queries' = queries \cup {id} /\ UNCHANGED <<running, proc>>
    BY <1>1 DEF RunAsync, RunSync, flags
  <2>2. \A u \in Threads : pc[u] \in Begun => pc'[u] \in Begun
    BY <1>1 DEF RunAsync, RunSync, TypeOK, Begun, Threads
  <2>3. Written => Written'
    BY <2>1, SendWrites DEF Written, TypeOK
  <2> QED
    BY <2>1, <2>2, <2>3 DEF AllWritten
<1>2. CASE ~running
  BY <1>2 DEF RunAsync, RunSync, flags, AllWritten
<1> QED
  BY <1>1, <1>2 DEF RunAsync, RunSync

LEMMA SendCurrentWrites ==
  ASSUME TypeOK, TypeOK', AllWritten, SendCurrent
  PROVE  AllWritten'
<1>1. UNCHANGED <<running, proc>>
  BY DEF SendCurrent, flags
<1>2. \A u \in Threads : pc[u] \in Begun => pc'[u] \in Begun
  BY DEF SendCurrent, Thrown, TypeOK, Begun, Threads
<1>3. CASE proc = "alive"
  <2>1. Written => Written'
    BY <1>3, SendWrites DEF SendCurrent, Written, TypeOK
  <2> QED
    BY <1>1, <1>2, <2>1 DEF AllWritten
<1>4. CASE proc # "alive"
  BY <1>1, <1>4 DEF AllWritten
<1> QED
  BY <1>3, <1>4

LEMMA RecvExecuteWrites ==
  ASSUME TypeOK, AllWritten, NEW id \in Ids, RecvExecute(id)
  PROVE  AllWritten'
<1>1. UNCHANGED <<running, proc, pc>> /\ todo' = [todo EXCEPT ![id] = @ - 1]
      /\ queries' \subseteq queries /\ id \notin queries'
  BY DEF RecvExecute, flags
<1>2. \A x \in queries' : x \in queries /\ todo'[x] = todo[x]
  BY <1>1 DEF TypeOK
<1> QED
  BY <1>1, <1>2 DEF AllWritten, Written

LEMMA NextWrites ==
  ASSUME TypeOK, TypeOK', AllWritten, [Next]_vars
  PROVE  AllWritten'
<1>1. CASE Start("main") \/ Start("restart")
  BY <1>1, StartWrites DEF Threads
<1>2. CASE SendCurrent
  BY <1>2, SendCurrentWrites
<1>3. CASE Return \/ EndRestart
  BY <1>3, QuietWrites DEF Return, EndRestart, flags, process, TypeOK, Begun, Threads
<1>4. CASE AskQuit \/ CheckQuit \/ Joined
  BY <1>4, QuietWrites DEF AskQuit, CheckQuit, Joined, flags, process, Killed,
                           TypeOK, Begun, Threads
<1>5. CASE GiveUp
  BY <1>5 DEF GiveUp, AllWritten, Written
<1>6. CASE HandOver \/ \E id \in Ids : FailQuery(id) \/ Collect(id)
  BY <1>6, QuietWrites DEF HandOver, FailQuery, Collect, flags, process
<1>7. CASE RecvVersion \/ RecvQuit \/ Crash \/ Exit
  BY <1>7, QuietWrites DEF RecvVersion, RecvQuit, Crash, Exit, flags
<1>8. CASE Finished
  BY <1>8 DEF Finished, AllWritten
<1>9. CASE Reload \/ UNCHANGED vars
  BY <1>9, QuietWrites DEF Reload, vars, flags, process, TypeOK, Begun, Threads
<1>10. CASE \E id \in Ids : RunAsync(id) \/ RunSync(id) \/ RecvExecute(id)
  BY <1>10, RunWrites, RecvExecuteWrites
<1> QED
  BY <1>1, <1>2, <1>3, <1>4, <1>5, <1>6, <1>7, <1>8, <1>9, <1>10
  DEF Next, MainStep, RestartStep, ReaderStep

-----------------------------------------------------------------------------
\* The variables keep their types.
THEOREM TypeCorrect == Spec => []TypeOK
<1>1. Inv /\ [Next]_vars => Inv'
  BY NextInv
<1>2. Inv => TypeOK
  BY DEF Inv
<1> QED
  BY InitInv, <1>1, <1>2, PTL DEF Spec

\* Whatever crashes and whichever threads start the process at once, a query
\* that was accepted stays pending until it is answered, once, and nothing
\* else is answered.
THEOREM ServiceKept == Spec => ServiceSpec
<1>1. Init => Service!Init
  BY DEF Init, Service!Init, Known
<1>2. Inv /\ [Next]_vars => Inv'
  BY NextInv
<1>3. Inv /\ [Next]_vars => [Service!Next]_(Service!vars)
  BY NextInv DEF Step, Stays, Service!vars
<1> QED
  BY InitInv, <1>1, <1>2, <1>3, PTL DEF Spec, ServiceSpec, Service!Spec

\* Once no thread is starting the process, a living process has been sent every
\* query that waits for an answer: the restart thread and run may both be in
\* _connector_start, the process may end at any point of it, and queries come in
\* meanwhile, but none is accepted and forgotten.
THEOREM NoQueryForgotten == Spec => []EveryQuerySent
<1>1. Init => AllWritten
  BY DEF Init, AllWritten
<1>2. Inv /\ AllWritten /\ [Next]_vars => Inv' /\ AllWritten'
  <2> SUFFICES ASSUME Inv, AllWritten, [Next]_vars PROVE Inv' /\ AllWritten'
    OBVIOUS
  <2>1. Inv'
    BY NextInv
  <2>2. AllWritten'
    BY <2>1, NextWrites DEF Inv
  <2> QED
    BY <2>1, <2>2
<1>3. AllWritten => EveryQuerySent
  BY DEF AllWritten, Written, EveryQuerySent, Begun, Starting
<1> QED
  BY InitInv, <1>1, <1>2, <1>3, PTL DEF Spec

=============================================================================
