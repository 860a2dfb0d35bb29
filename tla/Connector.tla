----------------------------- MODULE Connector -----------------------------
(***************************************************************************)
(* A connector (src/commands/connector.cc): one long-lived process that    *)
(* executes checks on behalf of the engine.  Three threads share its state *)
(* under one mutex: the main thread, which runs commands with and without  *)
(* waiting for the answer and changes the command line on reload; the      *)
(* thread of the process manager, which reads the answers of the process   *)
(* and learns its end; and the restart thread.  One action is one section  *)
(* of code under _lock, or one call of the process between two sections.   *)
(*                                                                         *)
(* The process and the process and thread classes of the common library    *)
(* are external: writing to a process that ended fails, executing a        *)
(* process that runs fails, wait(0) says whether a thread has ended, the   *)
(* output of a process is read before its end is reported.                 *)
(***************************************************************************)
EXTENDS Naturals, FiniteSets

CONSTANTS
  Ids,         \* bound: command ids; one is reused once it is forgotten
  Sync,        \* those of the queries whose answer is waited for
  None,
  MaxCrashes,  \* bound: how often the process ends by itself
  Features     \* what the process and the configuration do in a run

AllFeatures == {"noexec", "version", "slow", "reload"}

ASSUME ConnectorAssumption ==
  /\ IsFiniteSet(Ids) /\ Sync \subseteq Ids /\ None \notin Ids
  /\ MaxCrashes \in Nat
  /\ Features \subseteq AllFeatures

VARIABLES
  running,   \* _is_running
  restart,   \* _try_to_restart
  version,   \* _query_version_ok
  quit,      \* _query_quit_ok
  queries,   \* _queries
  results,   \* _results: answers of queries that are waited for
  proc,      \* the process: none, alive, or dead and not noticed yet
  todo,      \* [Ids -> Nat]: queries written to the process, not answered
  asked,     \* versions and quits written to the process, not answered
  pc,        \* [Threads -> where the thread is]
  current,   \* the query the main thread runs and waits for
  failed,    \* tmp_queries of the restart thread
  hand,      \* the query whose answer the reader has in its hands
  woken,     \* threads woken from their wait on _cv_query
  inbox,     \* answers the engine received and has not handled yet
  crashes

vars == <<running, restart, version, quit, queries, results, proc, todo, asked,
          pc, current, failed, hand, woken, inbox, crashes>>
flags == <<running, restart, version, quit>>
process == <<proc, todo, asked, crashes>>
answers == <<results, failed, hand, inbox>>

Threads == {"main", "restart"}
Starting == {"reset", "exec", "ask", "version", "resend"}
Places == Starting \cup
          {"off", "send", "result", "close", "quit", "join",  \* main thread
           "fail", "deliver", "end"}                         \* restart thread

On(f) == f \in Features
Known == queries \cup results \cup failed \cup ({hand} \ {None})
Fresh(id) == /\ id \notin Known /\ id # current
             /\ inbox[id] = 0 /\ todo[id] = 0

Init ==
  /\ running = FALSE /\ restart = TRUE /\ version = FALSE /\ quit = FALSE
  /\ queries = {} /\ results = {} /\ failed = {} /\ hand = None
  /\ proc = "none" /\ todo = [id \in Ids |-> 0] /\ asked = {}
  /\ pc = [t \in Threads |-> "off"] /\ current = None /\ woken = {}
  /\ inbox = [id \in Ids |-> 0] /\ crashes = 0

-----------------------------------------------------------------------------
WakeAll == woken' = {t \in Threads : pc[t] \in {"version", "quit"}}

\* _send_query_execute, to a process that runs
Send(S) == todo' = [id \in Ids |-> IF id \in S THEN todo[id] + 1 ELSE todo[id]]

\* the main thread's exception leaves run; the restart thread catches its own
Thrown(t) ==
  IF t = "main" THEN pc' = [pc EXCEPT ![t] = "off"] /\ current' = None
                ELSE pc' = [pc EXCEPT ![t] = "fail"] /\ UNCHANGED current

\* _restart.exec(), if wait(0) says that the last restart has ended
Restarting == IF pc["restart"] = "off" THEN [pc EXCEPT !["restart"] = "reset"] ELSE pc

(* run without waiting: a query for a process that does not run is kept for  *)
(* the restart thread.  Where run throws nothing has changed.                *)
RunAsync(id) ==
  /\ pc["main"] = "off" /\ id \notin Sync /\ Fresh(id)
  /\ \/ /\ ~running /\ restart
        /\ pc' = Restarting
        /\ UNCHANGED todo
     \/ /\ running /\ proc = "alive"
        /\ Send({id})
        /\ UNCHANGED pc
  /\ queries' = queries \cup {id}
  /\ UNCHANGED <<flags, proc, asked, crashes, current, answers, woken>>

(* run and wait: the main thread starts the process itself.                  *)
RunSync(id) ==
  /\ pc["main"] = "off" /\ id \in Sync /\ Fresh(id)
  /\ \/ /\ ~running /\ restart
        /\ pc' = [pc EXCEPT !["main"] = "reset"]
        /\ UNCHANGED <<todo, queries>>
     \/ /\ running /\ proc = "alive"
        /\ pc' = [pc EXCEPT !["main"] = "result"]
        /\ Send({id}) /\ queries' = queries \cup {id}
  /\ current' = id
  /\ UNCHANGED <<flags, proc, asked, crashes, answers, woken>>

\* the end of that run when the process had to be started
SendCurrent ==
  /\ pc["main"] = "send"
  /\ \/ /\ proc = "alive"
        /\ Send({current}) /\ queries' = queries \cup {current}
        /\ pc' = [pc EXCEPT !["main"] = "result"]
        /\ UNCHANGED current
     \/ /\ proc # "alive"
        /\ Thrown("main")
        /\ UNCHANGED <<todo, queries>>
  /\ UNCHANGED <<flags, proc, asked, crashes, answers, woken>>

Return ==
  /\ pc["main"] = "result" /\ current \in results
  /\ results' = results \ {current}
  /\ inbox' = [inbox EXCEPT ![current] = @ + 1]
  /\ pc' = [pc EXCEPT !["main"] = "off"]
  /\ current' = None
  /\ UNCHANGED <<flags, process, queries, failed, hand, woken>>

-----------------------------------------------------------------------------
(* _connector_start, by the main or the restart thread                       *)
ResetStart(t) ==
  /\ pc[t] = "reset"
  /\ running' = FALSE /\ version' = FALSE /\ quit' = FALSE
  /\ pc' = [pc EXCEPT ![t] = "exec"]
  /\ UNCHANGED <<restart, process, queries, current, answers, woken>>

Exec(t) ==
  /\ pc[t] = "exec"
  /\ \/ /\ proc = "none"
        /\ proc' = "alive" /\ todo' = [id \in Ids |-> 0] /\ asked' = {}
        /\ pc' = [pc EXCEPT ![t] = "ask"]
        /\ UNCHANGED current
     \/ /\ proc # "none" \/ On("noexec")
        /\ Thrown(t)
        /\ UNCHANGED <<proc, todo, asked>>
  /\ UNCHANGED <<flags, crashes, queries, answers, woken>>

AskVersion(t) ==
  /\ pc[t] = "ask"
  /\ \/ /\ proc = "alive"
        /\ asked' = asked \cup {"version"}
        /\ woken' = woken \ {t}
        /\ pc' = [pc EXCEPT ![t] = "version"]
        /\ UNCHANGED current
     \/ /\ proc # "alive"
        /\ Thrown(t)
        /\ UNCHANGED <<asked, woken>>
  /\ UNCHANGED <<flags, proc, todo, crashes, queries, answers>>

Killed == IF proc = "alive" THEN "dead" ELSE proc

\* the wait ends: any wake-up ends it, and so does its timeout
Awake(t) == t \in woken \/ On("slow") \/ proc # "alive"

CheckVersion(t) ==
  /\ pc[t] = "version" /\ Awake(t)
  /\ woken' = woken \ {t}
  /\ \/ /\ t \in woken /\ version
        /\ running' = TRUE
        /\ pc' = [pc EXCEPT ![t] = "resend"]
        /\ UNCHANGED <<restart, proc, current>>
     \/ /\ t \notin woken \/ ~version
        /\ proc' = Killed /\ restart' = FALSE
        /\ Thrown(t)
        /\ UNCHANGED running
  /\ UNCHANGED <<version, quit, todo, asked, crashes, queries, answers>>

Mutant_Resend(t) ==
  /\ pc[t] = "resend"
  /\ pc' = [pc EXCEPT ![t] = IF t = "main" THEN "send" ELSE "end"]
  /\ UNCHANGED <<flags, process, queries, current, answers, woken>>
\* every query is written again, also one just sent by run
Resend(t) ==
  /\ pc[t] = "resend"
  /\ \/ /\ proc = "alive" \/ queries = {}
        /\ Send(queries)
        /\ pc' = [pc EXCEPT ![t] = IF t = "main" THEN "send" ELSE "end"]
        /\ UNCHANGED <<proc, crashes, current>>
     \/ /\ proc # "alive" /\ queries # {}
        /\ Thrown(t)
        /\ UNCHANGED <<proc, crashes, todo>>
     \/ /\ proc = "alive" /\ crashes < MaxCrashes   \* it ends meanwhile
        /\ proc' = "dead" /\ crashes' = crashes + 1
        /\ \E S \in SUBSET queries : S # queries /\ Send(S)
        /\ Thrown(t)
  /\ UNCHANGED <<flags, asked, queries, answers, woken>>

-----------------------------------------------------------------------------
(* The restart thread: what it does when the start failed, and its end.      *)
GiveUp ==
  /\ pc["restart"] = "fail"
  /\ restart' = FALSE
  /\ failed' = queries /\ queries' = {}
  /\ pc' = [pc EXCEPT !["restart"] = "deliver"]
  /\ UNCHANGED <<running, version, quit, process, current, results, hand,
                 woken, inbox>>

Mutant_Deliver(id) == results' = results \cup {id} /\ WakeAll /\ UNCHANGED inbox
\* an answer goes to the listener, or to the thread that waits for it
Deliver(id) ==
  IF id \in Sync
  THEN results' = results \cup {id} /\ WakeAll /\ UNCHANGED inbox
  ELSE inbox' = [inbox EXCEPT ![id] = @ + 1] /\ UNCHANGED <<results, woken>>

FailQuery(id) ==
  /\ pc["restart"] = "deliver" /\ id \in failed
  /\ failed' = failed \ {id}
  /\ Deliver(id)
  /\ UNCHANGED <<flags, process, queries, pc, current, hand>>

EndRestart ==
  /\ \/ pc["restart"] = "deliver" /\ failed = {}
     \/ pc["restart"] = "end"
  /\ pc' = [pc EXCEPT !["restart"] = "off"]
  /\ UNCHANGED <<flags, process, queries, current, answers, woken>>

-----------------------------------------------------------------------------
(* The reader: data_is_available and finished.                               *)
RecvVersion ==
  /\ proc # "none" /\ hand = None /\ "version" \in asked
  /\ asked' = asked \ {"version"}
  /\ \E ok \in BOOLEAN : (ok \/ On("version")) /\ version' = ok
  /\ WakeAll
  /\ UNCHANGED <<running, restart, quit, proc, todo, crashes, queries, pc,
                 current, answers>>

Mutant_RecvExecute(id) ==
  /\ proc # "none" /\ hand = None /\ todo[id] > 0
  /\ todo' = [todo EXCEPT ![id] = @ - 1]
  /\ queries' = queries \ {id} /\ hand' = id
  /\ UNCHANGED <<flags, proc, asked, crashes, pc, current, results, failed,
                 woken, inbox>>
\* an answer nobody waits for is ignored
RecvExecute(id) ==
  /\ proc # "none" /\ hand = None /\ todo[id] > 0
  /\ todo' = [todo EXCEPT ![id] = @ - 1]
  /\ \/ id \in queries /\ queries' = queries \ {id} /\ hand' = id
     \/ id \notin queries /\ UNCHANGED <<queries, hand>>
  /\ UNCHANGED <<flags, proc, asked, crashes, pc, current, results, failed,
                 woken, inbox>>

HandOver ==
  /\ hand # None
  /\ hand' = None
  /\ Deliver(hand)
  /\ UNCHANGED <<flags, process, queries, pc, current, failed>>

RecvQuit ==
  /\ proc # "none" /\ hand = None /\ "quit" \in asked
  /\ asked' = asked \ {"quit"}
  /\ quit' = TRUE
  /\ WakeAll
  /\ UNCHANGED <<running, restart, version, proc, todo, crashes, queries, pc,
                 current, answers>>

Finished ==
  /\ proc = "dead" /\ hand = None
  /\ proc' = "none" /\ todo' = [id \in Ids |-> 0] /\ asked' = {}
  /\ running' = FALSE
  /\ \/ restart /\ pc' = Restarting /\ UNCHANGED woken
     \/ ~restart /\ WakeAll /\ UNCHANGED pc
  /\ UNCHANGED <<restart, version, quit, crashes, queries, current, answers>>

-----------------------------------------------------------------------------
(* set_command_line, when the configuration is reloaded: the process is      *)
(* asked to quit, and killed if it does not answer in time.                  *)
Reload ==
  /\ On("reload") /\ pc["main"] = "off" /\ pc["restart"] = "off" /\ running
  /\ pc' = [pc EXCEPT !["main"] = "close"]
  /\ UNCHANGED <<flags, process, queries, current, answers, woken>>

AskQuit ==
  /\ pc["main"] = "close"
  /\ restart' = FALSE /\ quit' = FALSE
  /\ \/ /\ proc = "alive"
        /\ asked' = asked \cup {"quit"}
        /\ woken' = woken \ {"main"}
        /\ pc' = [pc EXCEPT !["main"] = "quit"]
     \/ /\ proc # "alive"
        /\ pc' = [pc EXCEPT !["main"] = "off"]
        /\ UNCHANGED <<asked, woken>>
  /\ UNCHANGED <<running, version, proc, todo, crashes, queries, current, answers>>

CheckQuit ==
  /\ pc["main"] = "quit" /\ Awake("main")
  /\ proc' = IF "main" \in woken /\ quit THEN proc ELSE Killed
  /\ woken' = woken \ {"main"}
  /\ pc' = [pc EXCEPT !["main"] = "join"]
  /\ UNCHANGED <<flags, todo, asked, crashes, queries, current, answers>>

Joined ==
  /\ pc["main"] = "join" /\ proc = "none"
  /\ pc' = [pc EXCEPT !["main"] = "off"]
  /\ UNCHANGED <<flags, process, queries, current, answers, woken>>

-----------------------------------------------------------------------------
(* The process may end at any time, and does when it was asked to quit.      *)
Crash ==
  /\ proc = "alive" /\ crashes < MaxCrashes
  /\ proc' = "dead" /\ crashes' = crashes + 1
  /\ UNCHANGED <<flags, todo, asked, queries, pc, current, answers, woken>>

Exit ==
  /\ proc = "alive" /\ pc["main"] \in {"quit", "join"} /\ quit
  /\ proc' = "dead"
  /\ UNCHANGED <<flags, todo, asked, crashes, queries, pc, current, answers, woken>>

\* the engine handles an answer
Collect(id) ==
  /\ inbox[id] > 0
  /\ inbox' = [inbox EXCEPT ![id] = 0]
  /\ UNCHANGED <<flags, process, queries, results, pc, current, failed, hand, woken>>

Start(t) == \/ ResetStart(t) \/ Exec(t) \/ AskVersion(t)
            \/ CheckVersion(t) \/ Resend(t)
MainStep == Start("main") \/ SendCurrent \/ Return
            \/ AskQuit \/ CheckQuit \/ Joined
RestartStep == Start("restart") \/ GiveUp \/ EndRestart
               \/ \E id \in Ids : FailQuery(id)
ReaderStep == RecvVersion \/ RecvQuit \/ HandOver \/ Finished

Next ==
  \/ MainStep \/ RestartStep \/ ReaderStep \/ Crash \/ Exit \/ Reload
  \/ \E id \in Ids : RunAsync(id) \/ RunSync(id) \/ RecvExecute(id) \/ Collect(id)

Spec == Init /\ [][Next]_vars

(* Every thread goes on when it can and a process that lives answers what it *)
(* is asked; the checks of a service are run again and again, so queries     *)
(* keep coming as long as the connector and the main thread take them; a     *)
(* process that cannot be executed for the moment can be in the end.         *)
FairSpec ==
  /\ Spec
  /\ WF_vars(MainStep) /\ WF_vars(RestartStep) /\ WF_vars(ReaderStep)
  /\ WF_vars(Exit) /\ SF_vars(Exec("main") /\ proc' = "alive")
  /\ \A id \in Ids : /\ SF_vars(RecvExecute(id)) /\ WF_vars(Collect(id))
                     /\ SF_vars(RunAsync(id))

-----------------------------------------------------------------------------
TypeOK ==
  /\ running \in BOOLEAN /\ restart \in BOOLEAN
  /\ version \in BOOLEAN /\ quit \in BOOLEAN
  /\ queries \subseteq Ids /\ results \subseteq Sync /\ failed \subseteq Ids
  /\ hand \in Ids \cup {None} /\ current \in Sync \cup {None}
  /\ proc \in {"none", "alive", "dead"}
  /\ todo \in [Ids -> Nat] /\ asked \subseteq {"version", "quit"}
  /\ pc \in [Threads -> Places] /\ woken \subseteq Threads
  /\ inbox \in [Ids -> Nat] /\ crashes \in 0 .. MaxCrashes

(* Restarts, failed starts, doubly sent queries and late answers keep the    *)
(* promise of a command service.                                             *)
Service == INSTANCE CommandService WITH pending <- Known
ServiceSpec == Service!Spec

(* Once no thread is starting the process, a living process has been sent    *)
(* every query that waits for an answer: none was accepted between a restart *)
(* and the moment queries are written again and then forgotten.              *)
EveryQuerySent ==
  (running /\ proc = "alive" /\ \A t \in Threads : pc[t] \notin Starting)
    => \A id \in queries : todo[id] > 0

(* A query is answered in the end, whatever crashes: by the process, by the  *)
(* restart thread that gives up, or after the restart that a later query     *)
(* brings about (the bound Ids leaves an id for one).  It may stay           *)
(* unanswered only if the connector has become unusable, which a failed      *)
(* start and any reload of a running connector make it for good (restart),   *)
(* or the main thread, which would send that later query, waits itself for   *)
(* an answer.                                                                *)
Answered ==
  []<>(\E id \in Ids \ Sync : Fresh(id)) =>
    \A id \in Ids :
      id \in queries ~> id \notin queries \/ ~restart \/ pc["main"] = "result"
=============================================================================
