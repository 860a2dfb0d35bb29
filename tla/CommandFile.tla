---------------------------- MODULE CommandFile ----------------------------
(***************************************************************************)
(* External commands on their way from the command file to the engine      *)
(* (modules/external_commands/src/utils.cc and commands.cc).  Programs     *)
(* write lines into a named pipe; a worker thread of the engine reads them *)
(* and puts them into a circular buffer, from which the main thread takes  *)
(* them when a command check event runs.  Results of passive checks do not *)
(* take that way: the worker executes them at once, which queues a result  *)
(* for the reaper of the main thread.                                      *)
(*                                                                         *)
(* One action is one call that blocks, or one section under a mutex.  The  *)
(* pipe and the buffered stream that reads it are external: fgets hands    *)
(* out what the stream has buffered before it reads the pipe again, a read *)
(* moves what has arrived, and poll looks at the pipe only.                *)
(***************************************************************************)
EXTENDS Naturals, FiniteSets, SequencesExt

CONSTANTS
  Commands,   \* bound: lines written, each once
  Safe,       \* those executed by the worker: results of passive checks
  Refused,    \* those of them that are for nobody: the host or the service is
              \* unknown, or takes no passive results
  Slots,      \* external_command_buffer_slots
  None

ASSUME CommandFileAssumption ==
  /\ IsFiniteSet(Commands) /\ Safe \subseteq Commands /\ None \notin Commands
  /\ Refused \subseteq Safe
  /\ Slots \in Nat \ {0}

VARIABLES
  sent,       \* history: the lines in the order they were written
  fifo,       \* the pipe
  stream,     \* lines read from the pipe that fgets has not handed out
  line,       \* input_buffer of the worker
  worker,     \* where the worker is
  ring,       \* external_command_buffer.buffer
  head,
  tail,
  items,
  main,       \* where the main thread is
  command,    \* the command the main thread took
  results,    \* _to_reap of the checker
  done        \* history: what the main thread executed or reaped

vars == <<sent, fifo, stream, line, worker, ring, head, tail, items,
          main, command, results, done>>
input == <<fifo, stream, line, worker>>
buffer == <<ring, head, tail, items>>
handling == <<main, command, done>>

Init ==
  /\ sent = <<>> /\ fifo = <<>> /\ stream = <<>> /\ line = None
  /\ worker = "poll"
  /\ ring = [i \in 0..(Slots - 1) |-> None]
  /\ head = 0 /\ tail = 0 /\ items = 0
  /\ main = "loop" /\ command = None
  /\ results = <<>> /\ done = <<>>

Write(c) ==
  /\ c \notin ToSet(sent)
  /\ sent' = Append(sent, c) /\ fifo' = Append(fifo, c)
  /\ UNCHANGED <<stream, line, worker, buffer, results, handling>>

-----------------------------------------------------------------------------
(* The worker thread. *)

Poll ==
  /\ worker = "poll" /\ fifo # <<>>
  /\ worker' = "count"
  /\ UNCHANGED <<sent, fifo, stream, line, buffer, results, handling>>

\* reads items under the lock; a full buffer sends it back to poll
Count ==
  /\ worker = "count"
  /\ worker' = IF items < Slots THEN "read" ELSE "poll"
  /\ UNCHANGED <<sent, fifo, stream, line, buffer, results, handling>>

\* fgets finds a line in the stream
GetLine ==
  /\ worker = "read" /\ stream # <<>>
  /\ line' = Head(stream) /\ stream' = Tail(stream)
  /\ worker' = "line"
  /\ UNCHANGED <<sent, fifo, buffer, results, handling>>

\* fgets fills the stream first; its buffer may hold less than has arrived
Fill(n) ==
  /\ worker = "read" /\ stream = <<>> /\ n \in 1..Len(fifo)
  /\ stream' = SubSeq(fifo, 1, n) /\ fifo' = SubSeq(fifo, n + 1, Len(fifo))
  /\ UNCHANGED <<sent, line, worker, buffer, results, handling>>

\* fgets returns NULL: the pipe would block
NoLine ==
  /\ worker = "read" /\ stream = <<>> /\ fifo = <<>>
  /\ worker' = "poll"
  /\ UNCHANGED <<sent, fifo, stream, line, buffer, results, handling>>

\* a thread-safe command is executed: its result goes to the reaper, unless
\* it is refused
Execute ==
  /\ worker = "line" /\ line \in Safe
  /\ results' = IF line \in Refused THEN results ELSE Append(results, line)
  /\ line' = None /\ worker' = "read"
  /\ UNCHANGED <<sent, fifo, stream, buffer, handling>>

Mutant_Submit ==
  /\ worker = "line" /\ line \notin Safe /\ items < Slots
  /\ ring' = [ring EXCEPT ![head] = line]
  /\ head' = (head + 1) % (Slots + 1) /\ items' = items + 1
  /\ line' = None
  /\ worker' = IF items' = Slots THEN "poll" ELSE "read"
  /\ UNCHANGED <<sent, fifo, stream, tail, results, handling>>

\* submit_external_command, tried again as long as the buffer is full; the
\* worker leaves the stream alone once its own command filled the buffer
Submit ==
  /\ worker = "line" /\ line \notin Safe /\ items < Slots
  /\ ring' = [ring EXCEPT ![head] = line]
  /\ head' = (head + 1) % Slots /\ items' = items + 1
  /\ line' = None
  /\ worker' = IF items' = Slots THEN "poll" ELSE "read"
  /\ UNCHANGED <<sent, fifo, stream, tail, results, handling>>

Worker == \/ Poll \/ Count \/ GetLine \/ NoLine \/ Execute \/ Submit
          \/ \E n \in 1..Len(fifo) : Fill(n)

-----------------------------------------------------------------------------
(* The main thread: command check events, and the reaper. *)

CheckCommands ==
  /\ main = "loop" /\ main' = "commands"
  /\ UNCHANGED <<sent, input, buffer, command, results, done>>

Mutant_Take ==
  /\ main = "commands" /\ items > 0
  /\ command' = ring[tail] /\ ring' = [ring EXCEPT ![tail] = None]
  /\ tail' = (tail + 1) % Slots /\ items' = items - 1
  /\ main' = "loop"
  /\ UNCHANGED <<sent, input, head, results, done>>

Take ==
  /\ main = "commands" /\ items > 0
  /\ command' = ring[tail] /\ ring' = [ring EXCEPT ![tail] = None]
  /\ tail' = (tail + 1) % Slots /\ items' = items - 1
  /\ main' = "process"
  /\ UNCHANGED <<sent, input, head, results, done>>

Mutant_NoItem ==
  /\ main = "commands" /\ items = 0
  /\ main' = "commands"
  /\ UNCHANGED <<sent, input, buffer, command, results, done>>

NoItem ==
  /\ main = "commands" /\ items = 0
  /\ main' = "loop"
  /\ UNCHANGED <<sent, input, buffer, command, results, done>>

Process ==
  /\ main = "process"
  /\ done' = Append(done, command)
  /\ command' = None /\ main' = "commands"
  /\ UNCHANGED <<sent, input, buffer, results>>

StartReaping ==
  /\ main = "loop" /\ main' = "reap"
  /\ UNCHANGED <<sent, input, buffer, command, results, done>>

\* one result; the reaper goes on unless max_check_reaper_time is over
Reap ==
  /\ main = "reap" /\ results # <<>>
  /\ done' = Append(done, Head(results)) /\ results' = Tail(results)
  /\ main' \in {"reap", "loop"}
  /\ UNCHANGED <<sent, input, buffer, command>>

NoResult ==
  /\ main = "reap" /\ results = <<>>
  /\ main' = "loop"
  /\ UNCHANGED <<sent, input, buffer, command, results, done>>

Main == \/ CheckCommands \/ Take \/ NoItem \/ Process
        \/ StartReaping \/ Reap \/ NoResult

Next == Worker \/ Main \/ \E c \in Commands : Write(c)

Spec == Init /\ [][Next]_vars

\* both threads run on; the events of commands and of the reaper recur
FairSpec == Spec /\ WF_vars(Worker) /\ WF_vars(Main)
                 /\ SF_vars(CheckCommands) /\ SF_vars(StartReaping)

-----------------------------------------------------------------------------
\* The variables have their types.
TypeOK ==
  /\ sent \in Seq(Commands) /\ fifo \in Seq(Commands)
  /\ stream \in Seq(Commands) /\ line \in Commands \cup {None}
  /\ worker \in {"poll", "count", "read", "line"}
  /\ worker = "line" <=> line # None
  /\ ring \in [0..(Slots - 1) -> Commands \cup {None}]
  /\ head \in 0..(Slots - 1) /\ tail \in 0..(Slots - 1) /\ items \in 0..Slots
  /\ main \in {"loop", "commands", "process", "reap"}
  /\ main = "process" <=> command # None
  /\ command \in Commands \cup {None}
  /\ results \in Seq(Commands) /\ done \in Seq(Commands)

\* the commands that wait in the buffer, the oldest first
Contents == [i \in 1..items |-> ring[(tail + i - 1) % Slots]]

\* The buffer is a bounded first-in first-out queue for its two threads: the
\* indices head and tail, each moved by one of them, and the counter items
\* never lose, repeat or reorder a command, not even where the indices wrap
\* or the buffer is full.
Queue == INSTANCE BoundedQueue WITH queue <- Contents
QueueSpec == Queue!Spec

Opt(x) == IF x = None THEN <<>> ELSE <<x>>

\* the elements of s that are in S
Of(s, S) ==
  LET of[n \in 0..Len(s)] ==
        IF n = 0 THEN <<>>
        ELSE IF s[n] \in S THEN Append(of[n - 1], s[n]) ELSE of[n - 1]
  IN  of[Len(s)]

\* Every line written is executed, or on its way, exactly once, and the lines
\* of each kind keep the order they were written in, from the pipe through the
\* stream, the worker, the buffer or the reaper's queue to the main thread.
\* Results of passive checks may overtake other commands, never each other;
\* one that is refused leaves no trace and disturbs no other.
InOrder ==
  LET read == Opt(line) \o stream \o fifo
      Other == Commands \ Safe
      Passive == Safe \ Refused
  IN /\ Of(sent, Other) =
          Of(done, Other) \o Opt(command) \o Contents \o Of(read, Other)
     /\ Of(sent, Passive) = Of(done, Passive) \o results \o Of(read, Passive)

\* The worker empties the pipe in the end, however often the buffer was full,
\* and the main thread executes whatever the worker put into the buffer or
\* into the reaper's queue.  The stream between the two is left out: when its
\* own command fills the buffer, the worker leaves the lines there and waits
\* for the pipe, so that they are stranded until somebody writes again.
Delivered ==
  \A c \in Commands :
    /\ c \in ToSet(fifo) ~> c \notin ToSet(fifo)
    /\ c \in ToSet(Contents \o results) ~> c \in ToSet(done)
=============================================================================
