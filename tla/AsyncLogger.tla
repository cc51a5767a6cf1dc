----------------------------- MODULE AsyncLogger -----------------------------
(****************************************************************************)
(* The logger of include/utils/AsyncLogger.hpp over its ring of messages.   *)
(*                                                                          *)
(* Threads that log push; a worker thread pops and writes; the thread that  *)
(* owns the logger starts, flushes and stops it, and pops as well when it   *)
(* flushes.  A line written stays in its stream's buffer until the buffer   *)
(* lets it go, or the stream is flushed or closed.  The logger flushes and  *)
(* closes the file it has opened; it never flushes std::cout.  Formatting   *)
(* is left out.                                                             *)
(****************************************************************************)
EXTENDS SPSCQueue

CONSTANTS
  Main,              \* the thread that owns the logger
  Worker,            \* log_thread_
  Paths,             \* what start is asked for: "stdout", "file" or "bad path"
  FlushWhileRunning, \* whether the owner calls flush() while the worker runs
  LogWhileStopping,  \* whether a call of log() may overlap stop()
  Levels,            \* what setLevel is called with
  Logged,            \* what log is called with
  MaxStarts          \* bound: number of calls of start that start the worker

INFO == 2   \* of LogLevel, TRACE = 0 to FATAL = 5

ASSUME AsyncLoggerAssumption ==
  /\ Consumers = {Main, Worker} /\ Main # Worker
  /\ Paths \subseteq {"stdout", "file", "bad path"}
  /\ FlushWhileRunning \in BOOLEAN /\ LogWhileStopping \in BOOLEAN
  /\ Levels \subseteq 0 .. 5 /\ INFO \in Levels /\ Logged \subseteq 0 .. 5
  /\ MaxStarts \in Nat

VARIABLES
  running,   \* running_
  min_level, \* min_level_
  log_file,  \* log_file_: "none" (nullptr), "open", or "broken" (never opened)
  stage,     \* where Main is in start, stop or flush, and Worker in logWorker
  line,      \* the message a consumer has popped and not yet written
  lines,     \* the messages written to the file or to std::cout, in order
  file_held, \* how many of those for the file are in log_file_'s buffer
  cout_held, \* how many of those for std::cout are in its buffer
  due,       \* whether the flush interval is over, counted from last_flush
  starts     \* number of times the worker was started

streams == <<file_held, cout_held>>
output == <<lines, streams, due>>
ownVars == <<running, min_level, log_file, stage, line, output, starts>>
loggerVars == <<queueVars, ownVars>>

Move(t, to) == stage' = [stage EXCEPT ![t] = to]

LoggerInit ==
  /\ Init
  /\ running = FALSE
  /\ min_level = INFO
  /\ log_file = "none"
  /\ stage = [t \in Consumers |-> IF t = Main THEN "idle" ELSE "none"]
  /\ line = [t \in Consumers |-> NoItem]
  /\ lines = <<>>
  /\ file_held = 0
  /\ cout_held = 0
  /\ due = FALSE
  /\ starts = 0

\* Creating a thread, or joining it, makes what one saw visible to the other.
\* What a log() that has returned stored is taken to be visible to the owner:
\* main.cpp joins the threads that log before it stops the logger.
Synchronise(t) == view' = [view EXCEPT ![t] = Indices]

-----------------------------------------------------------------------------
(* log, and the methods that only call it: dropped below the minimum level  *)
(* and unless running_, which changes nothing; the push may be refused too. *)

Log(t) ==
  \/ /\ running /\ Unsent # {} /\ \E level \in Logged : level >= min_level
     /\ PushBegin(t, Min(Unsent)) /\ UNCHANGED ownVars
  \/ (PushCheck(t) \/ PushStore(t) \/ PushPublish(t)) /\ UNCHANGED ownVars

-----------------------------------------------------------------------------
(* setLevel, start, stop and flush *)

SetLevel(level) ==
  /\ min_level' = level
  /\ UNCHANGED <<queueVars, running, log_file, stage, line, output, starts>>

\* start, its path opened or not; an empty path leaves log_file_ as it is.
Start(path) ==
  /\ stage[Main] = "idle" /\ ~running
  /\ log_file' = CASE path = "stdout" -> log_file
                   [] path = "file" -> "open"
                   [] path = "bad path" -> "broken"
  /\ IF path = "bad path" THEN UNCHANGED <<running, stage, view, due, starts>>
     ELSE /\ starts < MaxStarts /\ starts' = starts + 1
          /\ running' = TRUE
          /\ Move(Worker, "test")
          /\ due' = FALSE
          /\ Synchronise(Worker)
  /\ UNCHANGED <<buffer, write_pos, read_pos, at, pos, item, sent, received,
                 min_level, line, lines, streams>>

StopBegin ==
  /\ stage[Main] = "idle" /\ running
  /\ LogWhileStopping \/ \A t \in Producers : at[t] = "out"
  /\ running' = FALSE
  /\ Move(Main, "join")
  /\ UNCHANGED <<queueVars, min_level, log_file, line, output, starts>>

\* Mutants of StopJoin: the worker is not joined; nothing is flushed after it.
StopDetach ==
  /\ stage[Main] = "join"
  /\ Move(Main, "drain")
  /\ UNCHANGED <<queueVars, running, min_level, log_file, line, output, starts>>
StopJoinOnly ==
  /\ stage[Main] = "join" /\ stage[Worker] = "exited"
  /\ Move(Main, "close")
  /\ UNCHANGED <<queueVars, running, min_level, log_file, line, output, starts>>

StopJoin ==
  /\ stage[Main] = "join" /\ stage[Worker] = "exited"
  /\ Move(Main, "drain")
  /\ Synchronise(Main)
  /\ UNCHANGED <<buffer, write_pos, read_pos, at, pos, item, sent, received,
                 running, min_level, log_file, line, output, starts>>

\* The file, where there is one, is closed, which writes what its buffer holds.
StopClose ==
  /\ stage[Main] = "close"
  /\ log_file' = "none"
  /\ file_held' = IF log_file = "none" THEN file_held ELSE 0
  /\ Move(Main, "idle")
  /\ UNCHANGED <<queueVars, running, min_level, line, lines, cout_held, due, starts>>

FlushBegin ==
  /\ stage[Main] = "idle"
  /\ FlushWhileRunning \/ ~running
  /\ Move(Main, "flush")
  /\ UNCHANGED <<queueVars, running, min_level, log_file, line, output, starts>>

-----------------------------------------------------------------------------
(* flush's and logWorker's loops *)

\* Mutant of WorkerTest: it never leaves.
WorkerTestNothing ==
  /\ stage[Worker] = "test"
  /\ Move(Worker, "pop")
  /\ UNCHANGED <<queueVars, running, min_level, log_file, line, output, starts>>

\* logWorker's condition: running_ || !queue_.empty()
WorkerTest ==
  /\ stage[Worker] = "test"
  /\ Move(Worker, IF running \/ ~IsEmpty(Worker) THEN "pop" ELSE "final flush")
  /\ UNCHANGED <<queueVars, running, min_level, log_file, line, output, starts>>

Popping == {"pop", "final flush", "flush", "drain"}

\* Where a loop goes when pop returns false.
AfterEmpty(s) ==
  CASE s = "pop" -> "test" [] s = "final flush" -> "exited"
    [] s = "flush" -> "idle" [] s = "drain" -> "close"

\* getMonotonicNs, read against last_flush: a clock that goes on.
IntervalElapses ==
  /\ ~due /\ stage[Worker] \in {"test", "pop"}
  /\ due' = TRUE
  /\ UNCHANGED <<queueVars, running, min_level, log_file, stage, line, lines, streams, starts>>

\* Mutant of FlushStream: the interval starts again and the file is not flushed.
FlushStreamLater(s) ==
  /\ due' = (due /\ s # "pop")
  /\ UNCHANGED streams

\* The worker flushes the file, where there is one, when the ring has been empty
\* for the interval, and once more as it ends; the caller of flush() does not.
FlushStream(s) ==
  /\ due' = (due /\ s # "pop")
  /\ file_held' = IF log_file # "none" /\ (s = "final flush" \/ (s = "pop" /\ due))
                  THEN 0 ELSE file_held
  /\ UNCHANGED cout_held

PopMessage(t) ==
  /\ stage[t] \in Popping /\ line[t] = NoItem
  /\ \/ (PopBegin(t) \/ PopLoad(t)) /\ UNCHANGED <<stage, line, streams, due>>
     \/ /\ PopCheck(t) /\ UNCHANGED line
        /\ IF HasItem(t) THEN UNCHANGED <<stage, streams, due>>
           ELSE Move(t, AfterEmpty(stage[t])) /\ FlushStream(stage[t])
     \/ /\ PopAdvance(t) /\ UNCHANGED <<stage, streams, due>>
        /\ line' = [line EXCEPT ![t] = item[t]]
  /\ UNCHANGED <<running, min_level, log_file, lines, starts>>

\* writeLogMessage: to the file where there is one, and a stream that was never
\* opened swallows the line; to std::cout otherwise.  A stream may let lines go.
\* The worker then reads the clock.
WriteLogMessage(t) ==
  /\ line[t] # NoItem
  /\ lines' = IF log_file = "broken" THEN lines ELSE Append(lines, line[t])
  /\ file_held' \in IF log_file = "open" THEN 0 .. file_held + 1 ELSE {file_held}
  /\ cout_held' \in IF log_file = "none" THEN 0 .. cout_held + 1 ELSE {cout_held}
  /\ line' = [line EXCEPT ![t] = NoItem]
  /\ Move(t, IF stage[t] = "pop" THEN "test" ELSE stage[t])
  /\ due' = (due /\ stage[t] # "pop")
  /\ UNCHANGED <<queueVars, running, min_level, log_file, starts>>

OwnerStep ==
  \/ StopJoin \/ StopClose
  \/ PopMessage(Main) \/ WriteLogMessage(Main)

WorkerStep == WorkerTest \/ PopMessage(Worker) \/ WriteLogMessage(Worker)

LoggerNext ==
  \/ \E t \in Threads : Observe(t) /\ UNCHANGED ownVars
  \/ \E t \in Producers : Log(t)
  \/ \E level \in Levels : SetLevel(level)
  \/ (\E path \in Paths : Start(path)) \/ StopBegin \/ FlushBegin
  \/ IntervalElapses \/ OwnerStep \/ WorkerStep

LoggerSpec == LoggerInit /\ [][LoggerNext]_loggerVars

\* Threads run, the clock goes on, and stores become visible in finite time;
\* nobody has to log, start, stop or flush.
FairLoggerSpec ==
  /\ LoggerSpec
  /\ \A t \in Threads : WF_loggerVars(Observe(t) /\ UNCHANGED ownVars)
  /\ WF_loggerVars(IntervalElapses)
  /\ WF_loggerVars(OwnerStep)
  /\ WF_loggerVars(WorkerStep)

-----------------------------------------------------------------------------
(* Properties *)

\* The state has its types.
LoggerTypeOK ==
  /\ QueueTypeOK
  /\ running \in BOOLEAN
  /\ min_level \in Levels
  /\ log_file \in {"none", "open", "broken"}
  /\ stage[Main] \in {"idle", "join", "drain", "close", "flush"}
  /\ stage[Worker] \in {"none", "test", "pop", "final flush", "exited"}
  /\ line \in [Consumers -> Items \cup {NoItem}]
  /\ lines \in Seq(Items \cup {NoItem})
  /\ file_held \in 0 .. Len(lines) /\ cout_held \in 0 .. Len(lines)
  /\ due \in BOOLEAN
  /\ starts \in 0 .. MaxStarts

\* The output is the accepted messages, in order and each once, up to some
\* point ("Consumer: Background thread writes to file/stdout", AsyncLogger.hpp:67).
LinesInOrder == IsPrefix(lines, sent)

\* When stop has returned, what was accepted is written, and the file's stream
\* holds none of it back ("Stop logger (flush remaining messages)",
\* AsyncLogger.hpp:101).  Lines written to std::cout may still be in its buffer.
StopLeavesNothingBehind ==
  ~running /\ stage[Main] = "idle" => Len(lines) >= Len(sent) /\ file_held = 0

\* stop returns: the worker leaves its loop, and both flushes come to an end
\* (AsyncLogger.hpp:102-120,192-216).
StopReturns == stage[Main] = "join" ~> stage[Main] = "idle"

\* An accepted message is written, and leaves the file's buffer where it is written
\* to the file, whether or not the logger is ever stopped: an idle worker flushes
\* the file (AsyncLogger.hpp:192-211).  What goes to std::cout is handed over: the
\* logger does nothing that makes it leave std::cout's buffer.
AcceptedIsWritten == \A n \in Items : Len(sent) >= n ~> Len(lines) - file_held >= n
=============================================================================
