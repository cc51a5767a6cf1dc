-------------------------- MODULE AsyncLogger_proofs --------------------------
(* Theorems about the logger, for any size of the ring and any number of       *)
(* starts, with one thread that logs: its output is what was accepted, in      *)
(* order, and stop leaves none of it behind.                                   *)
EXTENDS AsyncLogger, SPSCQueue_proofs

\* One thread logs, stop overlaps no call of log, nobody flushes while the worker
\* runs, and every path that start is given can be opened.
Disciplined(p) ==
  /\ Producers = {p} /\ p \notin Consumers
  /\ ~FlushWhileRunning /\ ~LogWhileStopping
  /\ "bad path" \notin Paths

-----------------------------------------------------------------------------
(* The inductive invariant.  The worker and the owner take turns at the        *)
(* ring's reading end: the worker has it from start until it is joined.        *)

MainStages == {"idle", "join", "drain", "close", "flush"}
WorkerStages == {"none", "test", "pop", "final flush", "exited"}

WorkerPops == running \/ stage[Main] = "join"

\* Where the two threads are in their loops.
Turns ==
  /\ stage \in [Consumers -> MainStages \cup WorkerStages]
  /\ stage[Main] \in MainStages /\ stage[Worker] \in WorkerStages
  /\ running => stage[Main] = "idle" /\ stage[Worker] \in {"test", "pop"}
  /\ stage[Main] = "join" => stage[Worker] # "none"
  /\ ~WorkerPops => stage[Worker] \in {"none", "exited"}

\* A thread that is not in a loop is out of pop and holds no line.
Idle(t) == at[t] = "out" /\ line[t] = NoItem

InTheLoop ==
  \A t \in Consumers :
    /\ stage[t] \notin Popping => Idle(t)
    /\ line[t] # NoItem => at[t] = "out"

\* What c popped is written, but for the line it holds.
Written(c) == received = IF line[c] = NoItem THEN lines ELSE Append(lines, line[c])

Reader(p, c) == QueueInv(p, c) /\ Written(c)

\* The types of what is the logger's own.
OwnTypes ==
  /\ running \in BOOLEAN
  /\ min_level \in Levels
  /\ log_file \in {"none", "open"}
  /\ line \in [Consumers -> Items \cup {NoItem}]
  /\ lines \in Seq(Items \cup {NoItem})
  /\ file_held \in 0 .. Len(lines) /\ cout_held \in 0 .. Len(lines)
  /\ log_file = "none" => file_held = 0
  /\ due \in BOOLEAN
  /\ starts \in 0 .. MaxStarts

\* Once the worker is joined nothing is added, the owner sees all there is, and
\* having found the ring empty it has written all that was accepted.
Drained(p) ==
  /\ ~running => at[p] = "out"
  /\ ~WorkerPops => view[Main].write = write_pos
  /\ ~WorkerPops /\ stage[Main] # "drain" =>
       Len(received) = Len(sent) /\ line[Main] = NoItem
  /\ ~WorkerPops /\ stage[Main] \in {"idle", "flush"} => log_file = "none"

LoggerInv(p) ==
  /\ OwnTypes /\ Turns /\ InTheLoop
  /\ WorkerPops => Reader(p, Worker)
  /\ ~WorkerPops => Reader(p, Main)
  /\ Drained(p)

-----------------------------------------------------------------------------
(* What the steps have in common *)

\* Types of what the steps below compare and change.
LEMMA LoggerParts ==
  ASSUME NEW p, Disciplined(p), LoggerInv(p)
  PROVE  /\ OnePusher(p, Main) /\ OnePusher(p, Worker)
         /\ Main \in Threads /\ Worker \in Threads /\ p \in Threads
         /\ Main # Worker /\ p # Main /\ p # Worker
         /\ Main \in Consumers /\ Worker \in Consumers
         /\ at \in [Threads -> Labels]
         /\ view \in [Threads -> [write : Slots, read : Slots]]
         /\ item \in [Threads -> Items \cup {NoItem}]
         /\ sent \in Seq(Items) /\ received \in Seq(Items \cup {NoItem})
         /\ Len(sent) \in Nat /\ Len(received) \in Nat
<1>1. QueueTypeOK
  BY DEF LoggerInv, Reader, QueueInv
<1>2. Len(sent) \in Nat /\ Len(received) \in Nat
  BY <1>1, LenProperties DEF QueueTypeOK
<1> QED BY <1>1, <1>2, AsyncLoggerAssumption DEF Disciplined, OnePusher, Threads, QueueTypeOK

\* The bound on the number of starts is a number.
LEMMA StartsBound == MaxStarts \in Nat
BY AsyncLoggerAssumption, Zenon

\* A step that touches no variable of the ring's leaves its invariant.
LEMMA QueueFrame ==
  ASSUME NEW p, NEW c, QueueInv(p, c), UNCHANGED queueVars
  PROVE  QueueInv(p, c)'
BY DEF queueVars, QueueInv, QueueTypeOK, Indexed, OnlyPusher, OnlyPopper, SeesRoom, SeesItem,
       Contents

\* Nor does one that writes nothing change what the reader has written.
LEMMA ReaderFrame ==
  ASSUME NEW p, NEW c, Reader(p, c), UNCHANGED <<queueVars, line, lines>>
  PROVE  Reader(p, c)'
<1>1. QueueInv(p, c)'
  BY QueueFrame DEF Reader
<1>2. received' = received /\ line' = line /\ lines' = lines
  BY DEF queueVars
<1> QED BY <1>1, <1>2 DEF Reader, Written

\* A thread that is out of pop, and sees what the other saw, can take over.
LEMMA HandOver ==
  ASSUME NEW p, NEW c, NEW d, OnePusher(p, c), OnePusher(p, d), QueueInv(p, c),
         at[d] = "out", Synchronise(d),
         UNCHANGED <<buffer, write_pos, read_pos, at, pos, item, sent, received>>
  PROVE  QueueInv(p, d)' /\ view'[d].write = write_pos
<1>1. /\ p \in Threads /\ d \in Threads /\ p # d
      /\ write_pos \in Slots /\ read_pos \in Slots
      /\ Len(sent) \in Nat /\ Len(received) \in Nat
      /\ view \in [Threads -> [write : Slots, read : Slots]]
      /\ at[c] \in {"out", "pop_check", "pop_load", "pop_advance"}
  BY StateTypes DEF OnePusher, Threads, QueueInv, QueueTypeOK, Indexed, OnlyPopper
<1>2. /\ view'[d] = [write |-> write_pos, read |-> read_pos] /\ view'[p] = view[p]
      /\ view' \in [Threads -> [write : Slots, read : Slots]]
  BY <1>1 DEF Synchronise, Indices
<1>3. QueueTypeOK'
  BY <1>2 DEF QueueInv, QueueTypeOK
<1>4. Indexed(p, d)'
  BY <1>1, <1>2 DEF QueueInv, Indexed, OnlyPusher, OnlyPopper
<1>5. SeesRoom(p)'
  BY <1>2 DEF QueueInv, SeesRoom
<1>6. SeesItem(d)'
  BY <1>1, <1>2 DEF QueueInv, Indexed, SeesItem
<1>7. Contents(p, d)'
  BY DEF QueueInv, Contents
<1> QED BY <1>2, <1>3, <1>4, <1>5, <1>6, <1>7 DEF QueueInv

\* A reader that sees every store and finds the ring empty has popped all that
\* was accepted.
LEMMA EmptyIsAll ==
  ASSUME NEW p, NEW c, OnePusher(p, c), QueueInv(p, c), read_pos = write_pos
  PROVE  Len(received) = Len(sent)
<1>1. /\ Len(sent) \in Nat /\ Len(received) \in Nat
      /\ Len(received) <= Len(sent) /\ Len(sent) - Len(received) < Size
      /\ Len(received) % Size = Len(sent) % Size
  BY StateTypes DEF QueueInv, Indexed
<1>2. ~(Len(received) < Len(sent))
  BY <1>1, SlotsDiffer
<1> QED BY <1>1, <1>2

-----------------------------------------------------------------------------
(* The steps *)

\* The logger just constructed: nobody has started it (AsyncLogger.hpp:72-75).
LEMMA LoggerInitInv ==
  ASSUME NEW p, Disciplined(p), LoggerInit
  PROVE  LoggerInv(p)
<1>1. /\ Main \in Consumers /\ Worker \in Consumers /\ Main # Worker
      /\ Consumers = {Main, Worker}
      /\ OnePusher(p, Main) /\ Main \in Threads /\ Worker \in Threads /\ p \in Threads
  BY AsyncLoggerAssumption DEF Disciplined, OnePusher, Threads
<1>2. /\ stage \in [Consumers -> MainStages \cup WorkerStages]
      /\ stage[Main] = "idle" /\ stage[Worker] = "none"
  BY <1>1 DEF LoggerInit, MainStages, WorkerStages
<1>3. QueueInv(p, Main)
  BY <1>1, InitQueue DEF LoggerInit
<1>4. /\ ~running /\ lines = <<>> /\ received = <<>> /\ sent = <<>>
      /\ \A t \in Threads : at[t] = "out" /\ view[t] = Indices
      /\ \A t \in Consumers : line[t] = NoItem
  BY DEF LoggerInit, Init
<1>5. Len(lines) = 0 /\ Len(sent) = 0 /\ Len(received) = 0
  BY <1>4, EmptySeq
<1>6. OwnTypes
  <2>1. lines \in Seq(Items \cup {NoItem})
    BY <1>4, EmptySeq
  <2>2. line \in [Consumers -> Items \cup {NoItem}]
    BY DEF LoggerInit
  <2>3. min_level \in Levels
    BY AsyncLoggerAssumption DEF LoggerInit
  <2>4. file_held = 0 /\ file_held \in 0 .. Len(lines) /\ cout_held \in 0 .. Len(lines)
    BY <1>5 DEF LoggerInit
  <2>5. starts \in 0 .. MaxStarts
    BY StartsBound DEF LoggerInit
  <2>6. running \in BOOLEAN /\ log_file \in {"none", "open"} /\ due \in BOOLEAN
    BY DEF LoggerInit
  <2> QED BY <2>1, <2>2, <2>3, <2>4, <2>5, <2>6 DEF OwnTypes
<1>7. Turns /\ InTheLoop
  BY <1>1, <1>2, <1>4 DEF Turns, InTheLoop, Idle, WorkerPops, MainStages, WorkerStages, Popping, Threads
<1>8. Reader(p, Main) /\ Drained(p)
  BY <1>1, <1>2, <1>3, <1>4, <1>5 DEF Reader, Written, Drained, WorkerPops, Indices, LoggerInit
<1> QED BY <1>2, <1>4, <1>6, <1>7, <1>8 DEF LoggerInv, WorkerPops

\* The thread that logs, or the memory, changes nothing of the loops.
LEMMA OwnFrame ==
  ASSUME NEW p, LoggerInv(p), UNCHANGED ownVars,
         \A t \in Consumers : at'[t] = at[t]
  PROVE  OwnTypes' /\ Turns' /\ InTheLoop' /\ (WorkerPops' <=> WorkerPops)
<1>1. /\ running' = running /\ min_level' = min_level /\ log_file' = log_file
      /\ stage' = stage /\ line' = line /\ lines' = lines
      /\ file_held' = file_held /\ cout_held' = cout_held
      /\ due' = due /\ starts' = starts
  BY DEF ownVars, output, streams
<1>2. OwnTypes'
  BY <1>1 DEF LoggerInv, OwnTypes
<1>3. Turns'
  BY <1>1 DEF LoggerInv, Turns, WorkerPops
<1>4. InTheLoop'
  BY <1>1 DEF LoggerInv, InTheLoop, Idle
<1> QED BY <1>1, <1>2, <1>3, <1>4 DEF WorkerPops

\* A store becomes visible.
LEMMA LoggerObserves ==
  ASSUME NEW p, Disciplined(p), LoggerInv(p), NEW t \in Threads, Observe(t), UNCHANGED ownVars
  PROVE  LoggerInv(p)'
<1>1. /\ write_pos' = write_pos /\ at' = at /\ sent' = sent /\ received' = received
      /\ running' = running /\ stage' = stage /\ line' = line /\ lines' = lines /\ log_file' = log_file
  BY DEF Observe, ownVars, output
<1>2. OwnTypes' /\ Turns' /\ InTheLoop' /\ (WorkerPops' <=> WorkerPops)
  BY <1>1, OwnFrame
<1>3. WorkerPops => Reader(p, Worker)'
  BY <1>1, LoggerParts, ObserveKeeps DEF LoggerInv, Reader, Written
<1>4. ~WorkerPops => Reader(p, Main)'
  BY <1>1, LoggerParts, ObserveKeeps DEF LoggerInv, Reader, Written
<1>5. view[Main].write = write_pos => view'[Main].write = write_pos
  <2>1. PICK index \in {"write", "read"} : view' = [view EXCEPT ![t][index] = Indices[index]]
    BY DEF Observe
  <2> QED BY <2>1, LoggerParts DEF Indices
<1>6. Drained(p)'
  BY <1>1, <1>2, <1>5 DEF LoggerInv, Drained
<1> QED BY <1>2, <1>3, <1>4, <1>6 DEF LoggerInv

\* A call of log, refused or not, while the logger runs (AsyncLogger.hpp:128-144).
LEMMA LogKeeps ==
  ASSUME NEW p, Disciplined(p), LoggerInv(p), NEW t \in Producers, Log(t)
  PROVE  LoggerInv(p)'
<1>1. t = p /\ UNCHANGED ownVars
  BY DEF Disciplined, Log
<1>2. \/ running /\ Unsent # {} /\ PushBegin(p, Min(Unsent))
      \/ PushCheck(p) \/ PushStore(p) \/ PushPublish(p)
  BY <1>1 DEF Log
<1>3. running
  BY <1>2 DEF PushCheck, PushStore, PushPublish, LoggerInv, Drained
<1>4. WorkerPops /\ QueueInv(p, Worker) /\ Written(Worker)
  BY <1>3 DEF LoggerInv, WorkerPops, Reader
<1>5. QueueInv(p, Worker)'
  BY <1>2, <1>4, LoggerParts, FirstUnsent, PushBeginKeeps, PushCheckKeeps, PushStoreKeeps,
     PushPublishKeeps
<1>6. received' = received /\ \A u \in Consumers : at'[u] = at[u]
  <2>1. \E label : at' = [at EXCEPT ![p] = label]
    BY <1>2 DEF PushBegin, PushCheck, PushStore, PushPublish, Goto
  <2>2. received' = received
    BY <1>2 DEF PushBegin, PushCheck, PushStore, PushPublish
  <2> QED BY <2>1, <2>2, LoggerParts DEF Disciplined, Threads
<1>7. OwnTypes' /\ Turns' /\ InTheLoop' /\ WorkerPops'
  BY <1>1, <1>4, <1>6, OwnFrame
<1>8. Written(Worker)' /\ running'
  BY <1>1, <1>3, <1>4, <1>6 DEF Written, ownVars, output
<1> QED BY <1>5, <1>7, <1>8 DEF LoggerInv, Reader, Drained

\* setLevel (AsyncLogger.hpp:123-125).
LEMMA SetLevelKeeps ==
  ASSUME NEW p, LoggerInv(p), NEW level \in Levels, SetLevel(level)
  PROVE  LoggerInv(p)'
<1> USE DEF SetLevel, output, streams
<1>1. WorkerPops => Reader(p, Worker)'
  BY ReaderFrame DEF LoggerInv
<1>2. ~WorkerPops => Reader(p, Main)'
  BY ReaderFrame DEF LoggerInv
<1>3. WorkerPops' <=> WorkerPops
  BY DEF WorkerPops
<1>4. Drained(p)'
  BY <1>3 DEF LoggerInv, Drained, queueVars
<1>5. OwnTypes'
  BY DEF LoggerInv, OwnTypes
<1>6. Turns' /\ InTheLoop'
  BY DEF LoggerInv, Turns, InTheLoop, Idle, WorkerPops, queueVars
<1> QED BY <1>1, <1>2, <1>3, <1>4, <1>5, <1>6 DEF LoggerInv

\* A change of place of one thread is one of no other.
LEMMA MoveChanges ==
  ASSUME NEW p, Disciplined(p), LoggerInv(p), NEW t \in Consumers, NEW to, Move(t, to),
         to \in MainStages \cup WorkerStages
  PROVE  /\ stage' \in [Consumers -> MainStages \cup WorkerStages]
         /\ stage'[t] = to /\ \A u \in Consumers : u # t => stage'[u] = stage[u]
BY DEF Move, LoggerInv, Turns

\* A start that opens its file, or needs none: the new worker is the reader
\* (AsyncLogger.hpp:82-99).
LEMMA StartKeeps ==
  ASSUME NEW p, Disciplined(p), LoggerInv(p), NEW path \in Paths, Start(path)
  PROVE  LoggerInv(p)'
<1> USE DEF Start, streams
<1>1. /\ stage[Main] = "idle" /\ ~running /\ ~WorkerPops
      /\ stage[Worker] \in {"none", "exited"}
      /\ path \in {"stdout", "file"}
  BY AsyncLoggerAssumption DEF LoggerInv, Turns, WorkerPops, Disciplined
<1>2. /\ starts < MaxStarts /\ starts' = starts + 1 /\ running' = TRUE /\ due' = FALSE
      /\ Move(Worker, "test") /\ Synchronise(Worker)
      /\ log_file' \in {log_file, "open"}
      /\ UNCHANGED <<min_level, at, received, sent, line, lines, file_held, cout_held>>
  BY <1>1
<1>3. /\ stage' \in [Consumers -> MainStages \cup WorkerStages]
      /\ stage'[Worker] = "test" /\ stage'[Main] = "idle"
  BY <1>1, <1>2, LoggerParts, MoveChanges DEF WorkerStages
<1>4. Idle(Main) /\ Idle(Worker)
  BY <1>1, LoggerParts DEF LoggerInv, InTheLoop, Popping
<1>5. QueueInv(p, Main) /\ Written(Main)
  BY <1>1 DEF LoggerInv, Reader
<1>6. QueueInv(p, Worker)'
  BY <1>2, <1>4, <1>5, LoggerParts, HandOver DEF Idle
<1>7. Written(Worker)'
  BY <1>2, <1>4, <1>5 DEF Written, Idle
<1>8. WorkerPops' /\ Turns'
  BY <1>2, <1>3 DEF Turns, WorkerPops, MainStages, WorkerStages
<1>9. InTheLoop'
  <2>1. \A t \in Consumers : t = Main \/ t = Worker
    BY AsyncLoggerAssumption
  <2> QED BY <1>2, <1>4, <2>1 DEF InTheLoop, Idle
<1>10. OwnTypes'
  <2>1. starts' \in 0 .. MaxStarts
    <3>1. starts \in 0 .. MaxStarts
      BY DEF LoggerInv, OwnTypes
    <3>2. starts < MaxStarts /\ starts' = starts + 1
      BY <1>2
    <3> HIDE DEF Start
    <3> QED BY <3>1, <3>2, StartsBound
  <2>2. log_file = "none" => file_held = 0
    BY DEF LoggerInv, OwnTypes
  <2>3. log_file' = "none" => file_held' = 0
    BY <1>2, <2>2
  <2> QED BY <1>2, <2>1, <2>3 DEF LoggerInv, OwnTypes
<1>11. Drained(p)'
  BY <1>2, <1>8 DEF Drained
<1> QED BY <1>6, <1>7, <1>8, <1>9, <1>10, <1>11 DEF LoggerInv, Reader

\* stop up to the join: no call of log is under way (AsyncLogger.hpp:102-111).
LEMMA StopBeginKeeps ==
  ASSUME NEW p, Disciplined(p), LoggerInv(p), StopBegin
  PROVE  LoggerInv(p)'
<1> USE DEF StopBegin, output, streams
<1>1. /\ stage[Main] = "idle" /\ running /\ WorkerPops /\ at[p] = "out"
      /\ stage[Worker] \in {"test", "pop"}
  BY DEF LoggerInv, Turns, WorkerPops, Disciplined
<1>2. /\ stage' \in [Consumers -> MainStages \cup WorkerStages]
      /\ stage'[Main] = "join" /\ stage'[Worker] = stage[Worker]
  BY LoggerParts, MoveChanges DEF MainStages
<1>3. WorkerPops' /\ Reader(p, Worker)'
  BY <1>1, <1>2, ReaderFrame DEF LoggerInv, WorkerPops
<1>4. Turns'
  BY <1>1, <1>2, <1>3 DEF Turns, MainStages, WorkerStages
<1>5. InTheLoop'
  <2>1. \A t \in Consumers : t = Main \/ t = Worker
    BY AsyncLoggerAssumption
  <2>2. Idle(Main)
    BY <1>1, LoggerParts DEF LoggerInv, InTheLoop, Popping
  <2> QED BY <1>2, <2>1, <2>2 DEF LoggerInv, InTheLoop, Idle, queueVars
<1>6. OwnTypes'
  BY DEF LoggerInv, OwnTypes
<1>7. Drained(p)'
  BY <1>1, <1>3 DEF Drained, queueVars
<1> QED BY <1>3, <1>4, <1>5, <1>6, <1>7 DEF LoggerInv

\* The join: the worker has left, the owner sees all it did and reads from now
\* on (AsyncLogger.hpp:109-111).
LEMMA StopJoinKeeps ==
  ASSUME NEW p, Disciplined(p), LoggerInv(p), StopJoin
  PROVE  LoggerInv(p)'
<1> USE DEF StopJoin, output, streams
<1>1. /\ stage[Main] = "join" /\ stage[Worker] = "exited" /\ WorkerPops /\ ~running
  BY DEF LoggerInv, Turns, WorkerPops
<1>2. /\ stage' \in [Consumers -> MainStages \cup WorkerStages]
      /\ stage'[Main] = "drain" /\ stage'[Worker] = "exited"
  BY <1>1, LoggerParts, MoveChanges DEF MainStages
<1>3. Idle(Main) /\ Idle(Worker)
  BY <1>1, LoggerParts DEF LoggerInv, InTheLoop, Popping
<1>4. QueueInv(p, Worker) /\ Written(Worker) /\ at[p] = "out"
  BY <1>1 DEF LoggerInv, Reader, Drained
<1>5. QueueInv(p, Main)' /\ view'[Main].write = write_pos
  BY <1>3, <1>4, LoggerParts, HandOver DEF Idle
<1>6. Written(Main)' /\ ~WorkerPops'
  BY <1>1, <1>2, <1>3, <1>4 DEF Written, Idle, WorkerPops
<1>7. Turns'
  BY <1>1, <1>2, <1>6 DEF Turns, MainStages, WorkerStages
<1>8. InTheLoop'
  <2>1. \A t \in Consumers : t = Main \/ t = Worker
    BY AsyncLoggerAssumption
  <2> QED BY <1>3, <2>1 DEF InTheLoop, Idle
<1>9. OwnTypes'
  BY DEF LoggerInv, OwnTypes
<1>10. Drained(p)'
  BY <1>2, <1>4, <1>5 DEF Drained
<1> QED BY <1>5, <1>6, <1>7, <1>8, <1>9, <1>10 DEF LoggerInv, Reader

\* The end of stop: the file is closed, which writes what its buffer holds
\* (AsyncLogger.hpp:116-119).
LEMMA StopCloseKeeps ==
  ASSUME NEW p, Disciplined(p), LoggerInv(p), StopClose
  PROVE  LoggerInv(p)'
<1> USE DEF StopClose
<1>1. /\ stage[Main] = "close" /\ ~WorkerPops /\ ~running /\ stage[Worker] \in {"none", "exited"}
  BY DEF LoggerInv, Turns, WorkerPops
<1>2. /\ stage' \in [Consumers -> MainStages \cup WorkerStages]
      /\ stage'[Main] = "idle" /\ stage'[Worker] = stage[Worker]
  BY LoggerParts, MoveChanges DEF MainStages
<1>3. Len(received) = Len(sent) /\ line[Main] = NoItem /\ at[p] = "out"
      /\ view[Main].write = write_pos
  BY <1>1 DEF LoggerInv, Drained
<1>4. Reader(p, Main)' /\ ~WorkerPops'
  BY <1>1, <1>2, ReaderFrame DEF LoggerInv, WorkerPops
<1>5. Turns'
  BY <1>1, <1>2, <1>4 DEF Turns, MainStages, WorkerStages
<1>6. InTheLoop'
  <2>1. \A t \in Consumers : t = Main \/ t = Worker
    BY AsyncLoggerAssumption
  <2>2. Idle(Main)
    BY <1>1, LoggerParts DEF LoggerInv, InTheLoop, Popping
  <2> QED BY <1>2, <2>1, <2>2 DEF LoggerInv, InTheLoop, Idle, queueVars
<1>7. OwnTypes'
  <2>1. file_held' = 0
    BY DEF LoggerInv, OwnTypes
  <2>2. lines \in Seq(Items \cup {NoItem}) /\ file_held' \in 0 .. Len(lines)
    BY <2>1, LenProperties DEF LoggerInv, OwnTypes
  <2> QED BY <2>1, <2>2 DEF LoggerInv, OwnTypes
<1>8. Drained(p)'
  BY <1>1, <1>3 DEF Drained, queueVars
<1> QED BY <1>4, <1>5, <1>6, <1>7, <1>8 DEF LoggerInv

\* flush() is called while no worker runs (AsyncLogger.hpp:167-168).
LEMMA FlushBeginKeeps ==
  ASSUME NEW p, Disciplined(p), LoggerInv(p), FlushBegin
  PROVE  LoggerInv(p)'
<1> USE DEF FlushBegin, output, streams
<1>1. /\ stage[Main] = "idle" /\ ~WorkerPops /\ ~running /\ stage[Worker] \in {"none", "exited"}
  BY DEF LoggerInv, Turns, WorkerPops, Disciplined
<1>2. /\ stage' \in [Consumers -> MainStages \cup WorkerStages]
      /\ stage'[Main] = "flush" /\ stage'[Worker] = stage[Worker]
  BY LoggerParts, MoveChanges DEF MainStages
<1>3. Len(received) = Len(sent) /\ line[Main] = NoItem /\ at[p] = "out"
      /\ view[Main].write = write_pos /\ log_file = "none"
  BY <1>1 DEF LoggerInv, Drained
<1>4. Reader(p, Main)' /\ ~WorkerPops'
  BY <1>1, <1>2, ReaderFrame DEF LoggerInv, WorkerPops
<1>5. Turns'
  BY <1>1, <1>2, <1>4 DEF Turns, MainStages, WorkerStages
<1>6. InTheLoop'
  <2>1. \A t \in Consumers : t = Main \/ t = Worker
    BY AsyncLoggerAssumption
  <2>2. Idle(Main)
    BY <1>1, LoggerParts DEF LoggerInv, InTheLoop, Popping
  <2> QED BY <1>2, <2>1, <2>2 DEF LoggerInv, InTheLoop, Idle, queueVars
<1>7. OwnTypes'
  BY DEF LoggerInv, OwnTypes
<1>8. Drained(p)'
  BY <1>1, <1>3 DEF Drained, queueVars
<1> QED BY <1>4, <1>5, <1>6, <1>7, <1>8 DEF LoggerInv

\* The interval of the worker's idle flush is over (AsyncLogger.hpp:199-206).
LEMMA IntervalKeeps ==
  ASSUME NEW p, LoggerInv(p), IntervalElapses
  PROVE  LoggerInv(p)'
<1> USE DEF IntervalElapses, streams
<1>1. WorkerPops => Reader(p, Worker)'
  BY ReaderFrame DEF LoggerInv
<1>2. ~WorkerPops => Reader(p, Main)'
  BY ReaderFrame DEF LoggerInv
<1>3. WorkerPops' <=> WorkerPops
  BY DEF WorkerPops
<1>4. Drained(p)'
  BY <1>3 DEF LoggerInv, Drained, queueVars
<1>5. OwnTypes'
  BY DEF LoggerInv, OwnTypes
<1>6. Turns' /\ InTheLoop'
  BY DEF LoggerInv, Turns, InTheLoop, Idle, WorkerPops, queueVars
<1> QED BY <1>1, <1>2, <1>3, <1>4, <1>5, <1>6 DEF LoggerInv

\* The worker's loop condition (AsyncLogger.hpp:191).
LEMMA WorkerTestKeeps ==
  ASSUME NEW p, Disciplined(p), LoggerInv(p), WorkerTest
  PROVE  LoggerInv(p)'
<1> DEFINE to == IF running \/ ~IsEmpty(Worker) THEN "pop" ELSE "final flush"
<1>1. /\ stage[Worker] = "test" /\ Move(Worker, to)
      /\ UNCHANGED <<queueVars, running, min_level, log_file, line, output, starts>>
  BY DEF WorkerTest
<1>2. WorkerPops
  BY <1>1 DEF LoggerInv, Turns
<1>3. to \in {"pop", "final flush"} /\ (running => to = "pop")
  OBVIOUS
<1> HIDE DEF to
<1>4. /\ stage' \in [Consumers -> MainStages \cup WorkerStages]
      /\ stage'[Worker] = to /\ stage'[Main] = stage[Main]
  BY <1>1, <1>3, LoggerParts, MoveChanges DEF WorkerStages
<1>5. Reader(p, Worker)' /\ WorkerPops'
  BY <1>1, <1>2, <1>4, ReaderFrame DEF LoggerInv, WorkerPops, output
<1>6. Turns'
  BY <1>1, <1>3, <1>4, <1>5 DEF LoggerInv, Turns, WorkerStages
<1>7. InTheLoop'
  <2>1. \A t \in Consumers : t = Main \/ t = Worker
    BY AsyncLoggerAssumption
  <2>2. Idle(Worker)
    BY <1>1, LoggerParts DEF LoggerInv, InTheLoop, Popping
  <2> QED BY <1>1, <1>4, <2>1, <2>2 DEF LoggerInv, InTheLoop, Idle, queueVars
<1>8. OwnTypes'
  BY <1>1 DEF LoggerInv, OwnTypes, output, streams
<1>9. Drained(p)'
  BY <1>1, <1>5 DEF LoggerInv, Drained, queueVars
<1> QED BY <1>5, <1>6, <1>7, <1>8, <1>9 DEF LoggerInv

\* Only the reader of the moment is in a loop that pops.
LEMMA PopperReads ==
  ASSUME NEW p, Disciplined(p), LoggerInv(p), NEW t \in Consumers, stage[t] \in Popping
  PROVE  /\ QueueInv(p, t) /\ Written(t) /\ OnePusher(p, t)
         /\ t \in Threads /\ t # p
         /\ t = Worker => WorkerPops /\ stage[t] \in {"pop", "final flush"}
         /\ t = Main => ~WorkerPops /\ ~running /\ stage[t] \in {"flush", "drain"}
<1>1. t = Main \/ t = Worker
  BY AsyncLoggerAssumption
<1>2. t = Worker => WorkerPops /\ stage[t] \in {"pop", "final flush"}
  BY DEF LoggerInv, Turns, Popping, WorkerStages
<1>3. t = Main => ~WorkerPops /\ ~running /\ stage[t] \in {"flush", "drain"}
  BY DEF LoggerInv, Turns, Popping, MainStages, WorkerPops
<1> QED BY <1>1, <1>2, <1>3, LoggerParts DEF LoggerInv, Reader

\* pop up to its test, its test, and its load, where they find an item: nothing
\* but the reader's place in pop changes (AsyncLogger.hpp:169,193).
LEMMA PopGoesOn ==
  ASSUME NEW p, Disciplined(p), LoggerInv(p), NEW t \in Consumers,
         stage[t] \in Popping, line[t] = NoItem,
         PopBegin(t) \/ PopLoad(t) \/ PopCheck(t), UNCHANGED ownVars
  PROVE  LoggerInv(p)'
<1>1. /\ QueueInv(p, t) /\ Written(t) /\ OnePusher(p, t) /\ t \in Threads /\ t # p
      /\ t = Worker => WorkerPops
      /\ t = Main => ~WorkerPops
      /\ t = Main \/ t = Worker
  BY PopperReads, AsyncLoggerAssumption
<1>2. /\ running' = running /\ min_level' = min_level /\ log_file' = log_file
      /\ stage' = stage /\ line' = line /\ lines' = lines
      /\ file_held' = file_held /\ cout_held' = cout_held
      /\ due' = due /\ starts' = starts
  BY DEF ownVars, output, streams
<1>3. /\ write_pos' = write_pos /\ view' = view /\ received' = received /\ sent' = sent
      /\ \E label : at' = [at EXCEPT ![t] = label]
  BY DEF PopBegin, PopLoad, PopCheck, Goto
<1>4. \A u \in Threads : u # t => at'[u] = at[u]
  BY <1>3, LoggerParts
<1>5. QueueInv(p, t)'
  BY <1>1, PopBeginKeeps, PopLoadKeeps, PopCheckKeeps
<1>6. Written(t)' /\ (WorkerPops' <=> WorkerPops)
  BY <1>1, <1>2, <1>3 DEF Written, WorkerPops
<1>7. OwnTypes' /\ Turns'
  BY <1>2 DEF LoggerInv, OwnTypes, Turns, WorkerPops
<1>8. InTheLoop'
  BY <1>2, <1>4 DEF LoggerInv, InTheLoop, Idle, Threads
<1>9. Drained(p)'
  BY <1>1, <1>2, <1>3, <1>4, <1>6, LoggerParts DEF LoggerInv, Drained
<1> QED BY <1>1, <1>5, <1>6, <1>7, <1>8, <1>9 DEF LoggerInv, Reader

\* pop finds nothing: the loop is left.  The owner's, once it has joined the
\* worker, finds nothing only when all that was accepted is popped
\* (AsyncLogger.hpp:169,198-216).
LEMMA LoopEnds ==
  ASSUME NEW p, Disciplined(p), LoggerInv(p), NEW t \in Consumers,
         stage[t] \in Popping, line[t] = NoItem, PopCheck(t), ~HasItem(t),
         Move(t, AfterEmpty(stage[t])), FlushStream(stage[t]),
         UNCHANGED <<line, running, min_level, log_file, lines, starts>>
  PROVE  LoggerInv(p)'
<1>1. /\ QueueInv(p, t) /\ Written(t) /\ OnePusher(p, t) /\ t \in Threads /\ t # p
      /\ t = Worker => WorkerPops /\ stage[t] \in {"pop", "final flush"}
      /\ t = Main => ~WorkerPops /\ ~running /\ stage[t] \in {"flush", "drain"}
      /\ t = Main \/ t = Worker
  BY PopperReads, AsyncLoggerAssumption
<1>2. /\ write_pos' = write_pos /\ view' = view /\ received' = received /\ sent' = sent
      /\ at' = [at EXCEPT ![t] = "out"]
      /\ at[t] = "pop_check"
  BY DEF PopCheck, Goto
<1>3. at'[t] = "out" /\ \A u \in Threads : u # t => at'[u] = at[u]
  BY <1>1, <1>2, LoggerParts
<1>4. QueueInv(p, t)'
  BY <1>1, PopCheckKeeps
<1>5. Written(t)'
  BY <1>1, <1>2 DEF Written
<1>6. lines \in Seq(Items \cup {NoItem}) /\ Len(lines) \in Nat
  BY LenProperties DEF LoggerInv, OwnTypes
<1>7. /\ file_held' \in {0, file_held} /\ cout_held' = cout_held /\ due' \in BOOLEAN
      /\ log_file = "none" => file_held' = file_held
  <2>1. due' = (due /\ stage[t] # "pop")
    BY DEF FlushStream
  <2>2. due' \in BOOLEAN
    BY <2>1, Zenon
  <2>3. file_held' = IF log_file # "none" /\ (stage[t] = "final flush" \/ (stage[t] = "pop" /\ due))
                    THEN 0 ELSE file_held
    BY DEF FlushStream
  <2> QED BY <2>2, <2>3 DEF FlushStream
<1>8. OwnTypes'
  BY <1>6, <1>7 DEF LoggerInv, OwnTypes
<1>9. CASE t = Worker
  <2> DEFINE to == AfterEmpty(stage[Worker])
  <2>1. to \in {"test", "exited"} /\ (running => to = "test")
    BY <1>1, <1>9 DEF AfterEmpty, LoggerInv, Turns
  <2>2. Move(Worker, to)
    BY <1>9
  <2> HIDE DEF to
  <2>3. /\ stage' \in [Consumers -> MainStages \cup WorkerStages]
        /\ stage'[Worker] = to /\ stage'[Main] = stage[Main]
    BY <2>1, <2>2, LoggerParts, MoveChanges DEF WorkerStages
  <2>4. WorkerPops'
    BY <1>1, <1>9, <2>3 DEF WorkerPops
  <2>5. Turns'
    BY <2>1, <2>3, <2>4 DEF LoggerInv, Turns, WorkerStages
  <2>6. InTheLoop'
    BY <1>1, <1>3, <1>9, <2>3, AsyncLoggerAssumption DEF LoggerInv, InTheLoop, Idle, Threads
  <2>7. Drained(p)'
    BY <1>3, <1>9, <2>4, LoggerParts DEF LoggerInv, Drained
  <2> QED BY <1>4, <1>5, <1>8, <1>9, <2>4, <2>5, <2>6, <2>7 DEF LoggerInv, Reader
<1>10. CASE t = Main
  <2> DEFINE to == AfterEmpty(stage[Main])
  <2>1. /\ stage[Main] = "flush" => to = "idle"
        /\ stage[Main] = "drain" => to = "close"
        /\ stage[Main] \in {"flush", "drain"} /\ ~WorkerPops /\ ~running
    BY <1>1, <1>10 DEF AfterEmpty
  <2>2. Move(Main, to) /\ log_file' = log_file
    BY <1>10, <2>1
  <2> HIDE DEF to
  <2>3. /\ stage' \in [Consumers -> MainStages \cup WorkerStages]
        /\ stage'[Main] = to /\ stage'[Worker] = stage[Worker]
    BY <2>1, <2>2, LoggerParts, MoveChanges DEF MainStages
  <2>4. ~WorkerPops'
    BY <2>1, <2>3 DEF WorkerPops
  <2>5. Turns'
    BY <2>1, <2>3, <2>4 DEF LoggerInv, Turns, MainStages
  <2>6. InTheLoop'
    BY <1>1, <1>3, <1>10, <2>3, AsyncLoggerAssumption DEF LoggerInv, InTheLoop, Idle, Threads
  <2>7. Len(received) = Len(sent)
    <3>1. view[Main].write = write_pos
      BY <2>1 DEF LoggerInv, Drained
    <3>2. read_pos = write_pos
      BY <1>1, <1>2, <1>10, <3>1 DEF HasItem, QueueInv, Indexed
    <3> QED BY <1>1, <1>10, <3>2, EmptyIsAll
  <2>8. Drained(p)'
    BY <1>1, <1>2, <1>3, <1>10, <2>1, <2>2, <2>3, <2>4, <2>7, LoggerParts DEF LoggerInv, Drained
  <2> QED BY <1>4, <1>5, <1>8, <1>10, <2>4, <2>5, <2>6, <2>8 DEF LoggerInv, Reader
<1> QED BY <1>1, <1>9, <1>10

\* pop returns a message, which the thread holds until it has written it: the one
\* accepted after those written (AsyncLogger.hpp:169,193).
LEMMA PopReturns ==
  ASSUME NEW p, Disciplined(p), LoggerInv(p), NEW t \in Consumers,
         stage[t] \in Popping, line[t] = NoItem, PopAdvance(t),
         line' = [line EXCEPT ![t] = item[t]],
         UNCHANGED <<stage, streams, due, running, min_level, log_file, lines, starts>>
  PROVE  LoggerInv(p)'
<1>1. /\ QueueInv(p, t) /\ Written(t) /\ OnePusher(p, t) /\ t \in Threads /\ t # p
      /\ t = Worker => WorkerPops
      /\ t = Main => ~WorkerPops /\ ~running /\ stage[t] \in {"flush", "drain"}
      /\ t = Main \/ t = Worker
  BY PopperReads, AsyncLoggerAssumption
<1>2. /\ write_pos' = write_pos /\ sent' = sent /\ received' = Append(received, item[t])
      /\ at' = [at EXCEPT ![t] = "out"]
      /\ view' = [view EXCEPT ![t].read = Advance(pos[t])]
      /\ at[t] = "pop_advance"
  BY DEF PopAdvance, Goto
<1>3. at'[t] = "out" /\ \A u \in Threads : u # t => at'[u] = at[u]
  BY <1>1, <1>2, LoggerParts
<1>4. QueueInv(p, t)'
  BY <1>1, PopAdvanceKeeps
<1>5. Len(received) < Len(sent) /\ item[t] \in Items /\ item[t] # NoItem
  <2>1. PICK n \in Len(received) .. Len(sent) : Len(received) < n
    BY <1>1, <1>2 DEF QueueInv, SeesItem
  <2>2. Len(received) < Len(sent) /\ Len(received) + 1 \in 1 .. Len(sent)
    BY <2>1, LoggerParts
  <2>3. item[t] = sent[Len(received) + 1]
    BY <1>1, <1>2 DEF QueueInv, Contents
  <2> QED BY <1>1, <2>2, <2>3, StateTypes, SPSCQueueAssumption
<1>6. line'[t] = item[t] /\ line' \in [Consumers -> Items \cup {NoItem}]
      /\ \A u \in Consumers : u # t => line'[u] = line[u]
  BY <1>5 DEF LoggerInv, OwnTypes
<1>7. Written(t)'
  BY <1>1, <1>2, <1>5, <1>6 DEF Written
<1>8. WorkerPops' <=> WorkerPops
  BY DEF WorkerPops
<1>9. OwnTypes' /\ Turns'
  BY <1>6 DEF LoggerInv, OwnTypes, streams, Turns, WorkerPops
<1>10. InTheLoop'
  BY <1>3, <1>6 DEF LoggerInv, InTheLoop, Idle, Threads
<1>11. view'[Main].write = view[Main].write
  BY <1>2, LoggerParts
<1>12. t = Main => stage[Main] = "drain"
  BY <1>1, <1>5, LoggerParts DEF LoggerInv, Drained
<1>13. Drained(p)'
  <2>1. CASE t = Main
    BY <1>1, <1>2, <1>3, <1>8, <1>11, <1>12, <2>1, LoggerParts DEF LoggerInv, Drained
  <2>2. CASE t = Worker
    BY <1>1, <1>3, <1>8, <2>2, LoggerParts DEF LoggerInv, Drained
  <2> QED BY <1>1, <2>1, <2>2
<1> QED BY <1>1, <1>4, <1>7, <1>8, <1>9, <1>10, <1>13 DEF LoggerInv, Reader

\* A step of pop, in any of the loops (AsyncLogger.hpp:167-172,187-217).
LEMMA PopMessageKeeps ==
  ASSUME NEW p, Disciplined(p), LoggerInv(p), NEW t \in Consumers, PopMessage(t)
  PROVE  LoggerInv(p)'
<1>1. /\ stage[t] \in Popping /\ line[t] = NoItem
      /\ UNCHANGED <<running, min_level, log_file, lines, starts>>
  BY DEF PopMessage
<1>2. CASE (PopBegin(t) \/ PopLoad(t)) /\ UNCHANGED <<stage, line, streams, due>>
  BY <1>1, <1>2, PopGoesOn DEF ownVars, output
<1>3. CASE /\ PopCheck(t) /\ UNCHANGED line
           /\ IF HasItem(t) THEN UNCHANGED <<stage, streams, due>>
              ELSE Move(t, AfterEmpty(stage[t])) /\ FlushStream(stage[t])
  <2>1. CASE HasItem(t)
    BY <1>1, <1>3, <2>1, PopGoesOn DEF ownVars, output
  <2>2. CASE ~HasItem(t)
    BY <1>1, <1>3, <2>2, LoopEnds
  <2> QED BY <2>1, <2>2
<1>4. CASE /\ PopAdvance(t) /\ UNCHANGED <<stage, streams, due>>
           /\ line' = [line EXCEPT ![t] = item[t]]
  BY <1>1, <1>4, PopReturns
<1> QED BY <1>2, <1>3, <1>4 DEF PopMessage

\* A line is written: to the file's buffer, which may let some of it go, or to
\* stdout (AsyncLogger.hpp:193-196,220-236).
LEMMA WriteKeeps ==
  ASSUME NEW p, Disciplined(p), LoggerInv(p), NEW t \in Consumers, WriteLogMessage(t)
  PROVE  LoggerInv(p)'
<1>1. /\ line[t] # NoItem
      /\ log_file # "broken" => lines' = Append(lines, line[t])
      /\ file_held' \in IF log_file = "open" THEN 0 .. file_held + 1 ELSE {file_held}
      /\ cout_held' \in IF log_file = "none" THEN 0 .. cout_held + 1 ELSE {cout_held}
      /\ line' = [line EXCEPT ![t] = NoItem]
      /\ Move(t, IF stage[t] = "pop" THEN "test" ELSE stage[t])
      /\ due' = (due /\ stage[t] # "pop")
      /\ UNCHANGED <<queueVars, running, min_level, log_file, starts>>
  BY DEF WriteLogMessage
<1>2. log_file # "broken" /\ stage[t] \in Popping /\ at[t] = "out"
  BY <1>1 DEF LoggerInv, OwnTypes, InTheLoop, Idle
<1>3. /\ QueueInv(p, t) /\ Written(t) /\ OnePusher(p, t) /\ t \in Threads /\ t # p
      /\ t = Worker => WorkerPops /\ stage[t] \in {"pop", "final flush"}
      /\ t = Main => ~WorkerPops /\ ~running /\ stage[t] \in {"flush", "drain"}
      /\ t = Main \/ t = Worker
  BY <1>2, PopperReads, AsyncLoggerAssumption
<1>4. /\ lines' = Append(lines, line[t]) /\ lines' \in Seq(Items \cup {NoItem})
      /\ Len(lines') = Len(lines) + 1 /\ Len(lines) \in Nat
  <2>1. lines \in Seq(Items \cup {NoItem}) /\ line[t] \in Items \cup {NoItem}
    BY DEF LoggerInv, OwnTypes
  <2>2. lines' = Append(lines, line[t])
    BY <1>1, <1>2
  <2> QED BY <2>1, <2>2, AppendProperties, LenProperties
<1>5. /\ file_held' \in 0 .. Len(lines') /\ cout_held' \in 0 .. Len(lines')
      /\ log_file = "none" => file_held' = 0
  <2>1. /\ file_held \in 0 .. Len(lines) /\ cout_held \in 0 .. Len(lines)
        /\ log_file = "none" => file_held = 0
    BY DEF LoggerInv, OwnTypes
  <2> QED BY <1>1, <1>4, <2>1
<1>6. line'[t] = NoItem /\ line' \in [Consumers -> Items \cup {NoItem}]
      /\ \A u \in Consumers : u # t => line'[u] = line[u]
  BY <1>1 DEF LoggerInv, OwnTypes
<1>7. due' \in BOOLEAN
  BY <1>1, Zenon
<1>8. OwnTypes'
  BY <1>1, <1>4, <1>5, <1>6, <1>7 DEF LoggerInv, OwnTypes
<1>9. QueueInv(p, t)'
  BY <1>1, <1>3, QueueFrame
<1>10. Written(t)'
  BY <1>1, <1>3, <1>4, <1>6 DEF Written, queueVars
<1> DEFINE to == IF stage[t] = "pop" THEN "test" ELSE stage[t]
<1>11. /\ t = Worker => to \in {"test", "final flush"} /\ (running => to = "test")
       /\ t = Main => to = "drain" /\ stage[Main] = "drain"
  BY <1>1, <1>3 DEF LoggerInv, Turns, Drained
<1>12. Move(t, to)
  BY <1>1
<1> HIDE DEF to
<1>13. /\ stage' \in [Consumers -> MainStages \cup WorkerStages]
       /\ stage'[t] = to /\ \A u \in Consumers : u # t => stage'[u] = stage[u]
  BY <1>3, <1>11, <1>12, MoveChanges DEF MainStages, WorkerStages
<1>14. WorkerPops' <=> WorkerPops
  BY <1>1, <1>3, <1>11, <1>13, LoggerParts DEF WorkerPops
<1>15. Turns'
  BY <1>1, <1>3, <1>11, <1>13, <1>14, LoggerParts DEF LoggerInv, Turns, MainStages, WorkerStages
<1>16. InTheLoop'
  BY <1>1, <1>2, <1>6, <1>13 DEF LoggerInv, InTheLoop, Idle, queueVars
<1>17. Drained(p)'
  BY <1>1, <1>3, <1>6, <1>11, <1>13, <1>14, LoggerParts DEF LoggerInv, Drained, queueVars
<1> QED BY <1>3, <1>8, <1>9, <1>10, <1>14, <1>15, <1>16, <1>17 DEF LoggerInv, Reader

\* The invariant is kept by every step.
LEMMA LoggerNextKeeps ==
  ASSUME NEW p, Disciplined(p), LoggerInv(p), [LoggerNext]_loggerVars
  PROVE  LoggerInv(p)'
<1>1. ASSUME NEW t \in Threads, Observe(t), UNCHANGED ownVars PROVE LoggerInv(p)'
  BY <1>1, LoggerObserves
<1>2. ASSUME NEW t \in Producers, Log(t) PROVE LoggerInv(p)'
  BY <1>2, LogKeeps
<1>3. ASSUME NEW level \in Levels, SetLevel(level) PROVE LoggerInv(p)'
  BY <1>3, SetLevelKeeps
<1>4. ASSUME NEW path \in Paths, Start(path) PROVE LoggerInv(p)'
  BY <1>4, StartKeeps
<1>5. CASE StopBegin \/ FlushBegin \/ IntervalElapses
  BY <1>5, StopBeginKeeps, FlushBeginKeeps, IntervalKeeps
<1>6. CASE OwnerStep
  BY <1>6, StopJoinKeeps, StopCloseKeeps, PopMessageKeeps, WriteKeeps, LoggerParts DEF OwnerStep
<1>7. CASE WorkerStep
  BY <1>7, WorkerTestKeeps, PopMessageKeeps, WriteKeeps, LoggerParts DEF WorkerStep
<1>8. CASE UNCHANGED loggerVars
  <2>1. UNCHANGED queueVars /\ UNCHANGED ownVars /\ \A t \in Consumers : at'[t] = at[t]
    BY <1>8 DEF loggerVars, queueVars
  <2>2. UNCHANGED <<queueVars, line, lines>>
    BY <2>1 DEF ownVars, output
  <2>3. OwnTypes' /\ Turns' /\ InTheLoop' /\ (WorkerPops' <=> WorkerPops)
    BY <2>1, OwnFrame
  <2>4. (WorkerPops => Reader(p, Worker)') /\ (~WorkerPops => Reader(p, Main)')
    BY <2>2, ReaderFrame DEF LoggerInv
  <2>5. Drained(p)'
    BY <2>1, <2>3 DEF LoggerInv, Drained, queueVars, ownVars, output
  <2> QED BY <2>3, <2>4, <2>5 DEF LoggerInv
<1> QED BY <1>1, <1>2, <1>3, <1>4, <1>5, <1>6, <1>7, <1>8 DEF LoggerNext

-----------------------------------------------------------------------------
(* Theorems *)

\* The invariant holds of every behaviour.
LEMMA LoggerInvariant ==
  ASSUME NEW p, Disciplined(p)
  PROVE  LoggerSpec => []LoggerInv(p)
<1>1. LoggerInit => LoggerInv(p)
  BY LoggerInitInv
<1>2. LoggerInv(p) /\ [LoggerNext]_loggerVars => LoggerInv(p)'
  BY LoggerNextKeeps
<1> QED BY <1>1, <1>2, PTL DEF LoggerSpec

\* The logger's state keeps its types, in whatever order it is started, stopped
\* and flushed (AsyncLogger.hpp:82-217).
THEOREM LoggerTypeCorrect ==
  ASSUME NEW p, Disciplined(p)
  PROVE  LoggerSpec => []LoggerTypeOK
<1>1. LoggerInv(p) => LoggerTypeOK
  <2> SUFFICES ASSUME LoggerInv(p) PROVE LoggerTypeOK
    OBVIOUS
  <2>1. QueueTypeOK
    BY DEF LoggerInv, Reader, QueueInv
  <2>2. stage[Main] \in MainStages /\ stage[Worker] \in WorkerStages
    BY DEF LoggerInv, Turns
  <2>3. OwnTypes /\ log_file \in {"none", "open", "broken"}
    BY DEF LoggerInv, OwnTypes
  <2> QED BY <2>1, <2>2, <2>3, Zenon DEF OwnTypes, LoggerTypeOK, MainStages, WorkerStages
<1> QED BY <1>1, LoggerInvariant, PTL

\* The output is what was accepted, in order and each once, up to some point: the
\* worker and the caller of flush never pop at the same time, and what one of
\* them pops it writes before it pops again (AsyncLogger.hpp:167-172,187-236).
THEOREM LoggerWritesInOrder ==
  ASSUME NEW p, Disciplined(p)
  PROVE  LoggerSpec => []LinesInOrder
<1>1. ASSUME NEW c, OnePusher(p, c), QueueInv(p, c), Written(c),
             lines \in Seq(Items \cup {NoItem})
      PROVE  LinesInOrder
  <2>1. /\ received \in Seq(Items \cup {NoItem}) /\ sent \in Seq(Items)
        /\ Len(received) <= Len(sent) /\ \A k \in 1 .. Len(received) : received[k] = sent[k]
        /\ Len(received) \in Nat /\ Len(sent) \in Nat
    BY <1>1, StateTypes DEF QueueInv, QueueTypeOK, Indexed, Contents
  <2>2. /\ Len(lines) \in Nat /\ Len(lines) <= Len(received)
        /\ \A k \in 1 .. Len(lines) : lines[k] = received[k]
    <3>1. CASE line[c] = NoItem
      BY <1>1, <2>1, <3>1, LenProperties DEF Written
    <3>2. CASE line[c] # NoItem
      <4>1. received = Append(lines, line[c]) /\ Len(lines) \in Nat
        BY <1>1, <3>2, LenProperties DEF Written
      <4>2. Len(received) = Len(lines) + 1 /\ \A k \in 1 .. Len(lines) : received[k] = lines[k]
        BY <1>1, <4>1
      <4> QED BY <4>1, <4>2
    <3> QED BY <3>1, <3>2
  <2>3. Len(lines) <= Len(sent) /\ \A k \in 1 .. Len(lines) : lines[k] = sent[k]
    BY <2>1, <2>2
  <2> QED BY <1>1, <2>1, <2>3, SamePrefix DEF LinesInOrder
<1>2. LoggerInv(p) => LinesInOrder
  <2> SUFFICES ASSUME LoggerInv(p) PROVE LinesInOrder
    OBVIOUS
  <2>1. lines \in Seq(Items \cup {NoItem})
    BY DEF LoggerInv, OwnTypes
  <2> QED BY <1>1, <2>1, LoggerParts DEF LoggerInv, Reader
<1> QED BY <1>2, LoggerInvariant, PTL

\* When stop has returned, everything accepted is written, and no line is left in
\* the file's buffer: the worker may leave with the ring not empty in its eyes,
\* but the owner, which joined it and sees what it saw, pops the rest and closes
\* the file, where there is one (AsyncLogger.hpp:102-120).  Nothing is said of
\* std::cout's buffer, which the logger never flushes.
THEOREM StopWritesEverything ==
  ASSUME NEW p, Disciplined(p)
  PROVE  LoggerSpec => []StopLeavesNothingBehind
<1>1. LoggerInv(p) => StopLeavesNothingBehind
  <2> SUFFICES ASSUME LoggerInv(p), ~running, stage[Main] = "idle"
               PROVE  Len(lines) >= Len(sent) /\ file_held = 0
    BY DEF StopLeavesNothingBehind
  <2>1. ~WorkerPops
    BY DEF WorkerPops
  <2>2. Len(received) = Len(sent) /\ line[Main] = NoItem /\ file_held = 0
    BY <2>1 DEF LoggerInv, Drained, OwnTypes
  <2>3. received = lines
    BY <2>1, <2>2 DEF LoggerInv, Reader, Written
  <2> QED BY <2>2, <2>3, LoggerParts
<1> QED BY <1>1, LoggerInvariant, PTL
=============================================================================
