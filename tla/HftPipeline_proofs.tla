-------------------------- MODULE HftPipeline_proofs --------------------------
(* Theorems about main's two demonstration threads: however main's thread was  *)
(* pinned and scheduled, the consumer leaves with all that was pushed.         *)
EXTENDS HftPipeline, SPSCQueue_proofs

-----------------------------------------------------------------------------
(* The two threads *)

FeedStages == {"loop", "done", "exited"}
EngineStages == {"test", "pop", "read", "exited"}

\* The lambdas keep to their parts of the queue: the producer is out of push when
\* it has left its loop, the consumer is in pop only where it calls it.
Staged ==
  /\ stage \in [Threads -> FeedStages \cup EngineStages]
  /\ stage[Feed] \in FeedStages /\ stage[Engine] \in EngineStages
  /\ producer_done <=> stage[Feed] # "loop"
  /\ stage[Feed] # "loop" => at[Feed] = "out"
  /\ stage[Engine] # "pop" => at[Engine] = "out"
  /\ next_free \in Nat

\* Having seen that the producer is done, the consumer sees all it has pushed.
SeesTheEnd == saw_done => producer_done /\ view[Engine].write = write_pos

\* The consumer counts what it pops, and leaves only when it has popped it all.
Counted ==
  /\ Len(received) = processed + (IF stage[Engine] = "read" THEN 1 ELSE 0)
  /\ processed \in Nat
  /\ stage[Engine] = "exited" => saw_done /\ Len(received) = Len(sent)

PipelineInv == QueueInv(Feed, Engine) /\ Staged /\ SeesTheEnd /\ Counted

\* main starts one thread that pushes and one that pops (main.cpp:107-157).
LEMMA OneFeedOneEngine ==
  /\ OneEach(Feed, Engine) /\ OnePusher(Feed, Engine)
  /\ Threads = {Feed, Engine} /\ Feed # Engine
BY OrderPipelineAssumption DEF OneEach, OnePusher, Threads

\* Both threads start, over an empty queue and a whole pool.
LEMMA PipelineInitInv == PipelineInit => PipelineInv
<1> SUFFICES ASSUME PipelineInit PROVE PipelineInv
  OBVIOUS
<1>1. QueueInv(Feed, Engine)
  BY OneFeedOneEngine, InitQueue DEF PipelineInit
<1>2. Len(received) = 0
  BY EmptySeq DEF PipelineInit, Init
<1> QED BY <1>1, <1>2, OneFeedOneEngine
        DEF PipelineInit, Init, PipelineInv, Staged, SeesTheEnd, Counted, FeedStages, EngineStages

\* What a step of one thread leaves alone of the other.
LEMMA QueueParts ==
  ASSUME PipelineInv
  PROVE  /\ OnePusher(Feed, Engine) /\ QueueInv(Feed, Engine)
         /\ Feed \in Threads /\ Engine \in Threads /\ Feed # Engine
         /\ Len(sent) \in Nat /\ Len(received) \in Nat
         /\ at \in [Threads -> Labels]
         /\ view \in [Threads -> [write : Slots, read : Slots]]
         /\ item \in [Threads -> Items \cup {NoItem}]
         /\ sent \in Seq(Items) /\ received \in Seq(Items \cup {NoItem})
         /\ stage \in [Threads -> FeedStages \cup EngineStages]
         /\ OnlyPusher(Feed) /\ OnlyPopper(Engine)
BY OneFeedOneEngine, StateTypes
   DEF PipelineInv, QueueInv, QueueTypeOK, Staged, Indexed

\* The producer's turns: it publishes only from within push, in its loop
\* (main.cpp:109-131).
LEMMA FeedKeeps == PipelineInv /\ FeedStep => PipelineInv'
<1> SUFFICES ASSUME PipelineInv, FeedStep PROVE PipelineInv'
  OBVIOUS
<1> USE DEF PipelineInv
<1>1. /\ OnePusher(Feed, Engine) /\ Feed \in Threads /\ Engine \in Threads /\ Feed # Engine
      /\ at \in [Threads -> Labels] /\ stage \in [Threads -> FeedStages \cup EngineStages]
      /\ view \in [Threads -> [write : Slots, read : Slots]]
  BY QueueParts
<1>2. CASE Allocate
  <2>1. next_free + 1 \in Items
    BY <1>2, SPSCQueueAssumption DEF Allocate, Items, Staged
  <2>2. QueueInv(Feed, Engine)'
    BY <1>1, <1>2, <2>1, PushBeginKeeps DEF Allocate
  <2>3. at'[Engine] = at[Engine] /\ stage[Feed] = "loop" /\ next_free' \in Nat
    BY <1>1, <1>2 DEF Allocate, PushBegin, Goto, PoolAllocate, Staged
  <2> QED BY <1>2, <2>2, <2>3
          DEF Allocate, PushBegin, Goto, Staged, SeesTheEnd, Counted
<1>3. CASE Push
  <2>1. QueueInv(Feed, Engine)'
    BY <1>1, <1>3, PushCheckKeeps, PushStoreKeeps, PushPublishKeeps DEF Push
  <2>2. at[Feed] # "out" /\ at'[Engine] = at[Engine] /\ view'[Engine] = view[Engine]
    BY <1>1, <1>3 DEF Push, PushCheck, PushStore, PushPublish, Goto
  <2>3. stage[Feed] = "loop" /\ ~producer_done
    BY <2>2 DEF Staged
  <2>4. ~saw_done /\ stage[Engine] # "exited"
    BY <2>3 DEF SeesTheEnd, Counted
  <2>5. received' = received
    BY <1>3 DEF Push, PushCheck, PushStore, PushPublish
  <2> QED BY <1>3, <2>1, <2>2, <2>3, <2>4, <2>5 DEF Push, Staged, SeesTheEnd, Counted
<1>4. CASE Finish
  <2>1. QueueInv(Feed, Engine)' /\ UNCHANGED queueVars
    BY <1>4, OneFeedOneEngine, NextQueue DEF Finish
  <2>2. stage'[Feed] = "done" /\ stage'[Engine] = stage[Engine]
    BY <1>1, <1>4 DEF Finish, Move
  <2>3. stage' \in [Threads -> FeedStages \cup EngineStages]
    BY <1>1, <1>4 DEF Finish, Move, FeedStages
  <2> QED BY <1>4, <2>1, <2>2, <2>3
          DEF Finish, queueVars, Staged, SeesTheEnd, Counted, FeedStages
<1>5. CASE Exit
  <2>1. QueueInv(Feed, Engine)' /\ UNCHANGED queueVars
    BY <1>5, OneFeedOneEngine, NextQueue DEF Exit
  <2>2. stage'[Feed] = "exited" /\ stage'[Engine] = stage[Engine]
    BY <1>1, <1>5 DEF Exit, Move
  <2>3. stage' \in [Threads -> FeedStages \cup EngineStages]
    BY <1>1, <1>5 DEF Exit, Move, FeedStages
  <2> QED BY <1>5, <2>1, <2>2, <2>3
          DEF Exit, queueVars, Staged, SeesTheEnd, Counted, FeedStages
<1> QED BY <1>2, <1>3, <1>4, <1>5 DEF FeedStep

\* A consumer that sees the end of the producer, and then an empty queue, has
\* popped everything: its value of write_pos_ is the last (main.cpp:140).
LEMMA EmptyAtTheEnd ==
  ASSUME PipelineInv, saw_done, IsEmpty(Engine)
  PROVE  Len(received) = Len(sent)
<1>1. /\ write_pos = Len(sent) % Size /\ read_pos = Len(received) % Size
      /\ view[Engine].read = read_pos /\ view[Engine].write = write_pos
      /\ Len(received) <= Len(sent) /\ Len(sent) - Len(received) < Size
  BY DEF PipelineInv, SeesTheEnd, QueueInv, Indexed
<1>2. Len(received) % Size = Len(sent) % Size
  BY <1>1 DEF IsEmpty
<1>3. Len(sent) \in Nat /\ Len(received) \in Nat
  BY QueueParts
<1> QED BY <1>1, <1>2, <1>3, SlotsDiffer

\* The consumer's turns (main.cpp:138-157).
LEMMA EngineKeeps == PipelineInv /\ EngineStep => PipelineInv'
<1> SUFFICES ASSUME PipelineInv, EngineStep PROVE PipelineInv'
  OBVIOUS
<1> USE DEF PipelineInv
<1>1. /\ OnePusher(Feed, Engine) /\ Feed \in Threads /\ Engine \in Threads /\ Feed # Engine
      /\ at \in [Threads -> Labels] /\ stage \in [Threads -> FeedStages \cup EngineStages]
      /\ view \in [Threads -> [write : Slots, read : Slots]]
      /\ received \in Seq(Items \cup {NoItem}) /\ Len(received) \in Nat
  BY QueueParts
<1>2. ASSUME NEW to \in EngineStages, Move(Engine, to)
      PROVE  /\ stage'[Engine] = to /\ stage'[Feed] = stage[Feed]
             /\ stage' \in [Threads -> FeedStages \cup EngineStages]
  BY <1>1, <1>2 DEF Move
<1>3. CASE Test
  <2> DEFINE to == IF saw_done /\ IsEmpty(Engine) THEN "exited" ELSE "pop"
  <2>1. QueueInv(Feed, Engine)' /\ UNCHANGED queueVars
    BY <1>3, OneFeedOneEngine, NextQueue DEF Test
  <2>2. to \in EngineStages /\ Move(Engine, to)
    BY <1>3 DEF Test, EngineStages
  <2>3. /\ stage'[Engine] = to /\ stage'[Feed] = stage[Feed]
        /\ stage' \in [Threads -> FeedStages \cup EngineStages]
    BY <1>2, <2>2
  <2>4. Counted'
    BY <1>3, <2>1, <2>3, EmptyAtTheEnd DEF Test, queueVars, Counted
  <2>5. Staged'
    BY <1>3, <2>1, <2>2, <2>3 DEF Test, queueVars, Staged
  <2> QED BY <1>3, <2>1, <2>4, <2>5 DEF Test, queueVars, SeesTheEnd
<1>4. CASE Pop
  <2> USE DEF Pop, Goto
  <2>1. QueueInv(Feed, Engine)'
    BY <1>1, <1>4, PopBeginKeeps, PopCheckKeeps, PopLoadKeeps, PopAdvanceKeeps
  <2>2. /\ at'[Feed] = at[Feed] /\ view'[Engine].write = view[Engine].write
        /\ UNCHANGED <<write_pos, sent, producer_done, saw_done, next_free, processed>>
        /\ stage[Engine] = "pop"
    BY <1>1, <1>4 DEF PopBegin, PopCheck, PopLoad, PopAdvance
  <2>3. SeesTheEnd'
    BY <2>2 DEF SeesTheEnd
  <2>4. CASE PopBegin(Engine) /\ UNCHANGED stage
    BY <2>1, <2>2, <2>3, <2>4 DEF PopBegin, Staged, Counted
  <2>5. CASE PopCheck(Engine) /\ (IF HasItem(Engine) THEN UNCHANGED stage ELSE Move(Engine, "test"))
    <3>1. CASE HasItem(Engine)
      BY <2>1, <2>2, <2>3, <2>5, <3>1 DEF PopCheck, Staged, Counted
    <3>2. CASE ~HasItem(Engine)
      <4>1. /\ stage'[Engine] = "test" /\ stage'[Feed] = stage[Feed]
            /\ stage' \in [Threads -> FeedStages \cup EngineStages]
        BY <1>2, <2>5, <3>2 DEF EngineStages
      <4>2. at'[Engine] = "out"
        BY <1>1, <2>5, <3>2 DEF PopCheck
      <4> QED BY <2>1, <2>2, <2>3, <2>5, <4>1, <4>2
              DEF PopCheck, Staged, Counted, EngineStages
    <3> QED BY <3>1, <3>2
  <2>6. CASE PopLoad(Engine) /\ UNCHANGED stage
    BY <2>1, <2>2, <2>3, <2>6 DEF PopLoad, Staged, Counted
  <2>7. CASE PopAdvance(Engine) /\ Move(Engine, "read")
    <3>1. /\ stage'[Engine] = "read" /\ stage'[Feed] = stage[Feed]
          /\ stage' \in [Threads -> FeedStages \cup EngineStages]
      BY <1>2, <2>7 DEF EngineStages
    <3>2. at'[Engine] = "out"
      BY <1>1, <2>7 DEF PopAdvance
    <3>3. Len(received') = Len(received) + 1
      <4>1. item[Engine] \in Items \cup {NoItem}
        BY <1>1, QueueParts
      <4>2. received' = Append(received, item[Engine])
        BY <2>7 DEF PopAdvance
      <4> QED BY <1>1, <4>1, <4>2, AppendProperties
    <3> QED BY <1>1, <2>1, <2>2, <2>3, <3>1, <3>2, <3>3 DEF Staged, Counted, EngineStages
  <2> QED BY <1>4, <2>4, <2>5, <2>6, <2>7
<1>5. CASE Process
  <2>1. QueueInv(Feed, Engine)' /\ UNCHANGED queueVars
    BY <1>5, OneFeedOneEngine, NextQueue DEF Process
  <2>2. /\ stage'[Engine] = "test" /\ stage'[Feed] = stage[Feed]
        /\ stage' \in [Threads -> FeedStages \cup EngineStages]
    BY <1>2, <1>5 DEF Process, EngineStages
  <2> QED BY <1>5, <2>1, <2>2
          DEF Process, queueVars, Staged, SeesTheEnd, Counted, EngineStages
<1> QED BY <1>3, <1>4, <1>5 DEF EngineStep

\* Stores become visible: the flag comes with all that was stored before it
\* (main.cpp:131,140).
LEMMA VisibleKeeps ==
  ASSUME PipelineInv, ObserveDone \/ \E t \in Threads : ObserveIndex(t)
  PROVE  PipelineInv'
<1> USE DEF PipelineInv
<1>1. /\ OnePusher(Feed, Engine) /\ Feed \in Threads /\ Engine \in Threads /\ Feed # Engine
      /\ Threads = {Feed, Engine}
      /\ view \in [Threads -> [write : Slots, read : Slots]]
  BY QueueParts, OneFeedOneEngine
<1>2. ASSUME NEW t \in Threads, ObserveIndex(t)
      PROVE  PipelineInv'
  <2>1. QueueInv(Feed, Engine)'
    BY <1>1, <1>2, ObserveKeeps DEF ObserveIndex
  <2>2. view[Engine].write = write_pos => view'[Engine].write = write_pos
    <3>1. PICK index \in {"write", "read"} :
            view' = [view EXCEPT ![t][index] = Indices[index]]
      BY <1>2 DEF ObserveIndex, Observe
    <3> QED BY <1>1, <3>1 DEF Indices
  <2> QED BY <1>2, <2>1, <2>2 DEF ObserveIndex, Observe, Staged, SeesTheEnd, Counted
<1>3. CASE ObserveDone
  <2>1. view'[Engine] = Indices /\ view'[Feed] = view[Feed]
        /\ view' \in [Threads -> [write : Slots, read : Slots]]
    BY <1>1, <1>3, StateTypes DEF ObserveDone, Indices
  <2>2. SeesItem(Engine)'
    <3>1. Len(sent) \in Nat /\ Len(received) \in Nat
      BY QueueParts
    <3>2. at[Engine] \in {"pop_load", "pop_advance"} => Len(received) < Len(sent)
      BY <3>1 DEF QueueInv, SeesItem
    <3> QED BY <1>3, <2>1, <3>1, <3>2 DEF ObserveDone, Indices, QueueInv, Indexed, SeesItem
  <2>3. QueueInv(Feed, Engine)'
    BY <1>3, <2>1, <2>2
       DEF ObserveDone, Indices, QueueInv, QueueTypeOK, Indexed, OnlyPusher, OnlyPopper,
           SeesRoom, Contents
  <2> QED BY <1>3, <2>1, <2>3 DEF ObserveDone, Indices, Staged, SeesTheEnd, Counted
<1> QED BY <1>2, <1>3

\* Every step of the two threads, and of the memory, keeps the invariant.
LEMMA PipelineNextInv == PipelineInv /\ [PipelineNext]_pipelineVars => PipelineInv'
<1> SUFFICES ASSUME PipelineInv, [PipelineNext]_pipelineVars PROVE PipelineInv'
  OBVIOUS
<1>1. CASE UNCHANGED pipelineVars
  <2>1. QueueInv(Feed, Engine)'
    BY <1>1, OneFeedOneEngine, NextQueue DEF pipelineVars, PipelineInv
  <2> QED BY <1>1, <2>1
          DEF pipelineVars, queueVars, PipelineInv, Staged, SeesTheEnd, Counted
<1> QED BY <1>1, FeedKeeps, EngineKeeps, VisibleKeeps DEF PipelineNext

-----------------------------------------------------------------------------
(* Theorems *)

\* However the two threads are scheduled, and however late stores become visible,
\* the consumer ends with every order that was pushed processed: it reads
\* producer_done before it asks whether the queue is empty (main.cpp:131-157).
THEOREM PipelineProcessesAll == PipelineSpec => []PushedIsProcessed
<1>1. PipelineInv => PushedIsProcessed
  BY DEF PipelineInv, Counted, PushedIsProcessed
<1> QED BY PipelineInitInv, PipelineNextInv, <1>1, PTL DEF PipelineSpec

\* Pinning, the scheduling class and the run queue only choose among the steps of
\* the two threads (main.cpp:27-40,105-160).
THEOREM HftPipelineIsAPipeline == FairHpSpec => PipelineSpec
<1>1. HpInit => PipelineInit
  BY DEF HpInit
<1>2. [HpNext]_hpVars => [PipelineNext]_pipelineVars
  <2> SUFFICES ASSUME [HpNext]_hpVars PROVE [PipelineNext]_pipelineVars
    OBVIOUS
  <2>1. CASE Visible
    BY <2>1 DEF Visible, PipelineNext
  <2>2. CASE FeedRuns
    BY <2>2 DEF FeedRuns, FeedStep, PipelineNext
  <2>3. CASE EngineRuns
    BY <2>3 DEF EngineRuns, EngineStep, PipelineNext
  <2> QED BY <2>1, <2>2, <2>3 DEF HpNext, hpVars, Wake
<1> QED BY <1>1, <1>2, PTL DEF FairHpSpec, PipelineSpec

\* The demonstration as main starts it: under any pinning and any scheduling
\* class, what was pushed is processed (main.cpp:27-40,105-160).
THEOREM HftPipelineProcessesAll == FairHpSpec => []PushedIsProcessed
BY PipelineProcessesAll, HftPipelineIsAPipeline, PTL

\* Pinned to cpu_id, whatever the NUMA step did, once its own step has succeeded.
Pinned ==
  /\ hft \in {"lock", "numa", "affinity", "priority", "done"}
  /\ hft \in {"priority", "done"} /\ success => affinity = {CpuId}

\* When initializeHftOptimizations reports success, main's thread runs on cpu_id
\* alone, on every machine, with and without libnuma, whatever CPUs the process
\* may use (LinuxOptimizations.hpp:196-235).
THEOREM SuccessIsPinned == FairHpSpec => []PinnedOnSuccess
<1>1. HpInit => Pinned
  BY DEF HpInit, HftInit, Pinned
<1>2. Pinned /\ [HpNext]_hpVars => Pinned'
  <2> SUFFICES ASSUME Pinned, [HpNext]_hpVars PROVE Pinned'
    OBVIOUS
  <2>1. CASE InitializeHftOptimizations
    <3>1. CASE LockMemory
      BY <3>1 DEF LockMemory, Pinned
    <3>2. CASE BindThreadToNumaNode
      BY <3>2 DEF BindThreadToNumaNode, Pinned
    <3>3. CASE SetCpuAffinity
      BY <3>3 DEF SetCpuAffinity, PinTo, Pinned
    <3>4. CASE SetRealtimePriority
      BY <3>4 DEF SetRealtimePriority, Pinned
    <3> QED BY <2>1, <3>1, <3>2, <3>3, <3>4 DEF InitializeHftOptimizations
  <2>2. CASE UNCHANGED hftVars
    BY <2>2 DEF hftVars, Pinned
  <2> QED BY <2>1, <2>2 DEF HpNext, hpVars, Visible, FeedRuns, EngineRuns, Wake
<1>3. Pinned => PinnedOnSuccess
  BY DEF Pinned, PinnedOnSuccess
<1> QED BY <1>1, <1>2, <1>3, PTL DEF FairHpSpec
=============================================================================
