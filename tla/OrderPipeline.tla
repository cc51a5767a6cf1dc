---------------------------- MODULE OrderPipeline ----------------------------
(****************************************************************************)
(* demonstrateSPSCQueue of src/main.cpp: a market data thread allocates     *)
(* orders from its own pool (include/utils/MemoryPool.hpp) and pushes their *)
(* pointers, a matcher thread pops and reads them until the first says it   *)
(* is done.  Item n is the pointer to the n-th order the pool gave out.     *)
(****************************************************************************)
EXTENDS SPSCQueue

CONSTANTS
  Feed,      \* the producer thread
  Engine,    \* the consumer thread
  PoolSize   \* orders in a thread's pool; further ones come from the heap

ASSUME OrderPipelineAssumption ==
  /\ Producers = {Feed} /\ Consumers = {Engine} /\ Feed # Engine
  /\ PoolSize \in Nat

VARIABLES
  producer_done,  \* producer_done
  saw_done,       \* what the consumer's load of producer_done returns
  stage,          \* where each thread is in its lambda
  next_free,      \* next_free_ of the producer's g_order_pool
  freed,          \* the orders whose memory is gone
  processed       \* the consumer's counter

pipelineVars == <<queueVars, producer_done, saw_done, stage, next_free, freed, processed>>

Move(t, to) == stage' = [stage EXCEPT ![t] = to]

PipelineInit ==
  /\ Init
  /\ producer_done = FALSE /\ saw_done = FALSE
  /\ stage = [t \in Threads |-> IF t = Feed THEN "loop" ELSE "test"]
  /\ next_free = 0
  /\ freed = {}
  /\ processed = 0

\* An acquire load that returns the producer's release store comes with all the
\* producer stored before it.  Mutant: a relaxed load does not.
ObserveDoneRelaxed ==
  /\ producer_done /\ ~saw_done
  /\ saw_done' = TRUE
  /\ UNCHANGED <<queueVars, producer_done, stage, next_free, freed, processed>>

ObserveDone ==
  /\ producer_done /\ ~saw_done
  /\ saw_done' = TRUE
  /\ view' = [view EXCEPT ![Engine] = Indices]
  /\ UNCHANGED <<buffer, write_pos, read_pos, at, pos, item, sent, received,
                 producer_done, stage, next_free, freed, processed>>

-----------------------------------------------------------------------------
(* The producer *)

\* OrderMemoryPool::allocate: the next order of the pool, or one from the heap.
PoolAllocate == next_free' = next_free + 1
FromPool(n) == n <= PoolSize

\* allocate, the order built in place, and the first load of push.  An order
\* that push refuses is not pushed again: the loop goes on to the next.
Allocate ==
  /\ stage[Feed] = "loop" /\ next_free < MaxItems
  /\ PoolAllocate
  /\ PushBegin(Feed, next_free + 1)
  /\ UNCHANGED <<producer_done, saw_done, stage, freed, processed>>

Push ==
  /\ PushCheck(Feed) \/ PushStore(Feed) \/ PushPublish(Feed)
  /\ UNCHANGED <<producer_done, saw_done, stage, next_free, freed, processed>>

Finish ==
  /\ stage[Feed] = "loop" /\ next_free = MaxItems /\ at[Feed] = "out"
  /\ producer_done' = TRUE
  /\ Move(Feed, "done")
  /\ UNCHANGED <<queueVars, saw_done, next_free, freed, processed>>

\* The thread ends, and its thread_local g_order_pool with it.
Exit ==
  /\ stage[Feed] = "done"
  /\ Move(Feed, "exited")
  /\ freed' = {n \in Items : FromPool(n)}
  /\ UNCHANGED <<queueVars, producer_done, saw_done, next_free, processed>>

-----------------------------------------------------------------------------
(* The consumer *)

\* Mutant of Test: the loop never ends.
TestNothing ==
  /\ stage[Engine] = "test"
  /\ Move(Engine, "pop")
  /\ UNCHANGED <<queueVars, producer_done, saw_done, next_free, freed, processed>>

\* while (!producer_done || !order_queue.empty())
Test ==
  /\ stage[Engine] = "test"
  /\ Move(Engine, IF saw_done /\ IsEmpty(Engine) THEN "exited" ELSE "pop")
  /\ UNCHANGED <<queueVars, producer_done, saw_done, next_free, freed, processed>>

Pop ==
  /\ stage[Engine] = "pop"
  /\ \/ PopBegin(Engine) /\ UNCHANGED stage
     \/ PopCheck(Engine)
        /\ IF HasItem(Engine) THEN UNCHANGED stage ELSE Move(Engine, "test")
     \/ PopLoad(Engine) /\ UNCHANGED stage
     \/ PopAdvance(Engine) /\ Move(Engine, "read")
  /\ UNCHANGED <<producer_done, saw_done, next_free, freed, processed>>

\* The order behind the pointer is read for the log line, and counted.
Process ==
  /\ stage[Engine] = "read"
  /\ processed' = processed + 1
  /\ Move(Engine, "test")
  /\ UNCHANGED <<queueVars, producer_done, saw_done, next_free, freed>>

FeedStep == Allocate \/ Push \/ Finish \/ Exit
EngineStep == Test \/ Pop \/ Process
ObserveIndex(t) ==
  Observe(t) /\ UNCHANGED <<producer_done, saw_done, stage, next_free, freed, processed>>

\* main joins both threads: the end is a stutter.
Joined == \A t \in Threads : stage[t] = "exited"

PipelineNext ==
  \/ \E t \in Threads : ObserveIndex(t)
  \/ ObserveDone \/ FeedStep \/ EngineStep
  \/ Joined /\ UNCHANGED pipelineVars

PipelineSpec == PipelineInit /\ [][PipelineNext]_pipelineVars

\* Both threads are scheduled, and stores become visible in finite time.
FairPipelineSpec ==
  /\ PipelineSpec
  /\ \A t \in Threads : WF_pipelineVars(ObserveIndex(t))
  /\ WF_pipelineVars(ObserveDone)
  /\ WF_pipelineVars(FeedStep) /\ WF_pipelineVars(EngineStep)

-----------------------------------------------------------------------------
(* Properties *)

\* The consumer leaves with every order that was pushed processed: it asks
\* whether the producer is done before it asks whether the queue is empty
\* (main.cpp:140,146).
PushedIsProcessed == stage[Engine] = "exited" => processed = Len(sent)

\* The two joins return (main.cpp:159-160), though orders are dropped when the
\* queue is full and the consumer only polls.
DemoReturns == <>Joined

\* The order the consumer reads is still there.  Its memory belongs to the pool
\* that is "thread-local for multi-threaded scenarios" (MemoryPool.hpp:75).
OrderIsAlive == stage[Engine] = "read" => item[Engine] \notin freed
=============================================================================
