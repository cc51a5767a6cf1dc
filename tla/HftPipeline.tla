---------------------------- MODULE HftPipeline ----------------------------
(****************************************************************************)
(* main's two demonstration threads as main starts them, after              *)
(* initializeHftOptimizations: they inherit its thread's CPUs and its       *)
(* scheduling class.  On one CPU under SCHED_FIFO a thread runs until it    *)
(* sleeps or ends, so that each depends on the other's sleeps.              *)
(****************************************************************************)
EXTENDS OrderPipeline, LinuxOptimizations

VARIABLE
  runq  \* the threads that can run, in the order of the CPU's run queue

hpVars == <<pipelineVars, hftVars, runq>>

HpInit == PipelineInit /\ HftInit /\ runq = <<Feed, Engine>>

\* On one CPU, a real-time thread is preempted by no other of its priority.
NotPreempted == fifo /\ Cardinality(affinity) = 1

MayRun(t) ==
  /\ hft = "done"
  /\ IF NotPreempted THEN runq # <<>> /\ Head(runq) = t ELSE t \in ToSet(runq)

\* t sleeps, or has ended.
Leave(t) == runq' = SelectSeq(runq, LAMBDA u : u # t)

\* A sleep ends.
Wake(t) ==
  /\ t \notin ToSet(runq) /\ stage[t] # "exited"
  /\ runq' = Append(runq, t)
  /\ UNCHANGED <<pipelineVars, hftVars>>

\* One iteration of the producer: after the push, successful or not, it sleeps.
FeedRuns ==
  /\ MayRun(Feed)
  /\ \/ Allocate /\ UNCHANGED runq
     \/ Push /\ IF at'[Feed] = "out" THEN Leave(Feed) ELSE UNCHANGED runq
     \/ Finish /\ UNCHANGED runq
     \/ Exit /\ Leave(Feed)
  /\ UNCHANGED hftVars

\* Mutant of AfterPop: a consumer that found the queue empty asks again at once.
AfterPopSpins == UNCHANGED runq

\* A consumer that found the queue empty sleeps.
AfterPop == IF stage'[Engine] = "test" THEN Leave(Engine) ELSE UNCHANGED runq

EngineRuns ==
  /\ MayRun(Engine)
  /\ \/ Test /\ IF stage'[Engine] = "exited" THEN Leave(Engine) ELSE UNCHANGED runq
     \/ Pop /\ AfterPop
     \/ Process /\ UNCHANGED runq
  /\ UNCHANGED hftVars

Visible == (ObserveDone \/ \E t \in Threads : ObserveIndex(t)) /\ UNCHANGED <<hftVars, runq>>

HpNext ==
  \/ InitializeHftOptimizations /\ UNCHANGED <<pipelineVars, runq>>
  \/ Visible \/ FeedRuns \/ EngineRuns
  \/ \E t \in Threads : Wake(t)
  \/ Joined /\ UNCHANGED hpVars

\* System calls return, sleeps end, threads that may run are run, and stores
\* become visible in finite time.
FairHpSpec ==
  /\ HpInit /\ [][HpNext]_hpVars
  /\ WF_hpVars(InitializeHftOptimizations /\ UNCHANGED <<pipelineVars, runq>>)
  /\ \A t \in Threads :
       /\ WF_hpVars(Wake(t))
       /\ WF_hpVars(ObserveIndex(t) /\ UNCHANGED <<hftVars, runq>>)
  /\ WF_hpVars(ObserveDone /\ UNCHANGED <<hftVars, runq>>)
  /\ WF_hpVars(FeedRuns) /\ WF_hpVars(EngineRuns)
=============================================================================
