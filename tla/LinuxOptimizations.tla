------------------------- MODULE LinuxOptimizations -------------------------
(****************************************************************************)
(* initializeHftOptimizations of include/utils/LinuxOptimizations.hpp, as   *)
(* main calls it: a sequence of system calls, each of which may fail, for   *)
(* the calling thread only.  Threads started later inherit what it leaves.  *)
(* Memory policies, which place data and decide nothing here, are left out. *)
(****************************************************************************)
EXTENDS Naturals, FiniteSets, FiniteSetsExt

CONSTANTS
  Cpus,    \* CPUs of the machine
  CpuId,   \* the cpu_id main passes
  Nodes,   \* its NUMA nodes
  NodeOf,  \* the node of each CPU
  Stride   \* CPUs a node is guessed to have (8)

ASSUME LinuxOptimizationsAssumption ==
  /\ CpuId \in Cpus /\ Cpus \subseteq Nat
  /\ Nodes \subseteq Nat /\ NodeOf \in [Cpus -> Nodes]
  /\ Stride \in Nat

VARIABLES
  libnuma,   \* whether the program was built with libnuma, and it works
  hft,       \* the next step of initializeHftOptimizations
  allowed,   \* CPUs the process may use (its cpuset)
  affinity,  \* the calling thread's CPUs
  fifo,      \* whether its scheduling is SCHED_FIFO
  locked,    \* whether memory is locked
  success    \* success

hftVars == <<libnuma, hft, allowed, affinity, fifo, locked, success>>

HftInit ==
  /\ libnuma \in BOOLEAN
  /\ hft = "lock"
  /\ allowed \in SUBSET Cpus \ {{}}
  /\ affinity = allowed
  /\ fifo = FALSE
  /\ locked = FALSE
  /\ success = TRUE

\* mlockall; a failure is ignored.
LockMemory ==
  /\ hft = "lock"
  /\ locked' \in BOOLEAN
  /\ hft' = "numa"
  /\ UNCHANGED <<libnuma, allowed, affinity, fifo, success>>

\* sched_setaffinity and pthread_setaffinity_np for one CPU, which fail for one
\* outside the cpuset.
PinTo(cpu) == affinity' = IF cpu \in allowed THEN {cpu} ELSE affinity

\* What getNumaNode may return.  Without libnuma it reads from a directory, and
\* its result is indeterminate: any node, or none there is.
NumaNode == IF libnuma THEN {NodeOf[CpuId]} ELSE Nodes

\* The first CPU of a node, or what the fallback takes it to be.
FirstCpu(node) ==
  IF libnuma THEN Min({c \in Cpus : NodeOf[c] = node}) ELSE node * Stride

\* The thread is pinned to the first CPU of the node, if there is such a node.
BindThreadToNumaNode ==
  /\ hft = "numa"
  /\ \/ \E node \in NumaNode : PinTo(FirstCpu(node))
     \/ ~libnuma /\ UNCHANGED affinity
  /\ hft' = "affinity"
  /\ UNCHANGED <<libnuma, allowed, fifo, locked, success>>

\* Mutant of SetCpuAffinity: a thread that has been pinned stays where it is.
SetCpuAffinityOnce ==
  /\ hft = "affinity"
  /\ IF affinity = allowed THEN PinTo(CpuId) ELSE UNCHANGED affinity
  /\ success' = (CpuId \in allowed)
  /\ hft' = "priority"
  /\ UNCHANGED <<libnuma, allowed, fifo, locked>>

\* setCpuAffinity, whose failure is the only one reported, and pinThreadToCpu,
\* which asks for the same once more.
SetCpuAffinity ==
  /\ hft = "affinity"
  /\ PinTo(CpuId)
  /\ success' = (CpuId \in allowed)
  /\ hft' = "priority"
  /\ UNCHANGED <<libnuma, allowed, fifo, locked>>

\* sched_setscheduler needs a privilege; a failure is ignored.
SetRealtimePriority ==
  /\ hft = "priority"
  /\ fifo' \in BOOLEAN
  /\ hft' = "done"
  /\ UNCHANGED <<libnuma, allowed, affinity, locked, success>>

InitializeHftOptimizations ==
  LockMemory \/ BindThreadToNumaNode \/ SetCpuAffinity \/ SetRealtimePriority

-----------------------------------------------------------------------------
(* Properties *)

\* When main is told that the affinity is set ("CPU affinity set", main.cpp:38),
\* it runs on cpu_id alone, wherever the NUMA step pinned it before
\* (LinuxOptimizations.hpp:209-220).
PinnedOnSuccess == hft = "done" /\ success => affinity = {CpuId}

\* When main is told that the optimizations are made, memory is locked ("Memory
\* locked", main.cpp:39): a failed mlockall is not reported (LinuxOptimizations.hpp:203-206).
LockedOnSuccess == hft = "done" /\ success => locked
=============================================================================
