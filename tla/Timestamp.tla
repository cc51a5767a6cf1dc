------------------------------ MODULE Timestamp ------------------------------
(****************************************************************************)
(* The clocks of include/utils/Timestamp.hpp and RDTSCCalibrator, which     *)
(* turns cycles into nanoseconds with a factor it measures once.            *)
(*                                                                          *)
(* The counter goes on one cycle at a time; CLOCK_MONOTONIC goes on every   *)
(* CyclesPerNs cycles.  The factor is a fraction, kept exactly.             *)
(****************************************************************************)
EXTENDS Integers, Sequences, FiniteSets

CONSTANTS
  Main,         \* the thread that calibrates, where AtStartup
  Readers,      \* the threads that take the time
  AtStartup,    \* whether main calibrates before anybody takes the time
  CyclesPerNs,  \* what the processor does
  MaxCycles,    \* bound on the counter
  MaxReadings   \* bound on the readings that are converted

ASSUME TimestampAssumption ==
  /\ Main \notin Readers /\ AtStartup \in BOOLEAN
  /\ CyclesPerNs \in Nat \ {0} /\ MaxCycles \in Nat /\ MaxReadings \in Nat

VARIABLES
  tsc,           \* the time stamp counter
  calibrated,    \* calibrate's static flag
  ns_per_cycle,  \* ns_per_cycle_, as <<nanoseconds, cycles>>
  stage,         \* where each thread is in calibrate and cyclesToNs
  since,         \* start_cycles_ of each reader's LatencyTimerRDTSC
  cycles,        \* the cycles it converts
  first,         \* rdtsc_start and ts_start of its calibration
  readings       \* <<cycles, nanoseconds>> of every conversion so far

Threads == Readers \cup {Main}

calibration == <<calibrated, ns_per_cycle>>
clockVars == <<tsc, calibration, stage, since, cycles, first, readings>>

MonotonicNs == tsc \div CyclesPerNs   \* getMonotonicNs

Move(t, to) == stage' = [stage EXCEPT ![t] = to]

ClockInit ==
  /\ tsc = 0
  /\ calibrated = FALSE
  /\ ns_per_cycle = <<2, 5>>
  /\ stage = [t \in Threads |-> IF AtStartup /\ t = Main THEN "calibrate" ELSE "out"]
  /\ since = [t \in Readers |-> 0]
  /\ cycles = [t \in Threads |-> 0]
  /\ first = [t \in Threads |-> <<0, 0>>]
  /\ readings = {}

Started == AtStartup => stage[Main] # "calibrate" /\ calibrated

Tick ==
  /\ tsc < MaxCycles
  /\ tsc' = tsc + 1
  /\ UNCHANGED <<calibration, stage, since, cycles, first, readings>>

\* A timer is made, or its reset is called.
ResetTimer(t) ==
  /\ stage[t] = "out" /\ Started
  /\ since[t] # tsc
  /\ since' = [since EXCEPT ![t] = tsc]
  /\ UNCHANGED <<tsc, calibration, stage, cycles, first, readings>>

\* getTimestampNsRDTSC, and elapsedNs of the timer: rdtsc comes first, the
\* calibration after it.
Read(t) ==
  /\ stage[t] = "out" /\ Started
  /\ Cardinality(readings) < MaxReadings
  /\ \E origin \in {0, since[t]} : cycles' = [cycles EXCEPT ![t] = tsc - origin]
  /\ Move(t, "calibrate")
  /\ UNCHANGED <<tsc, calibration, since, first, readings>>

-----------------------------------------------------------------------------
(* calibrate: the flag, and the readings around the busy wait; the two      *)
(* clocks of a pair are read at one instant.  cycles_per_ns_ is the inverse *)
(* of the factor, and its user nsToCycles has no caller.                    *)

\* Mutant of Calibrate: it measures every time.
CalibrateAlways(t) ==
  /\ stage[t] = "calibrate"
  /\ first' = [first EXCEPT ![t] = <<tsc, MonotonicNs>>]
  /\ Move(t, "wait")
  /\ UNCHANGED <<tsc, calibration, since, cycles, readings>>

Calibrate(t) ==
  /\ stage[t] = "calibrate"
  /\ IF calibrated THEN Move(t, "convert") /\ UNCHANGED first
     ELSE /\ first' = [first EXCEPT ![t] = <<tsc, MonotonicNs>>]
          /\ Move(t, "wait")
  /\ UNCHANGED <<tsc, calibration, since, cycles, readings>>

\* Mutant of StoreFactor: clocks that have not moved are not told apart.
StoreFactorUnchecked(t) ==
  /\ stage[t] = "wait"
  /\ ns_per_cycle' = <<MonotonicNs - first[t][2], tsc - first[t][1]>>
  /\ first' = [first EXCEPT ![t] = <<0, 0>>]
  /\ Move(t, "flag")
  /\ UNCHANGED <<tsc, calibrated, since, cycles, readings>>

\* The factor becomes the assumed 2.5 GHz when either clock has not moved.
StoreFactor(t) ==
  /\ stage[t] = "wait"
  /\ LET elapsed == tsc - first[t][1]
         ns == MonotonicNs - first[t][2]
     IN ns_per_cycle' = IF elapsed > 0 /\ ns > 0 THEN <<ns, elapsed>> ELSE <<2, 5>>
  /\ first' = [first EXCEPT ![t] = <<0, 0>>]
  /\ Move(t, "flag")
  /\ UNCHANGED <<tsc, calibrated, since, cycles, readings>>

SetCalibrated(t) ==
  /\ stage[t] = "flag"
  /\ calibrated' = TRUE
  /\ Move(t, IF t = Main THEN "out" ELSE "convert")
  /\ UNCHANGED <<tsc, ns_per_cycle, since, cycles, first, readings>>

CyclesToNs(t) ==
  /\ stage[t] = "convert"
  /\ readings' = readings \cup
       {<<cycles[t], (cycles[t] * ns_per_cycle[1]) \div ns_per_cycle[2]>>}
  /\ cycles' = [cycles EXCEPT ![t] = 0]
  /\ Move(t, "out")
  /\ UNCHANGED <<tsc, calibration, since, first>>

ClockNext ==
  \/ Tick
  \/ \E t \in Readers : ResetTimer(t) \/ Read(t) \/ CyclesToNs(t)
  \/ \E t \in Threads : Calibrate(t) \/ StoreFactor(t) \/ SetCalibrated(t)

-----------------------------------------------------------------------------
(* Properties *)

\* The state has its types; the factor is never 0 and never divides by 0.
ClockTypeOK ==
  /\ tsc \in 0 .. MaxCycles
  /\ calibrated \in BOOLEAN
  /\ ns_per_cycle \in ({2} \cup 1 .. MaxCycles) \X ({5} \cup 1 .. MaxCycles)
  /\ stage \in [Threads -> {"out", "calibrate", "wait", "flag", "convert"}]
  /\ since \in [Readers -> 0 .. MaxCycles] /\ cycles \in [Threads -> 0 .. MaxCycles]
  /\ first \in [Threads -> (0 .. MaxCycles) \X (0 .. MaxCycles)]
  /\ readings \subseteq Nat \X Nat

\* Two readings of any readers compare as the cycles they stand for, once main has
\* calibrated before them: the factor does not change between them ("Must be called
\* once at startup to calibrate", Timestamp.hpp:57,60-62).
ReadingsKeepOrder ==
  \A a, b \in readings : a[1] <= b[1] => a[2] <= b[2]
=============================================================================
