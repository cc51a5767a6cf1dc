----------------------------- MODULE MCBenchmark -----------------------------
(* A benchmark beside threads that take the time, and the statistics of
   lists longer than the benchmark records here. *)
EXTENDS Benchmark

\* The readers are alike, and every property of the run is an invariant.
ReadersAreAlike == Permutations(Readers)

\* Short lists in any order, and long ones in which the percentiles differ.
StatsInputs == SeqOf(0 .. 2, 5) \cup {[i \in 1 .. n |-> n - i] : n \in 1 .. 50}

\* The statistics of what was recorded, and at the start those of every input,
\* are quantiles, a mean and a median of their list (Benchmark.hpp:42-79).
StatsOfTheRunAreRight ==
  /\ StatsAreRight(latencies_us)
  /\ tsc = 0 /\ latencies_us = <<>> => \A s \in StatsInputs : StatsAreRight(s)
=============================================================================
