------------------------------ MODULE Benchmark ------------------------------
(****************************************************************************)
(* Benchmark and calculateStats of include/utils/Benchmark.hpp, on the      *)
(* monotonic clock, used by Main.  Percentiles are given per mille.         *)
(****************************************************************************)
EXTENDS Timestamp, SequencesExt

CONSTANTS
  PairsCalls,  \* whether the caller stops once what it has started
  NsPerUs,     \* 1000 in the code
  MaxSamples   \* bound on the latencies recorded

ASSUME BenchmarkAssumption ==
  PairsCalls \in BOOLEAN /\ NsPerUs \in Nat \ {0} /\ MaxSamples \in Nat

VARIABLES
  start_ns,      \* start_ns_
  latencies_us,  \* latencies_us_
  measuring,     \* whether the caller is between start and stop
  begun          \* when the first of the recorded measurements began

benchmarkVars == <<clockVars, start_ns, latencies_us, measuring, begun>>

BenchmarkInit ==
  /\ ClockInit
  /\ start_ns = 0
  /\ latencies_us = <<>>
  /\ measuring = FALSE
  /\ begun = 0

-----------------------------------------------------------------------------
(* calculateStats; an empty list has no statistics but zeros *)

SumOf(s) ==
  LET sum[n \in 0 .. Len(s)] == IF n = 0 THEN 0 ELSE sum[n - 1] + s[n]
  IN  sum[Len(s)]

\* std::sort: every element goes behind those that are not greater.
Place(t, x) ==
  CHOOSE k \in 1 .. Len(t) + 1 : /\ \A i \in 1 .. k - 1 : t[i] <= x
                                 /\ \A i \in k .. Len(t) : x < t[i]
Insert(t, x) == InsertAt(t, Place(t, x), x)
Sorted(s) ==
  LET sorted[n \in 0 .. Len(s)] == IF n = 0 THEN <<>> ELSE Insert(sorted[n - 1], s[n])
  IN  sorted[Len(s)]

\* Mutant of Percentile: it counts one place too far.
PercentileAfter(s, p) ==
  LET idx == (p * Len(s)) \div 1000 + 1
  IN s[IF idx >= Len(s) THEN Len(s) ELSE idx + 1]

\* The element at index p * n of the n sorted ones, or the last.
Percentile(s, p) ==
  LET idx == (p * Len(s)) \div 1000
  IN s[IF idx >= Len(s) THEN Len(s) ELSE idx + 1]

\* Twice the median.
Median2(s) ==
  LET mid == Len(s) \div 2
  IN IF Len(s) % 2 = 0 THEN s[mid] + s[mid + 1] ELSE 2 * s[mid + 1]

Percentiles == {500, 900, 950, 990, 999}

CalculateStats(latencies) ==
  LET s == Sorted(latencies)
  IN IF s = <<>> THEN [count |-> 0, min |-> 0, max |-> 0, sum |-> 0, median2 |-> 0,
                       percentile |-> [p \in Percentiles |-> 0]]
     ELSE [count |-> Len(s), min |-> s[1], max |-> s[Len(s)], sum |-> SumOf(s),
           median2 |-> Median2(s), percentile |-> [p \in Percentiles |-> Percentile(s, p)]]

-----------------------------------------------------------------------------
(* start, stop and reset *)

\* Mutant of StartBenchmark: a measurement goes on from the one before.
StartBenchmarkOnce ==
  /\ stage[Main] = "out" /\ ~measuring
  /\ start_ns' = IF latencies_us = <<>> THEN MonotonicNs ELSE start_ns
  /\ measuring' = TRUE
  /\ begun' = IF latencies_us = <<>> THEN MonotonicNs ELSE begun
  /\ UNCHANGED <<clockVars, latencies_us>>

StartBenchmark ==
  /\ stage[Main] = "out" /\ ~measuring
  /\ start_ns' = MonotonicNs
  /\ measuring' = TRUE
  /\ begun' = IF latencies_us = <<>> THEN MonotonicNs ELSE begun
  /\ UNCHANGED <<clockVars, latencies_us>>

StopBenchmark ==
  /\ stage[Main] = "out" /\ (PairsCalls => measuring)
  /\ Len(latencies_us) < MaxSamples
  /\ latencies_us' = Append(latencies_us, (MonotonicNs - start_ns) \div NsPerUs)
  /\ measuring' = FALSE
  /\ UNCHANGED <<clockVars, start_ns, begun>>

ResetBenchmark ==
  /\ stage[Main] = "out" /\ ~measuring /\ latencies_us # <<>>
  /\ latencies_us' = <<>>
  /\ UNCHANGED <<clockVars, start_ns, measuring, begun>>

BenchmarkNext ==
  \/ ClockNext /\ UNCHANGED <<start_ns, latencies_us, measuring, begun>>
  \/ StartBenchmark \/ StopBenchmark \/ ResetBenchmark

BenchmarkSpec == BenchmarkInit /\ [][BenchmarkNext]_benchmarkVars

-----------------------------------------------------------------------------
(* Properties *)

\* What was recorded fits into the time since the first of the measurements
\* began: no measurement counts another's time (Benchmark.hpp:86-93).
LatenciesFitTheRun == NsPerUs * SumOf(latencies_us) <= MonotonicNs - begun

Count(s, Op(_)) == Cardinality({i \in DOMAIN s : Op(s[i])})

\* v is a p-quantile of s: less than it are at most p of the elements, and
\* up to it at least p of them.
IsQuantile(v, p, s) ==
  /\ 1000 * Count(s, LAMBDA x : x < v) <= p * Len(s)
  /\ 1000 * Count(s, LAMBDA x : x <= v) >= p * Len(s)

\* The statistics of a list are what their names say: quantiles in their
\* order, mean and median between the extremes (Benchmark.hpp:42-79).
StatsAreRight(s) ==
  LET stats == CalculateStats(s)
  IN s # <<>> =>
       /\ \A p \in Percentiles : IsQuantile(stats.percentile[p], p, s)
       /\ \A p, q \in Percentiles : p <= q => stats.percentile[p] <= stats.percentile[q]
       /\ stats.min * stats.count <= stats.sum /\ stats.sum <= stats.max * stats.count
       /\ stats.min * 2 <= stats.median2 /\ stats.median2 <= 2 * stats.percentile[500]
       /\ stats.percentile[999] <= stats.max
=============================================================================
