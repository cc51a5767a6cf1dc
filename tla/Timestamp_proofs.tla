--------------------------- MODULE Timestamp_proofs ---------------------------
(* Theorems about the clocks, beside a benchmark, for any number of threads *)
(* and any processor.                                                       *)
EXTENDS MCBenchmark, SequenceTheorems, FiniteSetTheorems, NaturalsInduction,
        WellFoundedInduction, TLAPS

\* Integer division is what it is for positive divisors: a quotient in whole
\* steps.
LEMMA Quotient ==
  ASSUME NEW n \in Nat, NEW d \in Nat \ {0}
  PROVE  n \div d \in Nat /\ d * (n \div d) <= n /\ n < d * ((n \div d) + 1)
<1> DEFINE q == n \div d
           r == n % d
<1>1. q \in Nat /\ r \in 0 .. d - 1 /\ n = (d * q) + r
  OBVIOUS
<1> HIDE DEF q, r
<1>2. d * (q + 1) = (d * q) + d
  BY <1>1
<1> QED BY <1>1, <1>2 DEF q

\* cyclesToNs with one factor is monotonic (Timestamp.hpp:92-96).
LEMMA ScaledInOrder ==
  ASSUME NEW a \in Nat, NEW b \in Nat, a <= b, NEW n \in Nat, NEW d \in Nat \ {0}
  PROVE  (a * n) \div d <= (b * n) \div d
<1> DEFINE x == a * n
           y == b * n
<1>1. x \in Nat /\ y \in Nat /\ x <= y
  <2>1. (b - a) * n >= 0
    OBVIOUS
  <2> QED BY <2>1
<1> HIDE DEF x, y
<1> DEFINE p == x \div d
           q == y \div d
<1>2. p \in Nat /\ d * p <= x /\ q \in Nat /\ y < d * (q + 1)
  BY <1>1, Quotient
<1> HIDE DEF p, q
<1>3. d * p < d * (q + 1)
  BY <1>1, <1>2
<1>4. p < q + 1
  <2>1. SUFFICES ASSUME p >= q + 1 PROVE FALSE
    BY <1>2
  <2>2. d * (p - (q + 1)) >= 0
    BY <1>2, <2>1
  <2> QED BY <1>2, <1>3, <2>2
<1>5. p <= q
  BY <1>2, <1>4
<1> QED BY <1>5 DEF p, q, x, y

\* The nanoseconds of the monotonic clock are no more than the cycles.
LEMMA MonotonicBound ==
  ASSUME tsc \in 0 .. MaxCycles
  PROVE  MonotonicNs \in 0 .. tsc
<1>1. CyclesPerNs \in Nat \ {0} /\ tsc \in Nat
  BY TimestampAssumption
<1> DEFINE q == tsc \div CyclesPerNs
<1>2. q \in Nat /\ CyclesPerNs * q <= tsc
  BY <1>1, Quotient
<1> HIDE DEF q
<1>3. (CyclesPerNs - 1) * q >= 0
  BY <1>1, <1>2
<1>4. q <= tsc
  BY <1>1, <1>2, <1>3
<1> QED BY <1>1, <1>2, <1>4 DEF MonotonicNs, q

-----------------------------------------------------------------------------
(* Types *)

ClockInv == ClockTypeOK /\ \A t \in Readers : since[t] <= tsc

\* The clocks start at zero, with the factor of the assumed processor.
LEMMA InitClock == ClockInit => ClockInv
<1> SUFFICES ASSUME ClockInit PROVE ClockInv
  OBVIOUS
<1> USE DEF ClockInit
<1>1. 0 \in 0 .. MaxCycles /\ Readers \subseteq Threads
  BY TimestampAssumption DEF Threads
<1>2. <<0, 0>> \in (0 .. MaxCycles) \X (0 .. MaxCycles)
  BY <1>1
<1>3. ns_per_cycle \in ({2} \cup 1 .. MaxCycles) \X ({5} \cup 1 .. MaxCycles)
  OBVIOUS
<1>4. stage \in [Threads -> {"out", "calibrate", "wait", "flag", "convert"}]
  OBVIOUS
<1>5. /\ since \in [Readers -> 0 .. MaxCycles] /\ cycles \in [Threads -> 0 .. MaxCycles]
      /\ first \in [Threads -> (0 .. MaxCycles) \X (0 .. MaxCycles)]
  BY <1>1, <1>2
<1>6. tsc \in 0 .. MaxCycles /\ calibrated \in BOOLEAN /\ readings \subseteq Nat \X Nat
  BY <1>1
<1>7. \A t \in Readers : since[t] <= tsc
  OBVIOUS
<1> QED BY <1>3, <1>4, <1>5, <1>6, <1>7, Zenon DEF ClockInv, ClockTypeOK

\* Every step keeps the types: no interval is negative, no factor is zero.
LEMMA NextClock ==
  ASSUME ClockInv, [ClockNext]_clockVars
  PROVE  ClockInv'
<1> USE DEF ClockInv, ClockTypeOK, Move
<1>1. MaxCycles \in Nat /\ Readers \subseteq Threads /\ tsc \in Nat
  BY TimestampAssumption DEF Threads
<1>2. CASE Tick
  BY <1>1, <1>2 DEF Tick, calibration
<1>3. ASSUME NEW t \in Readers, ResetTimer(t) PROVE ClockInv'
  BY <1>1, <1>3 DEF ResetTimer, calibration
<1>4. ASSUME NEW t \in Readers, Read(t) PROVE ClockInv'
  <2>1. PICK origin \in {0, since[t]} : cycles' = [cycles EXCEPT ![t] = tsc - origin]
    BY <1>4 DEF Read
  <2>2. tsc - origin \in 0 .. MaxCycles
    BY <1>1
  <2> QED BY <1>1, <1>4, <2>1, <2>2 DEF Read, calibration
<1>5. ASSUME NEW t \in Readers, CyclesToNs(t) PROVE ClockInv'
  <2> DEFINE ns == (cycles[t] * ns_per_cycle[1]) \div ns_per_cycle[2]
  <2>1. cycles[t] \in Nat /\ ns_per_cycle[1] \in Nat /\ ns_per_cycle[2] \in Nat \ {0}
    BY <1>1
  <2>2. cycles[t] * ns_per_cycle[1] \in Nat
    BY <2>1
  <2>3. ns \in Nat
    BY <2>1, <2>2, Quotient
  <2>4. readings' = readings \cup {<<cycles[t], ns>>}
    BY <1>5 DEF CyclesToNs
  <2> HIDE DEF ns
  <2>5. readings' \subseteq Nat \X Nat
    BY <2>1, <2>3, <2>4
  <2> QED BY <1>1, <1>5, <2>5 DEF CyclesToNs, calibration
<1>6. ASSUME NEW t \in Threads, Calibrate(t) PROVE ClockInv'
  <2>1. MonotonicNs \in 0 .. MaxCycles
    BY <1>1, MonotonicBound
  <2> HIDE DEF MonotonicNs
  <2> QED BY <1>1, <1>6, <2>1 DEF Calibrate, calibration
<1>7. ASSUME NEW t \in Threads, StoreFactor(t) PROVE ClockInv'
  <2> DEFINE elapsed == tsc - first[t][1]
             ns == MonotonicNs - first[t][2]
  <2>1. /\ MonotonicNs \in 0 .. MaxCycles
        /\ first[t][1] \in 0 .. MaxCycles /\ first[t][2] \in 0 .. MaxCycles
    BY <1>1, MonotonicBound
  <2>2. elapsed > 0 => elapsed \in 1 .. MaxCycles
    BY <1>1, <2>1
  <2>3. ns > 0 => ns \in 1 .. MaxCycles
    BY <1>1, <2>1
  <2>4. ns_per_cycle' = IF elapsed > 0 /\ ns > 0 THEN <<ns, elapsed>> ELSE <<2, 5>>
    BY <1>7 DEF StoreFactor
  <2> HIDE DEF elapsed, ns
  <2>5. ns_per_cycle' \in ({2} \cup 1 .. MaxCycles) \X ({5} \cup 1 .. MaxCycles)
    BY <2>2, <2>3, <2>4
  <2> QED BY <1>1, <1>7, <2>5 DEF StoreFactor
<1>8. ASSUME NEW t \in Threads, SetCalibrated(t) PROVE ClockInv'
  BY <1>1, <1>8 DEF SetCalibrated
<1>9. CASE UNCHANGED clockVars
  BY <1>9 DEF clockVars, calibration
<1> QED BY <1>2, <1>3, <1>4, <1>5, <1>6, <1>7, <1>8, <1>9 DEF ClockNext

\* The benchmark takes the time, and changes none of it.
LEMMA BenchmarkLeavesClocks ==
  ASSUME [BenchmarkNext]_benchmarkVars
  PROVE  [ClockNext]_clockVars
BY DEF BenchmarkNext, benchmarkVars, StartBenchmark, StopBenchmark, ResetBenchmark

\* Whoever calibrates, and however often, the factor is a positive fraction and
\* no time is negative (Timestamp.hpp:57-96).
THEOREM ClockTypeCorrect == BenchmarkSpec => []ClockTypeOK
<1>1. BenchmarkInit => ClockInv
  BY InitClock DEF BenchmarkInit
<1>2. ClockInv /\ [BenchmarkNext]_benchmarkVars => ClockInv'
  BY NextClock, BenchmarkLeavesClocks
<1>3. ClockInv => ClockTypeOK
  BY DEF ClockInv
<1> QED BY <1>1, <1>2, <1>3, PTL DEF BenchmarkSpec

-----------------------------------------------------------------------------
(* One factor for all readings *)

\* Where main calibrates first, it is alone until it has, and never returns to
\* it; every reading was converted with the factor that it stored.
OneFactor ==
  /\ ~calibrated => readings = {} /\ \A t \in Readers : stage[t] = "out"
  /\ calibrated => stage[Main] = "out"
  /\ \A t \in Readers : stage[t] \in {"out", "calibrate", "convert"}
  /\ \A r \in readings : r[2] = (r[1] * ns_per_cycle[1]) \div ns_per_cycle[2]

\* Before main has calibrated there is no reading.
LEMMA InitFactor == ClockInit => OneFactor
BY TimestampAssumption DEF ClockInit, OneFactor, Threads

\* Every step keeps the factor, once there is a reading.
LEMMA NextFactor ==
  ASSUME AtStartup = TRUE, ClockInv, OneFactor, [ClockNext]_clockVars
  PROVE  OneFactor'
<1> USE DEF OneFactor, Move
<1>1. /\ Main \notin Readers /\ Main \in Threads /\ Readers \subseteq Threads
      /\ stage \in [Threads -> {"out", "calibrate", "wait", "flag", "convert"}]
      /\ calibrated \in BOOLEAN
      /\ \A t \in Threads \ {Main} : t \in Readers
  BY TimestampAssumption DEF Threads, ClockInv, ClockTypeOK
<1>2. CASE Tick
  BY <1>1, <1>2 DEF Tick, calibration
<1>3. ASSUME NEW t \in Readers, ResetTimer(t) PROVE OneFactor'
  BY <1>1, <1>3 DEF ResetTimer, calibration
<1>4. ASSUME NEW t \in Readers, Read(t) PROVE OneFactor'
  BY <1>1, <1>4 DEF Read, Started, calibration
<1>5. ASSUME NEW t \in Readers, CyclesToNs(t) PROVE OneFactor'
  <2> DEFINE ns == (cycles[t] * ns_per_cycle[1]) \div ns_per_cycle[2]
  <2>1. readings' = readings \cup {<<cycles[t], ns>>}
    BY <1>5 DEF CyclesToNs
  <2>2. \A r \in readings' : r[2] = (r[1] * ns_per_cycle[1]) \div ns_per_cycle[2]
    BY <2>1
  <2> HIDE DEF ns
  <2> QED BY <1>1, <1>5, <2>2 DEF CyclesToNs, calibration
<1>6. ASSUME NEW t \in Threads, Calibrate(t) PROVE OneFactor'
  BY <1>1, <1>6 DEF Calibrate, calibration
<1>7. ASSUME NEW t \in Threads, StoreFactor(t) PROVE OneFactor'
  <2>1. t = Main /\ ~calibrated /\ readings = {}
    BY <1>1, <1>7 DEF StoreFactor
  <2> QED BY <1>1, <1>7, <2>1 DEF StoreFactor
<1>8. ASSUME NEW t \in Threads, SetCalibrated(t) PROVE OneFactor'
  BY <1>1, <1>8 DEF SetCalibrated
<1>9. CASE UNCHANGED clockVars
  BY <1>1, <1>9 DEF clockVars, calibration
<1> QED BY <1>2, <1>3, <1>4, <1>5, <1>6, <1>7, <1>8, <1>9 DEF ClockNext

\* Where main calibrates before anybody takes the time, two readings of any
\* threads compare as the cycles they stand for (Timestamp.hpp:57-96).
THEOREM ReadingsCompareAsCycles ==
  ASSUME AtStartup = TRUE
  PROVE  BenchmarkSpec => []ReadingsKeepOrder
<1> DEFINE I == ClockInv /\ OneFactor
<1>1. BenchmarkInit => I
  BY InitClock, InitFactor DEF BenchmarkInit
<1>2. I /\ [BenchmarkNext]_benchmarkVars => I'
  BY NextClock, NextFactor, BenchmarkLeavesClocks
<1>3. I => ReadingsKeepOrder
  <2> SUFFICES ASSUME I, NEW a \in readings, NEW b \in readings, a[1] <= b[1]
               PROVE  a[2] <= b[2]
    BY DEF ReadingsKeepOrder
  <2>1. /\ a[1] \in Nat /\ b[1] \in Nat
        /\ ns_per_cycle[1] \in Nat /\ ns_per_cycle[2] \in Nat \ {0}
    BY TimestampAssumption DEF ClockInv, ClockTypeOK
  <2>2. /\ a[2] = (a[1] * ns_per_cycle[1]) \div ns_per_cycle[2]
        /\ b[2] = (b[1] * ns_per_cycle[1]) \div ns_per_cycle[2]
    BY DEF OneFactor
  <2> QED BY <2>1, <2>2, ScaledInOrder
<1> HIDE DEF I
<1> QED BY <1>1, <1>2, <1>3, PTL DEF BenchmarkSpec

-----------------------------------------------------------------------------
(* Sums of latencies *)

\* A set of numbers that is not empty has a least one.
LEMMA LeastNumber ==
  ASSUME NEW A \in SUBSET Nat, A # {}
  PROVE  \E m \in A : \A k \in A : m <= k
<1> DEFINE R == OpToRel(<, Nat)
<1>1. \A k, m \in Nat : <<k, m>> \in R <=> k < m
  BY DEF OpToRel
<1>2. IsWellFoundedOn(R, Nat)
  BY NatLessThanWellFounded
<1> HIDE DEF R
<1>3. PICK m \in A : \A k \in A : ~(<<k, m>> \in R)
  BY <1>2, WFMin
<1>4. ASSUME NEW k \in A PROVE m <= k
  <2>1. k \in Nat /\ m \in Nat /\ ~(k < m)
    BY <1>1, <1>3
  <2> QED BY <2>1
<1> QED BY <1>4

\* g[n] is the sum of the first n latencies of s.
Adds(g, s, N) == g[0] = 0 /\ \A n \in 1 .. N : g[n] = g[n - 1] + s[n]

\* Sums of latencies are numbers.
LEMMA AddsType ==
  ASSUME NEW N \in Nat, NEW s, \A n \in 1 .. N : s[n] \in Nat, NEW g, Adds(g, s, N)
  PROVE  g[N] \in Nat
<1> DEFINE A == {n \in 0 .. N : g[n] \notin Nat}
<1> SUFFICES ASSUME A # {} PROVE FALSE
  <2>1. N \in 0 .. N
    OBVIOUS
  <2> QED BY <2>1
<1>1. PICK m \in A : \A n \in A : m <= n
  <2>1. 0 .. N \subseteq Nat
    OBVIOUS
  <2>2. A \subseteq 0 .. N
    OBVIOUS
  <2> HIDE DEF A
  <2> QED BY <2>1, <2>2, LeastNumber
<1>2. m # 0 /\ m \in 0 .. N
  BY <1>1 DEF Adds
<1>3. m - 1 \in 0 .. N /\ ~(m <= m - 1) /\ m \in 1 .. N
  BY <1>2
<1>4. g[m - 1] \in Nat /\ s[m] \in Nat
  BY <1>1, <1>3
<1>5. g[m] = g[m - 1] + s[m]
  BY <1>3 DEF Adds
<1> QED BY <1>1, <1>4, <1>5

\* There is only one sum.
LEMMA SameSum ==
  ASSUME NEW N \in Nat, NEW s, NEW g, NEW h, Adds(g, s, N), Adds(h, s, N)
  PROVE  g[N] = h[N]
<1> DEFINE A == {n \in 0 .. N : g[n] # h[n]}
<1> SUFFICES ASSUME A # {} PROVE FALSE
  <2>1. N \in 0 .. N
    OBVIOUS
  <2> QED BY <2>1
<1>1. PICK m \in A : \A n \in A : m <= n
  <2>1. 0 .. N \subseteq Nat
    OBVIOUS
  <2>2. A \subseteq 0 .. N
    OBVIOUS
  <2> HIDE DEF A
  <2> QED BY <2>1, <2>2, LeastNumber
<1>2. m # 0 /\ m \in 0 .. N
  BY <1>1 DEF Adds
<1>3. m - 1 \in 0 .. N /\ ~(m <= m - 1) /\ m \in 1 .. N
  BY <1>2
<1>4. g[m - 1] = h[m - 1]
  BY <1>1, <1>3
<1>5. g[m] = g[m - 1] + s[m] /\ h[m] = h[m - 1] + s[m]
  BY <1>3 DEF Adds
<1> QED BY <1>1, <1>4, <1>5

\* The recursion of SumOf has a solution: a shortest list without one would be one
\* latency longer than a list with one.
LEMMA SumExists ==
  ASSUME NEW N \in Nat, NEW s
  PROVE  \E g : DOMAIN g = 0 .. N /\ g = [n \in 0 .. N |-> g[n]] /\ Adds(g, s, N)
<1> DEFINE Solved(m) == \E g : DOMAIN g = 0 .. m /\ g = [n \in 0 .. m |-> g[n]] /\ Adds(g, s, m)
           A == {m \in 0 .. N : ~Solved(m)}
<1> SUFFICES ASSUME A # {} PROVE FALSE
  <2>1. N \in 0 .. N
    OBVIOUS
  <2> QED BY <2>1
<1>1. PICK m \in A : \A k \in A : m <= k
  <2>1. 0 .. N \subseteq Nat
    OBVIOUS
  <2>2. A \subseteq 0 .. N
    OBVIOUS
  <2> HIDE DEF A
  <2> QED BY <2>1, <2>2, LeastNumber
<1>2. m \in 0 .. N /\ ~Solved(m)
  BY <1>1
<1>3. CASE m = 0
  <2> DEFINE g == [n \in 0 .. 0 |-> 0]
  <2>1. DOMAIN g = 0 .. 0 /\ g = [n \in 0 .. 0 |-> g[n]] /\ g[0] = 0
    OBVIOUS
  <2> HIDE DEF g
  <2>2. Adds(g, s, 0)
    BY <2>1 DEF Adds
  <2> QED BY <1>2, <1>3, <2>1, <2>2
<1>4. CASE m # 0
  <2>1. m - 1 \in 0 .. N /\ ~(m <= m - 1) /\ m \in Nat
    BY <1>2, <1>4
  <2>2. Solved(m - 1)
    BY <1>1, <2>1
  <2>3. PICK g : Adds(g, s, m - 1)
    BY <2>2
  <2> DEFINE last == g[m - 1] + s[m]
             h == [n \in 0 .. m |-> IF n = m THEN last ELSE g[n]]
  <2>4. h[m] = last /\ \A n \in 0 .. m - 1 : h[n] = g[n]
    BY <2>1
  <2>5. DOMAIN h = 0 .. m /\ h = [n \in 0 .. m |-> h[n]]
    OBVIOUS
  <2> HIDE DEF h
  <2>6. h[0] = 0
    BY <1>4, <2>1, <2>3, <2>4 DEF Adds
  <2>7. ASSUME NEW n \in 1 .. m PROVE h[n] = h[n - 1] + s[n]
    <3>1. h[n - 1] = g[n - 1]
      BY <2>1, <2>4
    <3>2. CASE n = m
      BY <2>4, <3>1, <3>2
    <3>3. CASE n # m
      <4>1. n \in 1 .. m - 1 /\ n \in 0 .. m - 1
        BY <2>1, <3>3
      <4>2. g[n] = g[n - 1] + s[n] /\ h[n] = g[n]
        BY <2>3, <2>4, <4>1 DEF Adds
      <4> QED BY <3>1, <4>2
    <3> QED BY <3>2, <3>3
  <2>8. Adds(h, s, m)
    BY <2>6, <2>7 DEF Adds
  <2> QED BY <1>2, <2>5, <2>8
<1> QED BY <1>3, <1>4

\* SumOf is the sum of the whole list.
LEMMA SumUnfolds ==
  ASSUME NEW s \in Seq(Nat)
  PROVE  \E g : Adds(g, s, Len(s)) /\ SumOf(s) = g[Len(s)]
<1> DEFINE N == Len(s)
           Defined(g) == g = [n \in 0 .. N |-> IF n = 0 THEN 0 ELSE g[n - 1] + s[n]]
           sum == CHOOSE g : Defined(g)
<1>1. N \in Nat
  BY LenProperties
<1>2. \E g : Defined(g)
  <2>1. PICK g : DOMAIN g = 0 .. N /\ g = [n \in 0 .. N |-> g[n]] /\ Adds(g, s, N)
    <3> HIDE DEF N
    <3> QED BY <1>1, SumExists
  <2>2. \A n \in 0 .. N : g[n] = IF n = 0 THEN 0 ELSE g[n - 1] + s[n]
    <3>1. \A n \in 0 .. N : n # 0 => n \in 1 .. N
      BY <1>1
    <3> QED BY <2>1, <3>1 DEF Adds
  <2>3. Defined(g)
    BY <2>1, <2>2
  <2> QED BY <2>3
<1>3. Defined(sum)
  BY <1>2
<1>4. SumOf(s) = sum[N]
  BY DEF SumOf
<1> HIDE DEF sum
<1>5. \A n \in 0 .. N : sum[n] = IF n = 0 THEN 0 ELSE sum[n - 1] + s[n]
  BY <1>3
<1>6. Adds(sum, s, N)
  <2>1. \A n \in 1 .. N : n \in 0 .. N /\ n # 0
    BY <1>1
  <2>2. 0 \in 0 .. N
    BY <1>1
  <2> QED BY <1>5, <2>1, <2>2 DEF Adds
<1> QED BY <1>4, <1>6

\* A sum of latencies is a number.
LEMMA SumType ==
  ASSUME NEW s \in Seq(Nat)
  PROVE  SumOf(s) \in Nat
<1>1. PICK g : Adds(g, s, Len(s)) /\ SumOf(s) = g[Len(s)]
  BY SumUnfolds
<1>2. Len(s) \in Nat /\ \A n \in 1 .. Len(s) : s[n] \in Nat
  BY LenProperties
<1> QED BY <1>1, <1>2, AddsType

\* Nothing adds up to nothing.
LEMMA SumOfNone == SumOf(<<>>) = 0
<1>1. <<>> \in Seq(Nat) /\ Len(<<>>) = 0
  BY EmptySeq
<1>2. PICK g : Adds(g, <<>>, 0) /\ SumOf(<<>>) = g[0]
  BY <1>1, SumUnfolds
<1> QED BY <1>2 DEF Adds

\* A latency that is recorded is added to the others.
LEMMA SumAppend ==
  ASSUME NEW s \in Seq(Nat), NEW x \in Nat
  PROVE  SumOf(Append(s, x)) = SumOf(s) + x
<1> DEFINE N == Len(s)
           longer == Append(s, x)
<1>1. /\ N \in Nat /\ longer \in Seq(Nat) /\ Len(longer) = N + 1
      /\ longer[N + 1] = x /\ \A n \in 1 .. N : longer[n] = s[n]
  BY AppendProperties, LenProperties
<1> HIDE DEF longer, N
<1>2. PICK h : Adds(h, longer, N + 1) /\ SumOf(longer) = h[N + 1]
  BY <1>1, SumUnfolds
<1>3. PICK g : Adds(g, s, N) /\ SumOf(s) = g[N]
  BY SumUnfolds DEF N
<1>4. Adds(h, s, N)
  <2>1. \A n \in 1 .. N : n \in 1 .. N + 1
    BY <1>1
  <2> QED BY <1>1, <1>2, <2>1 DEF Adds
<1>5. g[N] = h[N]
  BY <1>1, <1>3, <1>4, SameSum
<1>6. h[N + 1] = h[N] + longer[N + 1]
  <2>1. N + 1 \in 1 .. N + 1 /\ (N + 1) - 1 = N
    BY <1>1
  <2> QED BY <1>2, <2>1 DEF Adds
<1> QED BY <1>1, <1>2, <1>3, <1>5, <1>6 DEF longer

-----------------------------------------------------------------------------
(* Measurements *)

\* A benchmark on clocks that are in order.
BenchmarkTypes ==
  /\ ClockInv
  /\ start_ns \in Nat /\ begun \in Nat /\ measuring \in BOOLEAN
  /\ latencies_us \in Seq(Nat)

\* Where the time that may still be counted begins.
Counted == IF measuring THEN start_ns ELSE MonotonicNs

\* The measurements recorded lie between begun and the one that is under way.
Apart ==
  /\ begun + NsPerUs * SumOf(latencies_us) <= Counted
  /\ start_ns <= MonotonicNs

\* The monotonic clock goes no step back (Timestamp.hpp:13-27).
LEMMA ClockGoesOn ==
  ASSUME ClockInv, [ClockNext]_clockVars
  PROVE  MonotonicNs \in Nat /\ MonotonicNs' \in Nat /\ MonotonicNs <= MonotonicNs'
<1>1. tsc \in Nat /\ tsc' \in Nat /\ tsc <= tsc' /\ CyclesPerNs \in Nat \ {0}
  <2>1. ClockInv'
    BY NextClock
  <2>2. tsc' = tsc \/ tsc' = tsc + 1
    BY DEF ClockNext, clockVars, Tick, ResetTimer, Read, CyclesToNs, Calibrate,
           StoreFactor, SetCalibrated
  <2> QED BY <2>1, <2>2, TimestampAssumption DEF ClockInv, ClockTypeOK
<1>2. tsc \div CyclesPerNs \in Nat /\ tsc' \div CyclesPerNs \in Nat
  BY <1>1, Quotient
<1>3. (tsc * 1) \div CyclesPerNs <= (tsc' * 1) \div CyclesPerNs
  BY <1>1, ScaledInOrder
<1>4. tsc * 1 = tsc /\ tsc' * 1 = tsc'
  <2>1. \A n \in Nat : n * 1 = n
    OBVIOUS
  <2> QED BY <1>1, <2>1
<1> QED BY <1>1, <1>2, <1>3, <1>4 DEF MonotonicNs

\* A benchmark begins with nothing measured.
LEMMA InitBenchmark == BenchmarkInit => BenchmarkTypes /\ Apart
<1> SUFFICES ASSUME BenchmarkInit PROVE BenchmarkTypes /\ Apart
  OBVIOUS
<1>1. ClockInv
  BY InitClock DEF BenchmarkInit
<1>2. MonotonicNs \in Nat /\ <<>> \in Seq(Nat)
  <2>1. tsc \in 0 .. MaxCycles /\ tsc = 0
    BY <1>1 DEF ClockInv, ClockTypeOK, BenchmarkInit, ClockInit
  <2>2. MonotonicNs \in 0 .. tsc
    BY <2>1, MonotonicBound
  <2> HIDE DEF MonotonicNs
  <2> QED BY <2>1, <2>2, EmptySeq
<1>3. NsPerUs \in Nat /\ NsPerUs * 0 = 0
  BY BenchmarkAssumption
<1>4. start_ns = 0 /\ begun = 0 /\ ~measuring /\ measuring \in BOOLEAN /\ latencies_us = <<>>
  BY DEF BenchmarkInit
<1> HIDE DEF MonotonicNs
<1>5. BenchmarkTypes
  BY <1>1, <1>2, <1>4 DEF BenchmarkTypes
<1>6. NsPerUs * SumOf(latencies_us) = 0
  BY <1>3, <1>4, SumOfNone
<1>7. Apart
  BY <1>2, <1>4, <1>6 DEF Apart, Counted
<1> QED BY <1>5, <1>7

\* A call that starts or stops measures from the start to the stop, and no more.
LEMMA NextBenchmark ==
  ASSUME PairsCalls = TRUE, BenchmarkTypes, Apart, [BenchmarkNext]_benchmarkVars
  PROVE  BenchmarkTypes' /\ Apart'
<1> DEFINE total == NsPerUs * SumOf(latencies_us)
<1>1. ClockInv' /\ MonotonicNs \in Nat /\ MonotonicNs' \in Nat /\ MonotonicNs <= MonotonicNs'
  BY NextClock, BenchmarkLeavesClocks, ClockGoesOn DEF BenchmarkTypes
<1>2. NsPerUs \in Nat \ {0} /\ SumOf(latencies_us) \in Nat /\ total \in Nat
  BY BenchmarkAssumption, SumType DEF BenchmarkTypes
<1> HIDE DEF total
<1>3. /\ begun + total <= Counted /\ start_ns <= MonotonicNs
      /\ start_ns \in Nat /\ begun \in Nat /\ measuring \in BOOLEAN
      /\ latencies_us \in Seq(Nat)
  BY DEF Apart, BenchmarkTypes, total
<1>4. CASE UNCHANGED <<start_ns, latencies_us, measuring, begun>>
  <2>1. total' = total
    BY <1>4 DEF total
  <2>2. begun' + total' <= Counted' /\ start_ns' <= MonotonicNs'
    BY <1>1, <1>2, <1>3, <1>4, <2>1 DEF Counted
  <2> QED BY <1>1, <1>3, <1>4, <2>2 DEF BenchmarkTypes, Apart, total
<1>5. CASE StartBenchmark
  <2>1. /\ ~measuring /\ measuring' = TRUE /\ start_ns' = MonotonicNs
        /\ begun' = IF latencies_us = <<>> THEN MonotonicNs ELSE begun
        /\ latencies_us' = latencies_us
    BY <1>5 DEF StartBenchmark
  <2>2. total' = total /\ latencies_us = <<>> => total = 0
    BY <1>2, <2>1, SumOfNone DEF total
  <2>3. total' = total
    BY <2>1 DEF total
  <2>4. begun' + total' <= Counted' /\ start_ns' <= MonotonicNs'
    BY <1>1, <1>2, <1>3, <2>1, <2>2, <2>3 DEF Counted
  <2> QED BY <1>1, <1>3, <2>1, <2>4 DEF BenchmarkTypes, Apart, total
<1>6. CASE StopBenchmark
  <2> DEFINE elapsed == MonotonicNs - start_ns
             us == elapsed \div NsPerUs
  <2>1. /\ measuring /\ measuring' = FALSE /\ start_ns' = start_ns /\ begun' = begun
        /\ latencies_us' = Append(latencies_us, us)
    BY <1>6 DEF StopBenchmark
  <2>2. elapsed \in Nat
    BY <1>1, <1>3
  <2> HIDE DEF elapsed
  <2>3. us \in Nat /\ NsPerUs * us <= elapsed
    BY <1>2, <2>2, Quotient
  <2> HIDE DEF us
  <2>4. SumOf(latencies_us') = SumOf(latencies_us) + us /\ latencies_us' \in Seq(Nat)
    BY <1>3, <2>1, <2>3, SumAppend
  <2>5. total' = total + NsPerUs * us
    BY <1>2, <2>3, <2>4 DEF total
  <2>6. begun' + total' <= Counted' /\ start_ns' <= MonotonicNs'
    <3>1. begun + total <= start_ns
      BY <1>3, <2>1 DEF Counted
    <3>2. NsPerUs * us \in Nat
      BY <1>2, <2>3
    <3> DEFINE x == NsPerUs * us
    <3>3. x \in Nat /\ x <= MonotonicNs - start_ns /\ total' = total + x
      BY <2>3, <2>5, <3>2 DEF elapsed
    <3> HIDE DEF x
    <3>4. begun + (total + x) <= MonotonicNs'
      BY <1>1, <1>2, <1>3, <3>1, <3>3
    <3> QED BY <1>1, <1>3, <2>1, <3>3, <3>4 DEF Counted
  <2> QED BY <1>1, <1>3, <2>1, <2>4, <2>6 DEF BenchmarkTypes, Apart, total
<1>7. CASE ResetBenchmark
  <2>1. /\ ~measuring /\ latencies_us' = <<>>
        /\ UNCHANGED <<start_ns, measuring, begun>>
    BY <1>7 DEF ResetBenchmark
  <2>2. total' = 0 /\ latencies_us' \in Seq(Nat)
    BY <1>2, <2>1, SumOfNone, EmptySeq DEF total
  <2>3. begun' + total' <= Counted' /\ start_ns' <= MonotonicNs'
    BY <1>1, <1>2, <1>3, <2>1, <2>2 DEF Counted
  <2> QED BY <1>1, <1>3, <2>1, <2>2, <2>3 DEF BenchmarkTypes, Apart, total
<1> QED BY <1>4, <1>5, <1>6, <1>7 DEF BenchmarkNext, benchmarkVars

\* For a caller that stops what it has started, and only that, the latencies
\* recorded since the last reset fit together into the time that has passed since
\* the first of them began: no measurement counts another's time
\* (Benchmark.hpp:82-103).
THEOREM MeasurementsAreApart ==
  ASSUME PairsCalls = TRUE
  PROVE  BenchmarkSpec => []LatenciesFitTheRun
<1> DEFINE I == BenchmarkTypes /\ Apart
<1>1. BenchmarkInit => I
  BY InitBenchmark
<1>2. I /\ [BenchmarkNext]_benchmarkVars => I'
  BY NextBenchmark
<1>3. I => LatenciesFitTheRun
  <2> SUFFICES ASSUME I PROVE LatenciesFitTheRun
    OBVIOUS
  <2> DEFINE total == NsPerUs * SumOf(latencies_us)
  <2>1. total \in Nat /\ MonotonicNs \in Nat /\ begun \in Nat /\ start_ns \in Nat
    <3>1. MonotonicNs \in Nat
      <4>1. tsc \in 0 .. MaxCycles /\ MaxCycles \in Nat
        BY TimestampAssumption DEF BenchmarkTypes, ClockInv, ClockTypeOK
      <4>2. MonotonicNs \in 0 .. tsc
        BY <4>1, MonotonicBound
      <4> QED BY <4>1, <4>2
    <3> QED BY <3>1, SumType, BenchmarkAssumption DEF BenchmarkTypes
  <2>2. begun + total <= Counted /\ start_ns <= MonotonicNs
    BY DEF Apart
  <2> HIDE DEF total
  <2>3. total <= MonotonicNs - begun
    BY <2>1, <2>2 DEF Counted
  <2> QED BY <2>3 DEF LatenciesFitTheRun, total
<1> HIDE DEF I
<1> QED BY <1>1, <1>2, <1>3, PTL DEF BenchmarkSpec

-----------------------------------------------------------------------------
(* std::sort: the elements of the list, in order *)

Ordered(t) == \A i, j \in 1 .. Len(t) : i <= j => t[i] <= t[j]

\* A place to insert: what is before it is not greater, what is behind it is.
Fits(t, x, k) == (\A i \in 1 .. k - 1 : t[i] <= x) /\ \A i \in k .. Len(t) : x < t[i]

\* In an ordered list there is such a place.
LEMMA PlaceFits ==
  ASSUME NEW t \in Seq(Nat), Ordered(t), NEW x \in Nat
  PROVE  Place(t, x) \in 1 .. Len(t) + 1 /\ Fits(t, x, Place(t, x))
<1> DEFINE n == Len(t)
           A == {m \in 1 .. n + 1 : m = n + 1 \/ x < t[m]}
<1>1. n \in Nat /\ \A i \in 1 .. n : t[i] \in Nat
  BY LenProperties, ElementOfSeq
<1>2. n + 1 \in A
  BY <1>1
<1>3. PICK m \in A : \A k \in A : m <= k
  <2>1. 1 .. n + 1 \subseteq Nat
    BY <1>1
  <2>2. A \subseteq 1 .. n + 1
    OBVIOUS
  <2> HIDE DEF A
  <2> QED BY <1>2, <2>1, <2>2, LeastNumber
<1>4. m \in 1 .. n + 1 /\ (m = n + 1 \/ x < t[m])
  BY <1>3
<1>5. ASSUME NEW i \in 1 .. m - 1 PROVE t[i] <= x
  <2>1. i \in 1 .. n + 1 /\ i # n + 1 /\ i \in 1 .. n /\ ~(m <= i)
    BY <1>1, <1>4
  <2>2. ~(x < t[i])
    BY <1>3, <2>1
  <2> QED BY <1>1, <2>1, <2>2
<1>6. ASSUME NEW i \in m .. n PROVE x < t[i]
  <2>1. m \in 1 .. n /\ i \in 1 .. n /\ m <= i /\ x < t[m]
    BY <1>1, <1>4
  <2>2. t[m] <= t[i]
    BY <2>1 DEF Ordered
  <2> QED BY <1>1, <2>1, <2>2
<1>7. Fits(t, x, m)
  BY <1>5, <1>6 DEF Fits
<1>8. Place(t, x) = CHOOSE k \in 1 .. n + 1 : Fits(t, x, k)
  BY DEF Place, Fits
<1> HIDE DEF n
<1> QED BY <1>4, <1>7, <1>8 DEF n

\* u is t with x at the place k: what was there and behind it has moved by one.
Inserted(u, t, x, k) ==
  /\ u \in Seq(Nat) /\ Len(u) = Len(t) + 1 /\ u[k] = x
  /\ \A i \in 1 .. k - 1 : u[i] = t[i]
  /\ \A i \in k + 1 .. Len(t) + 1 : u[i] = t[i - 1]

\* What an insertion leaves where it was, and what it moves.
LEMMA InsertAtIs ==
  ASSUME NEW t \in Seq(Nat), NEW x \in Nat, NEW k \in 1 .. Len(t) + 1
  PROVE  Inserted(InsertAt(t, k, x), t, x, k)
<1> DEFINE n == Len(t)
           a == SubSeq(t, 1, k - 1)
           b == SubSeq(t, k, n)
           u == InsertAt(t, k, x)
<1>1. n \in Nat /\ (\A i \in 1 .. n : t[i] \in Nat) /\ k \in 1 .. n + 1 /\ k \in Nat
  BY LenProperties, ElementOfSeq
<1> HIDE DEF n
<1>2. /\ a \in Seq(Nat) /\ Len(a) = k - 1
      /\ \A i \in 1 .. k - 1 : a[i] = t[i]
  <2>1. \A i \in 1 .. k - 1 : t[i] \in Nat
    BY <1>1
  <2>2. 1 \in Int /\ k - 1 \in Int
    BY <1>1
  <2>3. /\ a \in Seq(Nat) /\ Len(a) = (IF 1 <= k - 1 THEN (k - 1) - 1 + 1 ELSE 0)
        /\ \A i \in 1 .. (k - 1) - 1 + 1 : a[i] = t[1 + i - 1]
    BY <2>1, <2>2, SubSeqProperties
  <2> HIDE DEF a
  <2> QED BY <1>1, <2>3
<1>3. /\ b \in Seq(Nat) /\ Len(b) = n + 1 - k
      /\ \A i \in 1 .. n + 1 - k : b[i] = t[k + i - 1]
  <2>1. \A i \in k .. n : t[i] \in Nat
    BY <1>1
  <2>2. n \in Int /\ k \in Int
    BY <1>1
  <2>3. /\ b \in Seq(Nat) /\ Len(b) = (IF k <= n THEN n - k + 1 ELSE 0)
        /\ \A i \in 1 .. n - k + 1 : b[i] = t[k + i - 1]
    BY <2>1, <2>2, SubSeqProperties
  <2> HIDE DEF b
  <2> QED BY <1>1, <2>3
<1> HIDE DEF a, b
<1>4. <<x>> \in Seq(Nat) /\ Len(<<x>>) = 1 /\ <<x>>[1] = x
  OBVIOUS
<1>5. u = (a \o <<x>>) \o b
  BY DEF InsertAt, a, b, n
<1>6. /\ a \o <<x>> \in Seq(Nat) /\ Len(a \o <<x>>) = k
      /\ \A i \in 1 .. k : (a \o <<x>>)[i] = IF i <= k - 1 THEN a[i] ELSE <<x>>[i - (k - 1)]
  <2>1. /\ a \o <<x>> \in Seq(Nat) /\ Len(a \o <<x>>) = (k - 1) + 1
        /\ \A i \in 1 .. (k - 1) + 1 : (a \o <<x>>)[i] = IF i <= k - 1 THEN a[i] ELSE <<x>>[i - (k - 1)]
    BY <1>2, <1>4, ConcatProperties
  <2> QED BY <1>1, <2>1
<1> DEFINE c == a \o <<x>>
<1>7. /\ c \in Seq(Nat) /\ Len(c) = k /\ c[k] = x
      /\ \A i \in 1 .. k - 1 : c[i] = t[i]
  <2>1. k \in 1 .. k /\ ~(k <= k - 1) /\ k - (k - 1) = 1
    BY <1>1
  <2>2. \A i \in 1 .. k - 1 : i \in 1 .. k /\ i <= k - 1
    BY <1>1
  <2> QED BY <1>2, <1>4, <1>6, <2>1, <2>2
<1> HIDE DEF c
<1>8. /\ c \o b \in Seq(Nat) /\ Len(c \o b) = n + 1
      /\ \A i \in 1 .. n + 1 : (c \o b)[i] = IF i <= k THEN c[i] ELSE b[i - k]
  <2>1. /\ c \o b \in Seq(Nat) /\ Len(c \o b) = k + (n + 1 - k)
        /\ \A i \in 1 .. k + (n + 1 - k) : (c \o b)[i] = IF i <= k THEN c[i] ELSE b[i - k]
    BY <1>3, <1>7, ConcatProperties
  <2>2. k + (n + 1 - k) = n + 1
    BY <1>1
  <2> QED BY <2>1, <2>2
<1>9. u = c \o b
  BY <1>5 DEF c
<1> HIDE DEF u
<1>10. u[k] = x /\ \A i \in 1 .. k - 1 : u[i] = t[i]
  <2>1. k \in 1 .. n + 1 /\ k <= k
    BY <1>1
  <2>2. \A i \in 1 .. k - 1 : i \in 1 .. n + 1 /\ i <= k
    BY <1>1
  <2> QED BY <1>7, <1>8, <1>9, <2>1, <2>2
<1>11. \A i \in k + 1 .. n + 1 : u[i] = t[i - 1]
  <2> SUFFICES ASSUME NEW i \in k + 1 .. n + 1 PROVE u[i] = t[i - 1]
    OBVIOUS
  <2>1. i \in 1 .. n + 1 /\ ~(i <= k) /\ i - k \in 1 .. n + 1 - k /\ k + (i - k) - 1 = i - 1
    BY <1>1
  <2>2. u[i] = b[i - k]
    BY <1>8, <1>9, <2>1
  <2>3. b[i - k] = t[k + (i - k) - 1]
    BY <1>3, <2>1
  <2> QED BY <2>1, <2>2, <2>3
<1>12. Inserted(u, t, x, k)
  BY <1>8, <1>9, <1>10, <1>11 DEF n, Inserted
<1> QED BY <1>12 DEF u

\* std::sort: what is inserted goes to its place, and the list stays in order.
LEMMA InsertKeepsOrder ==
  ASSUME NEW t \in Seq(Nat), Ordered(t), NEW x \in Nat
  PROVE  LET k == Place(t, x)
             u == Insert(t, x)
         IN  k \in 1 .. Len(t) + 1 /\ Inserted(u, t, x, k) /\ Ordered(u)
<1> DEFINE n == Len(t)
           k == Place(t, x)
           u == Insert(t, x)
<1>1. n \in Nat /\ \A i \in 1 .. n : t[i] \in Nat
  BY LenProperties, ElementOfSeq
<1>2. k \in 1 .. n + 1 /\ Fits(t, x, k)
  BY PlaceFits
<1> HIDE DEF k
<1>3. /\ u \in Seq(Nat) /\ Len(u) = n + 1 /\ u[k] = x
      /\ \A i \in 1 .. k - 1 : u[i] = t[i]
      /\ \A i \in k + 1 .. n + 1 : u[i] = t[i - 1]
  <2>1. u = InsertAt(t, k, x)
    BY DEF Insert, k
  <2> HIDE DEF u
  <2>2. k \in 1 .. Len(t) + 1
    BY <1>2
  <2>3. Inserted(u, t, x, k)
    BY <2>1, <2>2, InsertAtIs
  <2> QED BY <2>3 DEF Inserted
<1> HIDE DEF u, n
<1>4. \A i \in 1 .. k - 1 : t[i] <= x
  BY <1>2 DEF Fits
<1>5. \A i \in k .. n : x < t[i]
  BY <1>2 DEF Fits, n
<1>6. \A i, j \in 1 .. n : i <= j => t[i] <= t[j]
  BY DEF Ordered, n
<1>7. ASSUME NEW i \in 1 .. n + 1, NEW j \in 1 .. n + 1, i <= j PROVE u[i] <= u[j]
  <2>1. CASE j < k
    <3>1. i \in 1 .. k - 1 /\ j \in 1 .. k - 1 /\ i \in 1 .. n /\ j \in 1 .. n
      BY <1>1, <1>2, <1>7, <2>1
    <3> QED BY <1>3, <1>6, <1>7, <3>1
  <2>2. CASE j = k /\ i < k
    <3>1. i \in 1 .. k - 1
      BY <1>1, <1>2, <2>2
    <3> QED BY <1>3, <1>4, <2>2, <3>1
  <2>3. CASE j = k /\ i = k
    BY <1>3, <2>3
  <2>4. CASE k < j /\ i < k
    <3>1. i \in 1 .. k - 1 /\ i \in 1 .. n /\ j \in k + 1 .. n + 1 /\ j - 1 \in k .. n /\ j - 1 \in 1 .. n
      BY <1>1, <1>2, <2>4
    <3>2. t[i] <= x /\ x < t[j - 1] /\ t[i] \in Nat /\ t[j - 1] \in Nat
      BY <1>1, <1>4, <1>5, <3>1
    <3>3. u[i] = t[i] /\ u[j] = t[j - 1]
      BY <1>3, <3>1
    <3> QED BY <3>2, <3>3
  <2>5. CASE k < j /\ i = k
    <3>1. j \in k + 1 .. n + 1 /\ j - 1 \in k .. n /\ j - 1 \in 1 .. n
      BY <1>1, <1>2, <2>5
    <3>2. x < t[j - 1] /\ t[j - 1] \in Nat
      BY <1>1, <1>5, <3>1
    <3>3. u[i] = x /\ u[j] = t[j - 1]
      BY <1>3, <2>5, <3>1
    <3> QED BY <3>2, <3>3
  <2>6. CASE k < i
    <3>1. /\ i \in k + 1 .. n + 1 /\ j \in k + 1 .. n + 1 /\ i - 1 \in 1 .. n /\ j - 1 \in 1 .. n
          /\ i - 1 <= j - 1
      BY <1>1, <1>2, <1>7, <2>6
    <3>2. t[i - 1] <= t[j - 1]
      BY <1>6, <3>1
    <3>3. u[i] = t[i - 1] /\ u[j] = t[j - 1]
      BY <1>3, <3>1
    <3> QED BY <3>2, <3>3
  <2>7. i \in Nat /\ j \in Nat /\ k \in Nat
    BY <1>1, <1>2
  <2> QED BY <1>7, <2>1, <2>2, <2>3, <2>4, <2>5, <2>6, <2>7
<1>8. Ordered(u)
  BY <1>3, <1>7 DEF Ordered
<1>9. k \in 1 .. Len(t) + 1 /\ Inserted(u, t, x, k)
  BY <1>2, <1>3 DEF n, Inserted
<1> QED BY <1>8, <1>9 DEF k, u

\* p is an arrangement of n places.
Arranges(p, n) ==
  /\ p \in [1 .. n -> 1 .. n]
  /\ \A i, j \in 1 .. n : p[i] = p[j] => i = j
  /\ \A m \in 1 .. n : \E i \in 1 .. n : p[i] = m

\* An arrangement with one more place, put at k.
Shifted(p, n, k) ==
  [i \in 1 .. n + 1 |-> IF i < k THEN p[i] ELSE IF i = k THEN n + 1 ELSE p[i - 1]]

\* It is one.
LEMMA ShiftedArranges ==
  ASSUME NEW n \in Nat, NEW p, Arranges(p, n), NEW k \in 1 .. n + 1
  PROVE  Arranges(Shifted(p, n, k), n + 1)
<1> DEFINE q == Shifted(p, n, k)
<1>1. /\ \A i \in 1 .. n : p[i] \in 1 .. n
      /\ \A i, j \in 1 .. n : p[i] = p[j] => i = j
      /\ \A m \in 1 .. n : \E i \in 1 .. n : p[i] = m
  BY DEF Arranges
<1>2. \A i \in 1 .. n + 1 : i < k => q[i] = p[i] /\ i \in 1 .. n
  BY DEF Shifted
<1>3. q[k] = n + 1
  BY DEF Shifted
<1>4. \A i \in 1 .. n + 1 : k < i => q[i] = p[i - 1] /\ i - 1 \in 1 .. n
  BY DEF Shifted
<1>5. DOMAIN q = 1 .. n + 1 /\ q = [i \in 1 .. n + 1 |-> q[i]]
  BY DEF Shifted
<1> HIDE DEF q
<1>6. \A i \in 1 .. n + 1 : i < k \/ i = k \/ k < i
  OBVIOUS
<1>7. ASSUME NEW i \in 1 .. n + 1 PROVE q[i] \in 1 .. n + 1
  <2>1. 1 .. n \subseteq 1 .. n + 1 /\ n + 1 \in 1 .. n + 1
    OBVIOUS
  <2> QED BY <1>1, <1>2, <1>3, <1>4, <1>6, <2>1
<1>8. q \in [1 .. n + 1 -> 1 .. n + 1]
  BY <1>5, <1>7
<1>9. n + 1 \notin 1 .. n
  OBVIOUS
<1>10. ASSUME NEW i \in 1 .. n + 1, NEW j \in 1 .. n + 1, q[i] = q[j] PROVE i = j
  <2>1. CASE i = k
    <3>1. j = k
      BY <1>1, <1>2, <1>3, <1>4, <1>6, <1>9, <1>10, <2>1
    <3> QED BY <2>1, <3>1
  <2>2. CASE j = k
    <3>1. i = k
      BY <1>1, <1>2, <1>3, <1>4, <1>6, <1>9, <1>10, <2>2
    <3> QED BY <2>2, <3>1
  <2>3. CASE i < k /\ j < k
    BY <1>1, <1>2, <1>10, <2>3
  <2>4. CASE k < i /\ k < j
    <3>1. i - 1 = j - 1
      BY <1>1, <1>4, <1>10, <2>4
    <3> QED BY <3>1
  <2>5. CASE i < k /\ k < j
    <3>1. i = j - 1
      BY <1>1, <1>2, <1>4, <1>10, <2>5
    <3> QED BY <2>5, <3>1
  <2>6. CASE k < i /\ j < k
    <3>1. i - 1 = j
      BY <1>1, <1>2, <1>4, <1>10, <2>6
    <3> QED BY <2>6, <3>1
  <2> QED BY <1>6, <2>1, <2>2, <2>3, <2>4, <2>5, <2>6
<1>11. ASSUME NEW m \in 1 .. n + 1 PROVE \E i \in 1 .. n + 1 : q[i] = m
  <2>1. CASE m = n + 1
    BY <1>3, <2>1
  <2>2. CASE m # n + 1
    <3>1. m \in 1 .. n
      BY <2>2
    <3>2. PICK i \in 1 .. n : p[i] = m
      BY <1>1, <3>1
    <3>3. CASE i < k
      <4>1. i \in 1 .. n + 1
        OBVIOUS
      <4> QED BY <1>2, <3>2, <3>3, <4>1
    <3>4. CASE ~(i < k)
      <4>1. i + 1 \in 1 .. n + 1 /\ k < i + 1 /\ (i + 1) - 1 = i
        BY <3>4
      <4>2. q[i + 1] = p[i]
        BY <1>4, <4>1
      <4> QED BY <3>2, <4>1, <4>2
    <3> QED BY <3>3, <3>4
  <2> QED BY <2>1, <2>2
<1>12. \A i, j \in 1 .. n + 1 : q[i] = q[j] => i = j
  BY <1>10
<1>13. \A m \in 1 .. n + 1 : \E i \in 1 .. n + 1 : q[i] = m
  BY <1>11
<1>14. Arranges(q, n + 1)
  BY <1>8, <1>12, <1>13 DEF Arranges
<1> QED BY <1>14 DEF q

\* g[n] is the first n elements of s, sorted.
Sorts(g, s, N) == g[0] = <<>> /\ \A n \in 1 .. N : g[n] = Insert(g[n - 1], s[n])

\* The recursion of Sorted has a solution: a shortest list without one would be one
\* element longer than a list with one.
LEMMA SortExists ==
  ASSUME NEW N \in Nat, NEW s
  PROVE  \E g : g = [n \in 0 .. N |-> g[n]] /\ Sorts(g, s, N)
<1> DEFINE Solved(m) == \E g : g = [n \in 0 .. m |-> g[n]] /\ Sorts(g, s, m)
           A == {m \in 0 .. N : ~Solved(m)}
<1> SUFFICES ASSUME A # {} PROVE FALSE
  <2>1. N \in 0 .. N
    OBVIOUS
  <2> QED BY <2>1
<1>1. PICK m \in A : \A k \in A : m <= k
  <2>1. 0 .. N \subseteq Nat
    OBVIOUS
  <2>2. A \subseteq 0 .. N
    OBVIOUS
  <2> HIDE DEF A
  <2> QED BY <2>1, <2>2, LeastNumber
<1>2. m \in 0 .. N /\ ~Solved(m)
  BY <1>1
<1>3. CASE m = 0
  <2> DEFINE g == [n \in 0 .. 0 |-> <<>>]
  <2>1. g = [n \in 0 .. 0 |-> g[n]] /\ g[0] = <<>>
    OBVIOUS
  <2> HIDE DEF g
  <2>2. Sorts(g, s, 0)
    BY <2>1 DEF Sorts
  <2> QED BY <1>2, <1>3, <2>1, <2>2
<1>4. CASE m # 0
  <2>1. m - 1 \in 0 .. N /\ ~(m <= m - 1) /\ m \in Nat
    BY <1>2, <1>4
  <2>2. Solved(m - 1)
    BY <1>1, <2>1
  <2>3. PICK g : Sorts(g, s, m - 1)
    BY <2>2
  <2> DEFINE last == Insert(g[m - 1], s[m])
             h == [n \in 0 .. m |-> IF n = m THEN last ELSE g[n]]
  <2>4. h[m] = last /\ \A n \in 0 .. m - 1 : h[n] = g[n]
    BY <2>1
  <2>5. h = [n \in 0 .. m |-> h[n]]
    OBVIOUS
  <2> HIDE DEF h
  <2>6. h[0] = <<>>
    BY <1>4, <2>1, <2>3, <2>4 DEF Sorts
  <2>7. ASSUME NEW n \in 1 .. m PROVE h[n] = Insert(h[n - 1], s[n])
    <3>1. h[n - 1] = g[n - 1]
      BY <2>1, <2>4
    <3>2. CASE n = m
      BY <2>4, <3>1, <3>2
    <3>3. CASE n # m
      <4>1. n \in 1 .. m - 1 /\ n \in 0 .. m - 1
        BY <2>1, <3>3
      <4>2. g[n] = Insert(g[n - 1], s[n]) /\ h[n] = g[n]
        BY <2>3, <2>4, <4>1 DEF Sorts
      <4> QED BY <3>1, <4>2
    <3> QED BY <3>2, <3>3
  <2>8. Sorts(h, s, m)
    BY <2>6, <2>7 DEF Sorts
  <2> QED BY <1>2, <2>5, <2>8
<1> QED BY <1>3, <1>4

\* Sorted inserts the whole list.
LEMMA SortUnfolds ==
  ASSUME NEW s \in Seq(Nat)
  PROVE  \E g : Sorts(g, s, Len(s)) /\ Sorted(s) = g[Len(s)]
<1> DEFINE N == Len(s)
           Next1(g, n) == IF n = 0 THEN <<>> ELSE Insert(g[n - 1], s[n])
           Defined(g) == g = [n \in 0 .. N |-> Next1(g, n)]
           sorted == CHOOSE g : Defined(g)
<1>1. N \in Nat
  BY LenProperties
<1>2. \E g : Defined(g)
  <2>1. PICK g : g = [n \in 0 .. N |-> g[n]] /\ Sorts(g, s, N)
    <3> HIDE DEF N
    <3> QED BY <1>1, SortExists
  <2>2. \A n \in 0 .. N : g[n] = Next1(g, n)
    <3>1. \A n \in 0 .. N : n # 0 => n \in 1 .. N
      BY <1>1
    <3> QED BY <2>1, <3>1 DEF Sorts
  <2>3. Defined(g)
    BY <2>1, <2>2
  <2> QED BY <2>3
<1>3. Defined(sorted)
  BY <1>2
<1>4. Sorted(s) = sorted[N]
  BY DEF Sorted
<1> HIDE DEF sorted
<1>5. \A n \in 0 .. N : sorted[n] = Next1(sorted, n)
  BY <1>3
<1>6. Sorts(sorted, s, N)
  <2>1. \A n \in 1 .. N : n \in 0 .. N /\ n # 0
    BY <1>1
  <2>2. 0 \in 0 .. N
    BY <1>1
  <2> QED BY <1>5, <2>1, <2>2 DEF Sorts
<1> QED BY <1>4, <1>6

\* t is the first n elements of s, by the arrangement p.
IsSort(t, s, n) ==
  /\ t \in Seq(Nat) /\ Len(t) = n /\ Ordered(t)
  /\ \E p : Arranges(p, n) /\ \A i \in 1 .. n : t[i] = s[p[i]]

\* One more element, in its place.
LEMMA SortGrows ==
  ASSUME NEW n \in Nat, NEW s, NEW t, IsSort(t, s, n), s[n + 1] \in Nat
  PROVE  IsSort(Insert(t, s[n + 1]), s, n + 1)
<1> DEFINE x == s[n + 1]
           k == Place(t, x)
           u == Insert(t, x)
<1>1. t \in Seq(Nat) /\ Len(t) = n /\ Ordered(t) /\ x \in Nat
  BY DEF IsSort
<1>2. PICK p : Arranges(p, n) /\ \A i \in 1 .. n : t[i] = s[p[i]]
  BY DEF IsSort
<1> HIDE DEF x
<1>3. /\ k \in 1 .. n + 1 /\ u \in Seq(Nat) /\ Len(u) = n + 1 /\ u[k] = x /\ Ordered(u)
      /\ \A i \in 1 .. k - 1 : u[i] = t[i]
      /\ \A i \in k + 1 .. n + 1 : u[i] = t[i - 1]
  <2>1. k \in 1 .. Len(t) + 1 /\ Inserted(u, t, x, k) /\ Ordered(u)
    BY <1>1, InsertKeepsOrder
  <2> HIDE DEF u, k
  <2> QED BY <1>1, <2>1 DEF Inserted
<1> DEFINE q == Shifted(p, n, k)
<1> HIDE DEF u, k
<1>4. Arranges(q, n + 1)
  BY <1>2, <1>3, ShiftedArranges
<1>5. ASSUME NEW i \in 1 .. n + 1 PROVE u[i] = s[q[i]]
  <2>1. CASE i < k
    <3>1. i \in 1 .. k - 1 /\ i \in 1 .. n
      BY <1>3, <2>1
    <3>2. q[i] = p[i]
      BY <2>1 DEF Shifted
    <3> QED BY <1>2, <1>3, <3>1, <3>2
  <2>2. CASE i = k
    <3>1. q[i] = n + 1
      BY <1>3, <2>2 DEF Shifted
    <3> QED BY <1>3, <2>2, <3>1 DEF x
  <2>3. CASE k < i
    <3>1. i \in k + 1 .. n + 1 /\ i - 1 \in 1 .. n
      BY <1>3, <2>3
    <3>2. q[i] = p[i - 1]
      BY <1>3, <2>3 DEF Shifted
    <3> QED BY <1>2, <1>3, <3>1, <3>2
  <2> QED BY <1>3, <2>1, <2>2, <2>3
<1> HIDE DEF q
<1>6. IsSort(u, s, n + 1)
  BY <1>3, <1>4, <1>5 DEF IsSort
<1> QED BY <1>6 DEF u, x

\* std::sort: the list has the same elements as before, in order
\* (Benchmark.hpp:48-50).
LEMMA SortedIsSort ==
  ASSUME NEW s \in Seq(Nat)
  PROVE  IsSort(Sorted(s), s, Len(s))
<1> DEFINE N == Len(s)
<1>1. N \in Nat /\ \A n \in 1 .. N : s[n] \in Nat
  BY LenProperties, ElementOfSeq
<1>2. PICK g : Sorts(g, s, N) /\ Sorted(s) = g[N]
  BY SortUnfolds
<1> HIDE DEF N
<1> DEFINE A == {n \in 0 .. N : ~IsSort(g[n], s, n)}
<1>3. A = {}
  <2> SUFFICES ASSUME A # {} PROVE FALSE
    OBVIOUS
  <2>1. PICK m \in A : \A k \in A : m <= k
    <3>1. 0 .. N \subseteq Nat
      OBVIOUS
    <3>2. A \subseteq 0 .. N
      OBVIOUS
    <3> HIDE DEF A
    <3> QED BY <3>1, <3>2, LeastNumber
  <2>2. m \in 0 .. N /\ ~IsSort(g[m], s, m)
    BY <2>1
  <2>3. CASE m = 0
    <3>1. g[0] = <<>> /\ <<>> \in Seq(Nat) /\ Len(<<>>) = 0
      BY <1>2, EmptySeq DEF Sorts
    <3>2. Ordered(<<>>)
      BY <3>1 DEF Ordered
    <3>3. Arranges(<<>>, 0)
      BY DEF Arranges
    <3>4. IsSort(<<>>, s, 0)
      BY <3>1, <3>2, <3>3 DEF IsSort
    <3> QED BY <2>2, <2>3, <3>1, <3>4
  <2>4. CASE m # 0
    <3>1. m - 1 \in 0 .. N /\ ~(m <= m - 1) /\ m \in 1 .. N /\ m - 1 \in Nat /\ (m - 1) + 1 = m
      BY <1>1, <2>2, <2>4
    <3>2. IsSort(g[m - 1], s, m - 1)
      BY <2>1, <3>1
    <3>3. g[m] = Insert(g[m - 1], s[m]) /\ s[m] \in Nat
      BY <1>1, <1>2, <3>1 DEF Sorts
    <3>4. IsSort(Insert(g[m - 1], s[(m - 1) + 1]), s, (m - 1) + 1)
      BY <3>1, <3>2, <3>3, SortGrows
    <3> QED BY <2>2, <3>1, <3>3, <3>4
  <2> QED BY <2>3, <2>4
<1>4. N \in 0 .. N
  BY <1>1
<1>5. IsSort(g[N], s, N)
  BY <1>3, <1>4
<1> QED BY <1>2, <1>5 DEF N

\* An arrangement counts the same.
LEMMA SameCount ==
  ASSUME NEW n \in Nat, NEW p, Arranges(p, n), NEW B \in SUBSET (1 .. n)
  PROVE  Cardinality({i \in 1 .. n : p[i] \in B}) = Cardinality(B)
<1> DEFINE A == {i \in 1 .. n : p[i] \in B}
           f == [i \in A |-> p[i]]
<1>1. /\ p \in [1 .. n -> 1 .. n]
      /\ \A i, j \in 1 .. n : p[i] = p[j] => i = j
      /\ \A m \in 1 .. n : \E i \in 1 .. n : p[i] = m
  BY DEF Arranges
<1>2. f \in [A -> B]
  OBVIOUS
<1>3. \A i, j \in A : f[i] = f[j] => i = j
  BY <1>1
<1>4. \A b \in B : \E i \in A : f[i] = b
  <2> SUFFICES ASSUME NEW b \in B PROVE \E i \in A : f[i] = b
    OBVIOUS
  <2>1. PICK i \in 1 .. n : p[i] = b
    BY <1>1
  <2>2. i \in A /\ f[i] = b
    BY <2>1
  <2> QED BY <2>2
<1>5. IsFiniteSet(A)
  <2>1. IsFiniteSet(1 .. n)
    BY FS_Interval
  <2>2. A \in SUBSET (1 .. n)
    OBVIOUS
  <2> HIDE DEF A
  <2> QED BY <2>1, <2>2, FS_Subset
<1> HIDE DEF A, f
<1>6. f \in Bijection(A, B)
  BY <1>2, <1>3, <1>4 DEF Bijection, Injection, Surjection, IsInjective
<1>7. ExistsBijection(A, B)
  BY <1>6 DEF ExistsBijection
<1>8. Cardinality(B) = Cardinality(A)
  BY <1>5, <1>7, FS_Bijection
<1> QED BY <1>8 DEF A

\* The places of t that hold less than v, and those that hold at most v.
Below(t, v) == {i \in 1 .. Len(t) : t[i] < v}
UpTo(t, v) == {i \in 1 .. Len(t) : t[i] <= v}

\* What IsQuantile counts, on a list.
LEMMA QuantileCounts ==
  ASSUME NEW s \in Seq(Nat), NEW v, NEW p
  PROVE  IsQuantile(v, p, s) <=> /\ 1000 * Cardinality(Below(s, v)) <= p * Len(s)
                                 /\ 1000 * Cardinality(UpTo(s, v)) >= p * Len(s)
<1>1. DOMAIN s = 1 .. Len(s)
  BY LenProperties
<1>2. Count(s, LAMBDA x : x < v) = Cardinality(Below(s, v))
  BY <1>1 DEF Count, Below
<1>3. Count(s, LAMBDA x : x <= v) = Cardinality(UpTo(s, v))
  BY <1>1 DEF Count, UpTo
<1> QED BY <1>2, <1>3 DEF IsQuantile

\* Sorting changes none of the counts.
LEMMA SortCounts ==
  ASSUME NEW s \in Seq(Nat), NEW t, IsSort(t, s, Len(s)), NEW v
  PROVE  /\ Cardinality(Below(s, v)) = Cardinality(Below(t, v))
         /\ Cardinality(UpTo(s, v)) = Cardinality(UpTo(t, v))
<1> DEFINE n == Len(s)
<1>1. n \in Nat
  BY LenProperties
<1>2. Len(t) = n
  BY DEF IsSort
<1>3. PICK p : Arranges(p, n) /\ \A i \in 1 .. n : t[i] = s[p[i]]
  BY DEF IsSort
<1>4. \A i \in 1 .. n : p[i] \in 1 .. n
  BY <1>3 DEF Arranges
<1>5. Below(t, v) = {i \in 1 .. n : p[i] \in Below(s, v)}
  BY <1>2, <1>3, <1>4 DEF Below
<1>6. UpTo(t, v) = {i \in 1 .. n : p[i] \in UpTo(s, v)}
  BY <1>2, <1>3, <1>4 DEF UpTo
<1>7. Below(s, v) \in SUBSET (1 .. n) /\ UpTo(s, v) \in SUBSET (1 .. n)
  BY DEF Below, UpTo
<1> HIDE DEF n
<1> QED BY <1>1, <1>3, <1>5, <1>6, <1>7, SameCount

\* In an ordered list fewer than k are below the k-th element, and at least k are
\* not above it.
LEMMA ElementCounts ==
  ASSUME NEW t \in Seq(Nat), Ordered(t), NEW k \in 1 .. Len(t)
  PROVE  /\ Cardinality(Below(t, t[k])) \in 0 .. k - 1
         /\ Cardinality(UpTo(t, t[k])) \in Nat /\ Cardinality(UpTo(t, t[k])) >= k
<1> DEFINE n == Len(t)
           v == t[k]
<1>1. n \in Nat /\ \A i \in 1 .. n : t[i] \in Nat
  BY LenProperties, ElementOfSeq
<1>2. \A i, j \in 1 .. n : i <= j => t[i] <= t[j]
  BY DEF Ordered
<1>3. k \in 1 .. n /\ v \in Nat
  BY <1>1
<1>4. Below(t, v) \subseteq 1 .. k - 1
  <2> SUFFICES ASSUME NEW i \in 1 .. n, t[i] < v PROVE i \in 1 .. k - 1
    BY DEF Below
  <2>1. ~(v <= t[i])
    BY <1>1, <1>3
  <2>2. ~(k <= i)
    BY <1>2, <1>3, <2>1
  <2> QED BY <1>1, <1>3, <2>2
<1>5. 1 .. k \subseteq UpTo(t, v) /\ UpTo(t, v) \subseteq 1 .. n
  <2>1. ASSUME NEW i \in 1 .. k PROVE i \in UpTo(t, v)
    <3>1. i \in 1 .. n /\ i <= k
      BY <1>1, <1>3
    <3>2. t[i] <= v
      BY <1>2, <1>3, <3>1
    <3> QED BY <3>1, <3>2 DEF UpTo
  <2> QED BY <2>1 DEF UpTo
<1> HIDE DEF n, v
<1>6. /\ IsFiniteSet(1 .. k - 1) /\ Cardinality(1 .. k - 1) = k - 1
      /\ IsFiniteSet(1 .. k) /\ Cardinality(1 .. k) = k /\ IsFiniteSet(1 .. n)
  <2>1. 1 \in Int /\ k \in Int /\ k - 1 \in Int /\ n \in Int /\ k >= 1
    BY <1>1, <1>3
  <2>2. IsFiniteSet(1 .. k - 1) /\ Cardinality(1 .. k - 1) = IF 1 > k - 1 THEN 0 ELSE (k - 1) - 1 + 1
    BY <2>1, FS_Interval
  <2>3. IsFiniteSet(1 .. k) /\ Cardinality(1 .. k) = IF 1 > k THEN 0 ELSE k - 1 + 1
    BY <2>1, FS_Interval
  <2>4. IsFiniteSet(1 .. n)
    BY <2>1, FS_Interval
  <2> QED BY <2>1, <2>2, <2>3, <2>4
<1>7. Cardinality(Below(t, v)) \in Nat /\ Cardinality(Below(t, v)) <= k - 1
  BY <1>4, <1>6, FS_Subset, FS_CardinalityType
<1>8. IsFiniteSet(UpTo(t, v))
  BY <1>5, <1>6, FS_Subset
<1>9. Cardinality(UpTo(t, v)) \in Nat /\ k <= Cardinality(UpTo(t, v))
  BY <1>5, <1>6, <1>8, FS_Subset, FS_CardinalityType
<1> QED BY <1>3, <1>7, <1>9 DEF v, n

\* The percentiles there may be, all of them less than the whole.
PerMille == 0 .. 999

\* The place of a percentile in a list that is not empty.
Nth(p, n) == (p * n) \div 1000 + 1
NthFits(p, n) ==
  Nth(p, n) \in 1 .. n /\ 1000 * (Nth(p, n) - 1) <= p * n /\ p * n <= 1000 * Nth(p, n)

\* It is in the list, and one of the last is not rounded away.
LEMMA NthIs ==
  ASSUME NEW p \in PerMille, NEW n \in Nat \ {0}
  PROVE  NthFits(p, n)
<1> DEFINE x == p * n
           idx == x \div 1000
<1>1. x \in Nat /\ x < 1000 * n
  <2> USE DEF PerMille
  <2>1. (1000 - p) * n > 0 /\ (1000 - p) * n = 1000 * n - p * n /\ p * n >= 0
    OBVIOUS
  <2> QED BY <2>1
<1> HIDE DEF x
<1>2. idx \in Nat /\ 1000 * idx <= x /\ x < 1000 * (idx + 1)
  BY <1>1, Quotient
<1> HIDE DEF idx
<1>3. idx < n
  BY <1>1, <1>2
<1>4. Nth(p, n) = idx + 1
  BY DEF Nth, idx, x
<1> QED BY <1>1, <1>2, <1>3, <1>4 DEF x, NthFits

\* The percentile of calculateStats is the element there (Benchmark.hpp:66-70).
LEMMA PercentileIs ==
  ASSUME NEW t \in Seq(Nat), t # <<>>, NEW p \in PerMille
  PROVE  Percentile(t, p) = t[Nth(p, Len(t))]
<1>1. Len(t) \in Nat \ {0}
  BY LenProperties, EmptySeq
<1> DEFINE n == Len(t)
           idx == (p * n) \div 1000
<1>2. Nth(p, n) \in 1 .. n /\ Nth(p, n) = idx + 1
  <2>1. NthFits(p, n)
    BY <1>1, NthIs
  <2> QED BY <2>1 DEF NthFits, Nth
<1> HIDE DEF idx
<1>3. ~(idx >= n)
  <2>1. idx \in Int
    BY <1>1 DEF idx, PerMille
  <2> QED BY <1>1, <1>2, <2>1
<1>4. Percentile(t, p) = t[IF idx >= n THEN n ELSE idx + 1]
  BY DEF Percentile, idx
<1> QED BY <1>1, <1>2, <1>3, <1>4

\* A percentile is a quantile of the list that was sorted.
LEMMA PercentileIsQuantile ==
  ASSUME NEW s \in Seq(Nat), s # <<>>, NEW t, IsSort(t, s, Len(s)), NEW p \in PerMille
  PROVE  IsQuantile(Percentile(t, p), p, s)
<1> DEFINE n == Len(s)
           k == Nth(p, n)
           v == Percentile(t, p)
<1>1. t \in Seq(Nat) /\ Len(t) = n /\ Ordered(t) /\ t # <<>>
  <2>1. t \in Seq(Nat) /\ Len(t) = n /\ Ordered(t)
    BY DEF IsSort
  <2> QED BY <2>1, EmptySeq
<1>2. v = t[k] /\ n \in Nat \ {0}
  <2>1. v = t[Nth(p, Len(t))]
    <3>1. t \in Seq(Nat) /\ t # <<>>
      BY <1>1
    <3> QED BY <3>1, PercentileIs
  <2>2. n \in Nat \ {0}
    BY LenProperties, EmptySeq
  <2> QED BY <1>1, <2>1, <2>2
<1>3. k \in 1 .. n /\ 1000 * (k - 1) <= p * n /\ p * n <= 1000 * k
  <2>1. NthFits(p, n)
    BY <1>2, NthIs
  <2> HIDE DEF n
  <2> QED BY <2>1 DEF NthFits
<1> DEFINE below == Cardinality(Below(s, v))
           upTo == Cardinality(UpTo(s, v))
           x == p * n
<1>4. below = Cardinality(Below(t, v)) /\ upTo = Cardinality(UpTo(t, v))
  BY SortCounts
<1> HIDE DEF k, v
<1>5. below \in 0 .. k - 1 /\ upTo \in Nat /\ upTo >= k
  BY <1>1, <1>2, <1>3, <1>4, ElementCounts
<1>6. x \in Nat
  BY <1>2 DEF PerMille
<1> HIDE DEF below, upTo, x
<1>7. 1000 * (k - 1) <= x /\ x <= 1000 * k /\ k \in Nat
  BY <1>2, <1>3 DEF x
<1>8. 1000 * below <= x /\ 1000 * upTo >= x
  BY <1>5, <1>6, <1>7
<1>9. IsQuantile(v, p, s)
  BY <1>8, QuantileCounts DEF below, upTo, x
<1> QED BY <1>9 DEF v

\* A sum of n numbers in order lies between n times the first and n times the last.
LEMMA SumBetween ==
  ASSUME NEW s \in Seq(Nat), NEW lo \in Nat, NEW hi \in Nat,
         \A i \in 1 .. Len(s) : lo <= s[i] /\ s[i] <= hi
  PROVE  lo * Len(s) <= SumOf(s) /\ SumOf(s) <= hi * Len(s)
<1> DEFINE N == Len(s)
<1>1. N \in Nat /\ \A i \in 1 .. N : s[i] \in Nat
  BY LenProperties, ElementOfSeq
<1>2. PICK g : Adds(g, s, N) /\ SumOf(s) = g[N]
  BY SumUnfolds
<1>3. \A i \in 1 .. N : lo <= s[i] /\ s[i] <= hi
  OBVIOUS
<1> DEFINE Holds(n) == g[n] \in Nat /\ lo * n <= g[n] /\ g[n] <= hi * n
           A == {n \in 0 .. N : ~Holds(n)}
<1> HIDE DEF N
<1>4. A = {}
  <2> SUFFICES ASSUME A # {} PROVE FALSE
    OBVIOUS
  <2>1. PICK m \in A : \A k \in A : m <= k
    <3>1. 0 .. N \subseteq Nat
      OBVIOUS
    <3>2. A \subseteq 0 .. N
      OBVIOUS
    <3> HIDE DEF A
    <3> QED BY <3>1, <3>2, LeastNumber
  <2>2. m \in 0 .. N /\ ~Holds(m)
    BY <2>1
  <2>3. CASE m = 0
    <3>1. g[0] = 0 /\ lo * 0 = 0 /\ hi * 0 = 0
      BY <1>2 DEF Adds
    <3> QED BY <2>2, <2>3, <3>1
  <2>4. CASE m # 0
    <3>1. m - 1 \in 0 .. N /\ ~(m <= m - 1) /\ m \in 1 .. N /\ m - 1 \in Nat
      BY <1>1, <2>2, <2>4
    <3>2. Holds(m - 1)
      BY <2>1, <3>1
    <3>3. g[m] = g[m - 1] + s[m] /\ s[m] \in Nat /\ lo <= s[m] /\ s[m] <= hi
      BY <1>1, <1>2, <1>3, <3>1 DEF Adds
    <3>4. lo * m = lo * (m - 1) + lo /\ hi * m = hi * (m - 1) + hi
      BY <3>1
    <3>5. lo * (m - 1) \in Nat /\ hi * (m - 1) \in Nat
      BY <3>1
    <3> DEFINE x == lo * (m - 1)
               y == hi * (m - 1)
    <3>6. x <= g[m - 1] /\ g[m - 1] <= y /\ g[m - 1] \in Nat
      BY <3>2
    <3>7. lo * m = x + lo /\ hi * m = y + hi /\ x \in Nat /\ y \in Nat
      BY <3>4, <3>5
    <3> HIDE DEF x, y, Holds
    <3>8. g[m] \in Nat /\ x + lo <= g[m] /\ g[m] <= y + hi
      <4>1. g[m] \in Nat
        BY <3>3, <3>6
      <4>2. x + lo <= g[m]
        BY <3>3, <3>6, <3>7
      <4>3. g[m] <= y + hi
        BY <3>3, <3>6, <3>7
      <4> QED BY <4>1, <4>2, <4>3
    <3>9. Holds(m)
      BY <3>7, <3>8 DEF Holds
    <3> QED BY <2>2, <3>9
  <2> QED BY <2>3, <2>4
<1>5. Holds(N)
  BY <1>1, <1>4
<1> QED BY <1>2, <1>5 DEF N

\* The median is the 50th percentile, or the mean of it and of the one before.
LEMMA MedianIs ==
  ASSUME NEW t \in Seq(Nat), t # <<>>, Ordered(t)
  PROVE  2 * t[1] <= Median2(t) /\ Median2(t) <= 2 * Percentile(t, 500)
<1> DEFINE n == Len(t)
           mid == n \div 2
           r == n % 2
<1>1. n \in Nat \ {0} /\ \A i \in 1 .. n : t[i] \in Nat
  BY LenProperties, ElementOfSeq, EmptySeq
<1>2. \A i, j \in 1 .. n : i <= j => t[i] <= t[j]
  BY DEF Ordered
<1>3. Percentile(t, 500) = t[Nth(500, n)]
  <2>1. 500 \in PerMille
    BY DEF PerMille
  <2> QED BY <2>1, PercentileIs
<1>4. Median2(t) = IF r = 0 THEN t[mid] + t[mid + 1] ELSE 2 * t[mid + 1]
  BY DEF Median2
<1> HIDE DEF n
<1>5. mid \in Nat /\ r \in 0 .. 1 /\ n = 2 * mid + r
  BY <1>1
<1>6. Nth(500, n) = mid + 1
  <2> DEFINE q == (500 * n) \div 1000
  <2>1. q \in Nat /\ 1000 * q <= 500 * n /\ 500 * n < 1000 * (q + 1)
    BY <1>1, Quotient
  <2> HIDE DEF q, mid, r
  <2>2. q = mid
    BY <1>1, <1>5, <2>1
  <2> QED BY <2>2 DEF Nth, q
<1> HIDE DEF mid, r
<1>7. mid + 1 \in 1 .. n /\ 1 \in 1 .. n /\ 1 <= mid + 1
  BY <1>1, <1>5
<1>8. t[1] <= t[mid + 1] /\ t[1] \in Nat /\ t[mid + 1] \in Nat
  BY <1>1, <1>2, <1>7
<1>9. CASE r = 0
  <2>1. mid \in 1 .. n /\ 1 <= mid /\ mid <= mid + 1
    BY <1>1, <1>5, <1>9
  <2>2. t[1] <= t[mid] /\ t[mid] <= t[mid + 1] /\ t[mid] \in Nat
    BY <1>1, <1>2, <1>7, <2>1
  <2>3. Median2(t) = t[mid] + t[mid + 1]
    BY <1>4, <1>9
  <2>4. 2 * t[1] <= Median2(t) /\ Median2(t) <= 2 * t[mid + 1]
    BY <1>8, <2>2, <2>3
  <2> QED BY <1>3, <1>6, <2>4
<1>10. CASE r # 0
  <2>1. Median2(t) = 2 * t[mid + 1]
    BY <1>4, <1>10
  <2>2. 2 * t[1] <= Median2(t)
    BY <1>8, <2>1
  <2>3. Median2(t) <= 2 * t[mid + 1]
    BY <1>8, <2>1
  <2> QED BY <1>3, <1>6, <2>2, <2>3
<1> QED BY <1>9, <1>10

\* calculateStats: every statistic of a list is what its name says
\* (Benchmark.hpp:42-79).
THEOREM StatisticsAreRight ==
  ASSUME NEW s \in Seq(Nat)
  PROVE  StatsAreRight(s)
<1> SUFFICES ASSUME s # <<>> PROVE StatsAreRight(s)
  BY DEF StatsAreRight
<1> DEFINE t == Sorted(s)
           n == Len(s)
           stats == CalculateStats(s)
<1>1. IsSort(t, s, n) /\ n = Len(s)
  BY SortedIsSort
<1> HIDE DEF t
<1>2. n \in Nat \ {0} /\ t \in Seq(Nat) /\ Len(t) = n /\ Ordered(t) /\ t # <<>>
  <2>1. n \in Nat \ {0}
    BY LenProperties, EmptySeq
  <2>2. t \in Seq(Nat) /\ Len(t) = n /\ Ordered(t)
    BY <1>1 DEF IsSort
  <2> QED BY <2>1, <2>2, EmptySeq
<1>3. /\ stats.count = n /\ stats.min = t[1] /\ stats.max = t[n] /\ stats.sum = SumOf(t)
      /\ stats.median2 = Median2(t)
      /\ \A p \in Percentiles : stats.percentile[p] = Percentile(t, p)
  <2>1. stats = [count |-> Len(t), min |-> t[1], max |-> t[Len(t)], sum |-> SumOf(t),
                 median2 |-> Median2(t), percentile |-> [p \in Percentiles |-> Percentile(t, p)]]
    BY <1>2 DEF CalculateStats, t
  <2> HIDE DEF stats
  <2> QED BY <1>2, <2>1
<1> HIDE DEF stats, n
<1>4. /\ Percentiles \subseteq PerMille /\ Percentiles \subseteq Nat
      /\ 500 \in Percentiles /\ 999 \in Percentiles
  BY DEF Percentiles, PerMille
<1>5. ASSUME NEW p \in Percentiles PROVE IsQuantile(stats.percentile[p], p, s)
  <2>1. p \in PerMille
    BY <1>4
  <2>2. IsQuantile(Percentile(t, p), p, s)
    <3>1. IsSort(t, s, Len(s))
      BY <1>1
    <3> QED BY <2>1, <3>1, PercentileIsQuantile
  <2> QED BY <1>3, <2>2
<1>6. \A i \in 1 .. n : t[i] \in Nat
  BY <1>2, ElementOfSeq
<1>7. \A i, j \in 1 .. n : i <= j => t[i] <= t[j]
  BY <1>2 DEF Ordered
<1>8. ASSUME NEW p \in Percentiles
      PROVE  Percentile(t, p) = t[Nth(p, n)] /\ Nth(p, n) \in 1 .. n
  <2>1. p \in PerMille
    BY <1>4
  <2>2. Percentile(t, p) = t[Nth(p, Len(t))]
    BY <1>2, <2>1, PercentileIs
  <2>3. NthFits(p, n)
    BY <1>2, <2>1, NthIs
  <2>4. Nth(p, n) \in 1 .. n
    BY <2>3 DEF NthFits
  <2> QED BY <1>2, <2>2, <2>4
<1>9. ASSUME NEW p \in Percentiles, NEW q \in Percentiles, p <= q
      PROVE  stats.percentile[p] <= stats.percentile[q]
  <2>1. p \in Nat /\ q \in Nat /\ n \in Nat /\ 1000 \in Nat \ {0}
    BY <1>2, <1>4
  <2>2. (p * n) \div 1000 <= (q * n) \div 1000
    BY <1>9, <2>1, ScaledInOrder
  <2>3. (p * n) \div 1000 \in Int /\ (q * n) \div 1000 \in Int
    BY <2>1
  <2>4. Nth(p, n) <= Nth(q, n)
    BY <2>2, <2>3 DEF Nth
  <2>5. t[Nth(p, n)] <= t[Nth(q, n)]
    BY <1>7, <1>8, <2>4
  <2> QED BY <1>3, <1>8, <2>5
<1>10. 1 \in 1 .. n /\ n \in 1 .. n
  BY <1>2
<1>11. t[1] * n <= SumOf(t) /\ SumOf(t) <= t[n] * n
  <2>1. \A i \in 1 .. n : t[1] <= t[i] /\ t[i] <= t[n]
    <3>1. \A i \in 1 .. n : 1 <= i /\ i <= n
      BY <1>2
    <3> QED BY <1>7, <1>10, <3>1
  <2>2. t[1] \in Nat /\ t[n] \in Nat
    BY <1>6, <1>10
  <2> QED BY <1>2, <2>1, <2>2, SumBetween
<1>12. stats.min * stats.count <= stats.sum /\ stats.sum <= stats.max * stats.count
  BY <1>3, <1>11
<1>13. 2 * t[1] <= Median2(t) /\ Median2(t) <= 2 * Percentile(t, 500)
  BY <1>2, MedianIs
<1>14. stats.min * 2 <= stats.median2 /\ stats.median2 <= 2 * stats.percentile[500]
  <2>1. t[1] * 2 = 2 * t[1]
    BY <1>6, <1>10
  <2> QED BY <1>3, <1>4, <1>13, <2>1
<1>15. stats.percentile[999] <= stats.max
  <2>1. Nth(999, n) <= n
    BY <1>2, <1>4, <1>8
  <2> QED BY <1>3, <1>4, <1>7, <1>8, <1>10, <2>1
<1> QED BY <1>5, <1>9, <1>12, <1>14, <1>15 DEF StatsAreRight, stats

\* The lists that StatsOfTheRunAreRight tries are lists of numbers.
LEMMA StatsInputsType == StatsInputs \subseteq Seq(Nat)
<1>1. SeqOf(0 .. 2, 5) \subseteq Seq(Nat)
  <2> SUFFICES ASSUME NEW m \in 0 .. 5, NEW s \in [1 .. m -> 0 .. 2] PROVE s \in Seq(Nat)
    BY DEF SeqOf
  <2>1. m \in Nat /\ s \in [1 .. m -> Nat]
    OBVIOUS
  <2> QED BY <2>1, IsASeq
<1>2. ASSUME NEW n \in 1 .. 50 PROVE [i \in 1 .. n |-> n - i] \in Seq(Nat)
  <2>1. n \in Nat /\ \A i \in 1 .. n : n - i \in Nat
    OBVIOUS
  <2> QED BY <2>1, IsASeq
<1> QED BY <1>1, <1>2 DEF StatsInputs

\* What is recorded is a list of latencies that are not negative.
Recorded == BenchmarkTypes /\ start_ns <= MonotonicNs

\* Whether or not the caller stops only what it has started, no latency is negative.
LEMMA NextRecorded ==
  ASSUME Recorded, [BenchmarkNext]_benchmarkVars
  PROVE  Recorded'
<1>1. ClockInv' /\ MonotonicNs \in Nat /\ MonotonicNs' \in Nat /\ MonotonicNs <= MonotonicNs'
  BY NextClock, BenchmarkLeavesClocks, ClockGoesOn DEF Recorded, BenchmarkTypes
<1> HIDE DEF MonotonicNs
<1>2. /\ start_ns \in Nat /\ begun \in Nat /\ measuring \in BOOLEAN
      /\ latencies_us \in Seq(Nat) /\ start_ns <= MonotonicNs
  BY DEF Recorded, BenchmarkTypes
<1>3. CASE UNCHANGED <<start_ns, latencies_us, measuring, begun>>
  <2>1. start_ns' <= MonotonicNs'
    BY <1>1, <1>2, <1>3
  <2> QED BY <1>1, <1>2, <1>3, <2>1 DEF Recorded, BenchmarkTypes
<1>4. CASE StartBenchmark
  <2>1. /\ measuring' = TRUE /\ start_ns' = MonotonicNs /\ latencies_us' = latencies_us
        /\ begun' = IF latencies_us = <<>> THEN MonotonicNs ELSE begun
    BY <1>4 DEF StartBenchmark
  <2> QED BY <1>1, <1>2, <2>1 DEF Recorded, BenchmarkTypes
<1>5. CASE StopBenchmark
  <2> DEFINE elapsed == MonotonicNs - start_ns
             us == elapsed \div NsPerUs
  <2>1. /\ measuring' = FALSE /\ start_ns' = start_ns /\ begun' = begun
        /\ latencies_us' = Append(latencies_us, us)
    BY <1>5 DEF StopBenchmark
  <2>2. elapsed \in Nat
    BY <1>1, <1>2
  <2> HIDE DEF elapsed
  <2>3. us \in Nat
    BY <2>2, Quotient, BenchmarkAssumption
  <2> HIDE DEF us
  <2>4. latencies_us' \in Seq(Nat)
    BY <1>2, <2>1, <2>3, AppendProperties
  <2>5. start_ns' <= MonotonicNs'
    BY <1>1, <1>2, <2>1
  <2> QED BY <1>1, <1>2, <2>1, <2>4, <2>5 DEF Recorded, BenchmarkTypes
<1>6. CASE ResetBenchmark
  <2>1. latencies_us' = <<>> /\ UNCHANGED <<start_ns, measuring, begun>>
    BY <1>6 DEF ResetBenchmark
  <2>2. latencies_us' \in Seq(Nat)
    BY <2>1, EmptySeq
  <2>3. start_ns' <= MonotonicNs'
    BY <1>1, <1>2, <2>1
  <2> QED BY <1>1, <1>2, <2>1, <2>2, <2>3 DEF Recorded, BenchmarkTypes
<1> QED BY <1>3, <1>4, <1>5, <1>6 DEF BenchmarkNext, benchmarkVars

\* Whatever the caller starts and stops, the statistics of what was recorded are
\* quantiles, a mean and a median of it (Benchmark.hpp:42-79).
THEOREM RecordedStatisticsAreRight == BenchmarkSpec => []StatsOfTheRunAreRight
<1>1. BenchmarkInit => Recorded
  BY InitBenchmark DEF Recorded, Apart
<1>2. Recorded /\ [BenchmarkNext]_benchmarkVars => Recorded'
  BY NextRecorded
<1>3. Recorded => StatsOfTheRunAreRight
  <2> SUFFICES ASSUME Recorded PROVE StatsOfTheRunAreRight
    OBVIOUS
  <2>1. StatsAreRight(latencies_us)
    BY StatisticsAreRight DEF Recorded, BenchmarkTypes
  <2>2. \A s \in StatsInputs : StatsAreRight(s)
    BY StatsInputsType, StatisticsAreRight
  <2> QED BY <2>1, <2>2 DEF StatsOfTheRunAreRight
<1> QED BY <1>1, <1>2, <1>3, PTL DEF BenchmarkSpec
=============================================================================
