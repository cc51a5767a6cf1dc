--------------------- MODULE UDPMulticastReceiver_proofs ---------------------
(****************************************************************************)
(* Theorems about UDPServer and UDPMulticastReceiver, for any datagrams,    *)
(* batches, buffers, errors and starts.                                     *)
(****************************************************************************)
EXTENDS UDPMulticastReceiver, SequenceTheorems, NaturalsInduction, WellFoundedInduction, TLAPS

Datagrams == Marked \cup {Unmarked}

-----------------------------------------------------------------------------
(* The marked datagrams of a buffer *)

\* A set of numbers that is not empty has a least one.
LEMMA LeastNumber ==
  ASSUME NEW A \in SUBSET Nat, A # {}
  PROVE  \E m \in A : \A k \in A : m <= k
<1> DEFINE R == OpToRel(<, Nat)
<1>1. \A k, m \in Nat : <<k, m>> \in R <=> k < m
  BY DEF OpToRel
<1>2. IsWellFoundedOn(R, Nat)
  BY NatLessThanWellFounded
<1> HIDE DEF R
<1>3. PICK m \in A : \A k \in A : ~(<<k, m>> \in R)
  BY <1>2, WFMin
<1>4. ASSUME NEW k \in A PROVE m <= k
  <2>1. k \in Nat /\ m \in Nat /\ ~(k < m)
    BY <1>1, <1>3
  <2> QED BY <2>1
<1> QED BY <1>4

\* g[n] are the marked datagrams among the first n of a buffer.
Step(g, buf, n) == g[n] = IF buf[n] \in Marked THEN Append(g[n - 1], buf[n]) ELSE g[n - 1]
Keeps(g, buf, N) == g[0] = <<>> /\ \A n \in 1 .. N : Step(g, buf, n)

\* What is kept so far is a list of marked datagrams.
LEMMA KeptType ==
  ASSUME NEW N \in Nat, NEW buf, NEW g, Keeps(g, buf, N)
  PROVE  \A n \in 0 .. N : g[n] \in Seq(Marked)
<1> DEFINE A == {n \in 0 .. N : g[n] \notin Seq(Marked)}
<1> SUFFICES ASSUME A # {} PROVE FALSE
  OBVIOUS
<1>1. PICK m \in A : \A n \in A : m <= n
  <2>1. 0 .. N \subseteq Nat
    OBVIOUS
  <2>2. A \subseteq 0 .. N
    OBVIOUS
  <2> HIDE DEF A
  <2> QED BY <2>1, <2>2, LeastNumber
<1>2. <<>> \in Seq(Marked)
  OBVIOUS
<1>3. m # 0 /\ m \in 0 .. N
  BY <1>1, <1>2 DEF Keeps
<1>4. m - 1 \in 0 .. N /\ ~(m <= m - 1) /\ m \in 1 .. N
  BY <1>3
<1>5. g[m - 1] \in Seq(Marked)
  BY <1>1, <1>4
<1>6. Step(g, buf, m)
  BY <1>4 DEF Keeps
<1>7. g[m] \in Seq(Marked)
  <2> HIDE DEF A
  <2> QED BY <1>5, <1>6, AppendProperties DEF Step
<1> QED BY <1>1, <1>7

\* There is only one way to keep them.
LEMMA SameKept ==
  ASSUME NEW N \in Nat, NEW buf, NEW g, NEW h, Keeps(g, buf, N), Keeps(h, buf, N)
  PROVE  g[N] = h[N]
<1> DEFINE A == {n \in 0 .. N : g[n] # h[n]}
<1> SUFFICES ASSUME A # {} PROVE FALSE
  <2>1. N \in 0 .. N
    OBVIOUS
  <2> QED BY <2>1
<1>1. PICK m \in A : \A n \in A : m <= n
  <2>1. 0 .. N \subseteq Nat
    OBVIOUS
  <2>2. A \subseteq 0 .. N
    OBVIOUS
  <2> HIDE DEF A
  <2> QED BY <2>1, <2>2, LeastNumber
<1>2. m # 0 /\ m \in 0 .. N
  BY <1>1 DEF Keeps
<1>3. m - 1 \in 0 .. N /\ ~(m <= m - 1) /\ m \in 1 .. N
  BY <1>2
<1>4. g[m - 1] = h[m - 1]
  BY <1>1, <1>3
<1>5. Step(g, buf, m) /\ Step(h, buf, m)
  BY <1>3 DEF Keeps
<1> QED BY <1>1, <1>4, <1>5 DEF Step

\* The recursion of MarkedOf has a solution: a shortest buffer without one would be
\* one datagram longer than a buffer with one.
LEMMA KeptExists ==
  ASSUME NEW N \in Nat, NEW buf
  PROVE  \E g : DOMAIN g = 0 .. N /\ g = [n \in 0 .. N |-> g[n]] /\ Keeps(g, buf, N)
<1> DEFINE Solved(m) == \E g : DOMAIN g = 0 .. m /\ g = [n \in 0 .. m |-> g[n]] /\ Keeps(g, buf, m)
           A == {m \in 0 .. N : ~Solved(m)}
<1> SUFFICES ASSUME A # {} PROVE FALSE
  <2>1. N \in 0 .. N
    OBVIOUS
  <2> QED BY <2>1
<1>1. PICK m \in A : \A k \in A : m <= k
  <2>1. 0 .. N \subseteq Nat
    OBVIOUS
  <2>2. A \subseteq 0 .. N
    OBVIOUS
  <2> HIDE DEF A
  <2> QED BY <2>1, <2>2, LeastNumber
<1>2. m \in 0 .. N /\ ~Solved(m)
  BY <1>1
<1>3. CASE m = 0
  <2> DEFINE g == [n \in 0 .. 0 |-> <<>>]
  <2>1. DOMAIN g = 0 .. 0 /\ g = [n \in 0 .. 0 |-> g[n]] /\ g[0] = <<>>
    OBVIOUS
  <2> HIDE DEF g
  <2>2. Keeps(g, buf, 0)
    BY <2>1 DEF Keeps
  <2> QED BY <1>2, <1>3, <2>1, <2>2
<1>4. CASE m # 0
  <2>1. m - 1 \in 0 .. N /\ ~(m <= m - 1) /\ m \in Nat
    BY <1>2, <1>4
  <2>2. Solved(m - 1)
    BY <1>1, <2>1
  <2>3. PICK g : Keeps(g, buf, m - 1)
    BY <2>2
  <2> DEFINE last == IF buf[m] \in Marked THEN Append(g[m - 1], buf[m]) ELSE g[m - 1]
             h == [n \in 0 .. m |-> IF n = m THEN last ELSE g[n]]
  <2>4. h[m] = last /\ \A n \in 0 .. m - 1 : h[n] = g[n]
    BY <2>1
  <2>5. DOMAIN h = 0 .. m /\ h = [n \in 0 .. m |-> h[n]]
    OBVIOUS
  <2> HIDE DEF h
  <2>6. h[0] = <<>>
    BY <1>4, <2>1, <2>3, <2>4 DEF Keeps
  <2>7. ASSUME NEW n \in 1 .. m PROVE Step(h, buf, n)
    <3>1. h[n - 1] = g[n - 1]
      BY <2>1, <2>4
    <3>2. CASE n = m
      BY <2>4, <3>1, <3>2 DEF Step
    <3>3. CASE n # m
      <4>1. n \in 1 .. m - 1 /\ n \in 0 .. m - 1
        BY <2>1, <3>3
      <4>2. Step(g, buf, n) /\ h[n] = g[n]
        BY <2>3, <2>4, <4>1 DEF Keeps
      <4> QED BY <3>1, <4>2 DEF Step
    <3> QED BY <3>2, <3>3
  <2>8. Keeps(h, buf, m)
    BY <2>6, <2>7 DEF Keeps
  <2> QED BY <1>2, <2>5, <2>8
<1> QED BY <1>3, <1>4

\* MarkedOf is what is kept of the whole buffer.
LEMMA MarkedUnfolds ==
  ASSUME NEW buf \in Seq(Datagrams)
  PROVE  \E g : Keeps(g, buf, Len(buf)) /\ MarkedOf(buf) = g[Len(buf)]
<1> DEFINE N == Len(buf)
           Defined(g) == g = [n \in 0 .. N |->
                                IF n = 0 THEN <<>>
                                ELSE IF buf[n] \in Marked THEN Append(g[n - 1], buf[n]) ELSE g[n - 1]]
           kept == CHOOSE g : Defined(g)
<1>1. N \in Nat
  BY LenProperties
<1>2. \E g : Defined(g)
  <2>1. PICK g : DOMAIN g = 0 .. N /\ g = [n \in 0 .. N |-> g[n]] /\ Keeps(g, buf, N)
    <3> HIDE DEF N
    <3> QED BY <1>1, KeptExists
  <2>2. \A n \in 0 .. N :
          g[n] = IF n = 0 THEN <<>>
                 ELSE IF buf[n] \in Marked THEN Append(g[n - 1], buf[n]) ELSE g[n - 1]
    <3>1. \A n \in 0 .. N : n # 0 => n \in 1 .. N
      BY <1>1
    <3> QED BY <2>1, <3>1 DEF Keeps, Step
  <2>3. Defined(g)
    BY <2>1, <2>2
  <2> QED BY <2>3
<1>3. Defined(kept)
  BY <1>2
<1>4. MarkedOf(buf) = kept[N]
  BY DEF MarkedOf
<1> HIDE DEF kept
<1>5. \A n \in 0 .. N : kept[n] = IF n = 0 THEN <<>>
                                  ELSE IF buf[n] \in Marked THEN Append(kept[n - 1], buf[n])
                                  ELSE kept[n - 1]
  BY <1>3
<1>6. Keeps(kept, buf, N)
  <2>1. \A n \in 1 .. N : n \in 0 .. N /\ n # 0
    BY <1>1
  <2>2. 0 \in 0 .. N
    BY <1>1
  <2> QED BY <1>5, <2>1, <2>2 DEF Keeps, Step
<1> QED BY <1>4, <1>6

\* Whatever keeps the marked datagrams of a whole buffer tells what MarkedOf is.
LEMMA MarkedIs ==
  ASSUME NEW buf \in Seq(Datagrams), NEW g, Keeps(g, buf, Len(buf))
  PROVE  MarkedOf(buf) = g[Len(buf)]
<1>1. PICK h : Keeps(h, buf, Len(buf)) /\ MarkedOf(buf) = h[Len(buf)]
  BY MarkedUnfolds
<1>2. Len(buf) \in Nat
  BY LenProperties
<1> QED BY <1>1, <1>2, SameKept

\* The marked datagrams of a buffer are a list of marked datagrams.
LEMMA MarkedType ==
  ASSUME NEW buf \in Seq(Datagrams)
  PROVE  MarkedOf(buf) \in Seq(Marked)
<1>1. PICK g : Keeps(g, buf, Len(buf)) /\ MarkedOf(buf) = g[Len(buf)]
  BY MarkedUnfolds
<1>2. Len(buf) \in Nat
  BY LenProperties
<1>3. \A n \in 0 .. Len(buf) : g[n] \in Seq(Marked)
  BY <1>1, <1>2, KeptType
<1> QED BY <1>1, <1>2, <1>3

\* An empty buffer has none.
LEMMA MarkedOfEmpty == MarkedOf(<<>>) = <<>>
<1>1. <<>> \in Seq(Datagrams) /\ Len(<<>>) = 0
  BY EmptySeq
<1>2. PICK g : Keeps(g, <<>>, 0) /\ MarkedOf(<<>>) = g[0]
  BY <1>1, MarkedUnfolds
<1> QED BY <1>2 DEF Keeps

\* A datagram that arrives is last among the marked ones, if it is one of them.
LEMMA MarkedOfAppend ==
  ASSUME NEW buf \in Seq(Datagrams), NEW d \in Datagrams
  PROVE  MarkedOf(Append(buf, d)) = IF d \in Marked THEN Append(MarkedOf(buf), d)
                                                    ELSE MarkedOf(buf)
<1> DEFINE N == Len(buf)
           longer == Append(buf, d)
<1>1. /\ N \in Nat /\ longer \in Seq(Datagrams) /\ Len(longer) = N + 1
      /\ longer[N + 1] = d /\ \A n \in 1 .. N : longer[n] = buf[n]
  BY AppendProperties, LenProperties
<1> HIDE DEF longer, N
<1>2. PICK h : Keeps(h, longer, N + 1) /\ MarkedOf(longer) = h[N + 1]
  BY <1>1, MarkedUnfolds
<1>3. Keeps(h, buf, N)
  <2>1. \A n \in 1 .. N : n \in 1 .. N + 1
    BY <1>1
  <2> QED BY <1>1, <1>2, <2>1 DEF Keeps, Step
<1>4. MarkedOf(buf) = h[N]
  BY <1>3, MarkedIs DEF N
<1>5. Step(h, longer, N + 1) /\ (N + 1) - 1 = N
  <2>1. N + 1 \in 1 .. N + 1
    BY <1>1
  <2> QED BY <1>1, <1>2, <2>1 DEF Keeps
<1> QED BY <1>1, <1>2, <1>4, <1>5 DEF Step, longer

\* The datagram that is read, if marked, was the first of the marked ones.
FirstOf(buf) == IF Head(buf) \in Marked THEN <<Head(buf)>> ELSE <<>>

\* To append to the end of a list in two parts is to append to the second.
LEMMA AppendToConcat ==
  ASSUME NEW s \in Seq(Marked), NEW t \in Seq(Marked), NEW d \in Marked
  PROVE  Append(s \o t, d) = s \o Append(t, d)
<1>1. s \o t \in Seq(Marked) /\ <<d>> \in Seq(Marked)
  BY ConcatProperties
<1>2. Append(s \o t, d) = (s \o t) \o <<d>> /\ Append(t, d) = t \o <<d>>
  BY <1>1, AppendIsConcat
<1>3. (s \o t) \o <<d>> = s \o (t \o <<d>>)
  BY <1>1, ConcatAssociative
<1> QED BY <1>2, <1>3

\* What a read leaves in the buffer keeps the order of the marked datagrams.
LEMMA MarkedOfTail ==
  ASSUME NEW buf \in Seq(Datagrams), buf # <<>>
  PROVE  MarkedOf(buf) = FirstOf(buf) \o MarkedOf(Tail(buf))
<1> DEFINE N == Len(buf)
           rest == Tail(buf)
           first == FirstOf(buf)
<1>1. N \in Nat /\ N # 0
  BY EmptySeq
<1>2. /\ rest \in Seq(Datagrams) /\ Len(rest) = N - 1
      /\ \A n \in 1 .. N - 1 : rest[n] = buf[n + 1]
  BY HeadTailProperties
<1>3. Head(buf) = buf[1]
  OBVIOUS
<1>4. first \in Seq(Marked)
  <2>1. <<>> \in Seq(Marked)
    BY EmptySeq
  <2>2. ASSUME NEW d \in Marked PROVE <<d>> \in Seq(Marked)
    OBVIOUS
  <2> QED BY <2>1, <2>2 DEF FirstOf
<1> HIDE DEF rest, N
<1>5. PICK g : Keeps(g, buf, N) /\ MarkedOf(buf) = g[N]
  BY MarkedUnfolds DEF N
<1>6. PICK h : Keeps(h, rest, N - 1) /\ MarkedOf(rest) = h[N - 1]
  BY <1>2, MarkedUnfolds
<1>7. \A n \in 0 .. N - 1 : h[n] \in Seq(Marked)
  BY <1>1, <1>6, KeptType
<1>8. g[1] = first
  <2>1. Step(g, buf, 1) /\ g[0] = <<>> /\ 1 - 1 = 0
    BY <1>1, <1>5 DEF Keeps
  <2>2. Append(<<>>, buf[1]) = <<buf[1]>>
    OBVIOUS
  <2> QED BY <1>3, <2>1, <2>2 DEF Step, FirstOf
<1> HIDE DEF first
<1> DEFINE A == {n \in 0 .. N - 1 : g[n + 1] # first \o h[n]}
<1>9. A = {}
  <2> SUFFICES ASSUME A # {} PROVE FALSE
    OBVIOUS
  <2>1. PICK m \in A : \A n \in A : m <= n
    <3>1. 0 .. N - 1 \subseteq Nat
      BY <1>1
    <3>2. A \subseteq 0 .. N - 1
      OBVIOUS
    <3> HIDE DEF A
    <3> QED BY <3>1, <3>2, LeastNumber
  <2>2. first \o h[0] = g[0 + 1]
    <3>1. h[0] = <<>> /\ 0 + 1 = 1
      BY <1>6 DEF Keeps
    <3> QED BY <1>4, <1>8, <3>1, ConcatEmptySeq
  <2>3. m \in 0 .. N - 1 /\ m # 0
    BY <2>1, <2>2
  <2> DEFINE k == m - 1
  <2>4. k \in 0 .. N - 1 /\ ~(m <= k) /\ m \in 1 .. N - 1 /\ k + 1 = m
    BY <1>1, <2>3
  <2>5. m + 1 \in 1 .. N /\ (m + 1) - 1 = m
    BY <1>1, <2>4
  <2>6. g[k + 1] = first \o h[k]
    <3> HIDE DEF k
    <3> QED BY <2>1, <2>4
  <2>7. g[m] = first \o h[m - 1]
    BY <2>4, <2>6
  <2> HIDE DEF k, A
  <2>8. Step(g, buf, m + 1) /\ Step(h, rest, m)
    BY <1>5, <1>6, <2>4, <2>5 DEF Keeps
  <2>9. rest[m] = buf[m + 1]
    BY <1>2, <2>4
  <2>10. h[m - 1] \in Seq(Marked)
    BY <1>7, <2>4 DEF k
  <2>11. g[m + 1] = first \o h[m]
    <3>1. CASE buf[m + 1] \in Marked
      <4>1. g[m + 1] = Append(first \o h[m - 1], buf[m + 1])
        BY <2>5, <2>7, <2>8, <3>1 DEF Step
      <4>2. h[m] = Append(h[m - 1], buf[m + 1])
        BY <2>8, <2>9, <3>1 DEF Step
      <4>3. Append(first \o h[m - 1], buf[m + 1]) = first \o Append(h[m - 1], buf[m + 1])
        BY <1>4, <2>10, <3>1, AppendToConcat
      <4> QED BY <4>1, <4>2, <4>3
    <3>2. CASE buf[m + 1] \notin Marked
      BY <2>5, <2>7, <2>8, <2>9, <3>2 DEF Step
    <3> QED BY <3>1, <3>2
  <2> QED BY <2>1, <2>11 DEF A
<1>10. N - 1 \in 0 .. N - 1 /\ (N - 1) + 1 = N
  BY <1>1
<1>11. g[(N - 1) + 1] = first \o h[N - 1]
  BY <1>9, <1>10
<1> QED BY <1>5, <1>6, <1>10, <1>11 DEF first, rest

-----------------------------------------------------------------------------
(* Types *)

\* The types, and what start has done when it comes to bind: socket_fd_ is the
\* socket it opened (UDPServer.hpp:40-72).
Typed ==
  /\ UDPServerTypeOK
  /\ pc \in {"bind", "join"} => socket_fd \in open

\* A new object has no socket.
LEMMA TypedInit == MInit => Typed
<1>1. [s \in Sockets |-> <<>>] \in [Sockets -> Seq(Marked \cup {Unmarked})]
  BY EmptySeq
<1>2. [s \in Sockets |-> <<>>] \in [Sockets -> Seq(Marked)] /\ <<>> \in Seq(Marked)
  BY EmptySeq
<1> QED BY <1>1, <1>2, UDPServerAssumption DEF MInit, Init, Typed, UDPServerTypeOK

\* What start, the destructor and the beginning of a batch leave alone.
LEMMA StartsTyped ==
  ASSUME Typed,
         \/ Socket \/ SocketFails \/ Bind("started") \/ Bind("join") \/ BindFails
         \/ Destroy \/ BeginBatch \/ Join \/ JoinFails
  PROVE  Typed'
<1> USE DEF Typed, UDPServerTypeOK, Sockets, NoSocket, startVars, batchVars, kernelVars
<1>1. CASE Socket
  BY <1>1, UDPServerAssumption DEF Socket
<1>2. CASE SocketFails
  BY <1>2, UDPServerAssumption DEF SocketFails
<1>3. CASE Bind("started") \/ Bind("join")
  BY <1>3 DEF Bind
<1>4. CASE BindFails
  BY <1>4 DEF BindFails
<1>5. CASE Destroy
  BY <1>5 DEF Destroy
<1>6. CASE BeginBatch
  BY <1>6, UDPServerAssumption DEF BeginBatch
<1>7. CASE Join
  BY <1>7 DEF Join
<1>8. CASE JoinFails
  BY <1>8 DEF JoinFails
<1> QED BY <1>1, <1>2, <1>3, <1>4, <1>5, <1>6, <1>7, <1>8

\* A turn of receiveMessages counts a datagram at most (UDPServer.hpp:90-107).
LEMMA BatchTyped ==
  ASSUME Typed, ReceiveMessages
  PROVE  Typed'
<1> USE DEF Typed, UDPServerTypeOK, startVars, batchVars, kernelVars
<1>1. CASE Recv
  <2>1. /\ i < MaxMessages /\ socket_fd \in Sockets /\ buffer[socket_fd] # <<>>
        /\ pc = "batch"
    BY <1>1 DEF Recv, InBatch
  <2>2. buffer[socket_fd] \in Seq(Datagrams)
    BY <2>1 DEF Datagrams
  <2>3. Tail(buffer[socket_fd]) \in Seq(Datagrams)
    BY <2>1, <2>2, HeadTailProperties
  <2>4. buffer' \in [Sockets -> Seq(Marked \cup {Unmarked})]
    BY <1>1, <2>3 DEF Recv, Datagrams
  <2>5. handled' \in Seq(Marked)
    BY <1>1 DEF Recv
  <2>6. i' \in 0 .. MaxMessages /\ received' \in 0 .. i'
    BY <1>1, <2>1, UDPServerAssumption DEF Recv
  <2> QED BY <1>1, <2>1, <2>4, <2>5, <2>6 DEF Recv
<1>2. CASE RecvAgain
  BY <1>2 DEF RecvAgain
<1>3. CASE RecvError
  BY <1>3, UDPServerAssumption DEF RecvError, InBatch
<1>4. CASE BatchIsFull
  BY <1>4 DEF BatchIsFull
<1> QED BY <1>1, <1>2, <1>3, <1>4 DEF ReceiveMessages

\* The kernel puts datagrams in buffers.
LEMMA KernelTyped ==
  ASSUME Typed, NEW d \in Datagrams,
         DeliverToGroup(d) \/ \E s \in bound : Deliver(s, d)
  PROVE  Typed'
<1> USE DEF Typed, UDPServerTypeOK, startVars, batchVars, kernelVars
<1>1. CASE DeliverToGroup(d)
  <2>1. /\ UNCHANGED <<pc, startVars, batchVars>>
        /\ buffer' = [s \in Sockets |-> IF s \in bound /\ Len(buffer[s]) < Capacity
                                        THEN Append(buffer[s], d) ELSE buffer[s]]
        /\ queued' = [s \in Sockets |-> IF (s \in bound /\ Len(buffer[s]) < Capacity) /\ d # Unmarked
                                        THEN Append(queued[s], d) ELSE queued[s]]
    BY <1>1 DEF DeliverToGroup
  <2>2. \A s \in Sockets : Append(buffer[s], d) \in Seq(Marked \cup {Unmarked})
    BY DEF Datagrams
  <2>3. d # Unmarked => \A s \in Sockets : Append(queued[s], d) \in Seq(Marked)
    BY DEF Datagrams
  <2> QED BY <2>1, <2>2, <2>3
<1>2. ASSUME NEW s \in bound, Deliver(s, d) PROVE Typed'
  <2>1. Append(buffer[s], d) \in Seq(Marked \cup {Unmarked})
    BY DEF Datagrams
  <2>2. d # Unmarked => Append(queued[s], d) \in Seq(Marked)
    BY DEF Datagrams
  <2>3. /\ UNCHANGED <<pc, startVars, batchVars>>
        /\ buffer' = [buffer EXCEPT ![s] = Append(@, d)]
        /\ \/ queued' = queued
           \/ d # Unmarked /\ queued' = [queued EXCEPT ![s] = Append(@, d)]
    BY <1>2 DEF Deliver
  <2>4. buffer' \in [Sockets -> Seq(Marked \cup {Unmarked})]
    BY <2>1, <2>3
  <2>5. queued' \in [Sockets -> Seq(Marked)]
    BY <2>2, <2>3
  <2> QED BY <2>3, <2>4, <2>5
<1> QED BY <1>1, <1>2

\* Every step keeps the types.
LEMMA TypedNext ==
  ASSUME Typed, [MNext]_mvars
  PROVE  Typed'
<1>1. CASE UNCHANGED mvars
  BY <1>1 DEF Typed, UDPServerTypeOK, mvars, vars, startVars, batchVars, kernelVars
<1>2. CASE Next
  BY <1>2, StartsTyped, BatchTyped, KernelTyped DEF Next, Run, NextBatch, Datagrams
<1>3. CASE \E d \in Marked \cup {Unmarked} : DeliverToGroup(d)
  BY <1>3, KernelTyped DEF Datagrams
<1>4. CASE ReceiverStart
  BY <1>4, StartsTyped DEF ReceiverStart
<1>5. CASE ReceiverDestroy \/ ReceiverReceive \/ ReceiverRun
  BY <1>5, StartsTyped, BatchTyped
     DEF ReceiverDestroy, ReceiverReceive, ReceiverRun, Run, NextBatch
<1> QED BY <1>1, <1>2, <1>3, <1>4, <1>5 DEF MNext

\* Both classes keep the types of their state, and no batch goes past max_messages
\* nor counts more datagrams than it had turns, however their starts and reads
\* fail (UDPServer.hpp:40-128).
THEOREM UDPTypeCorrect == Spec => []UDPServerTypeOK
<1>1. MInit => Typed
  BY TypedInit
<1>2. Typed /\ [MNext]_mvars => Typed'
  BY TypedNext
<1>3. Typed => UDPServerTypeOK
  BY DEF Typed
<1> QED BY <1>1, <1>2, <1>3, PTL DEF Spec

-----------------------------------------------------------------------------
(* Nothing is lost between the kernel and the handler *)

\* What the handler got from socket s.
HandledFrom(s) == IF Running /\ s = socket_fd THEN handled ELSE <<>>

\* Before the first batch nothing is handled; then the datagrams queued on a socket
\* are those handled and, behind them, those that wait in its buffer.
Delivered ==
  /\ ~Running => handled = <<>>
  /\ \A s \in Sockets : queued[s] = HandledFrom(s) \o MarkedOf(buffer[s])

\* start, the destructor and the beginning of a batch touch no datagram
\* (UDPServer.hpp:40-80,110-128).
LEMMA NothingRead ==
  ASSUME Typed, Delivered, UNCHANGED <<kernelVars, handled>>,
         \/ ~Running /\ ~Running'
         \/ ~Running /\ Running' /\ handled = <<>>
         \/ Running /\ Running' /\ UNCHANGED socket_fd
  PROVE  Delivered'
<1>1. \A s \in Sockets : HandledFrom(s)' = HandledFrom(s)
  BY DEF HandledFrom, Delivered
<1>2. \A s \in Sockets : MarkedOf(buffer[s])' = MarkedOf(buffer[s])
  BY DEF kernelVars
<1> QED BY <1>1, <1>2 DEF Delivered, kernelVars

\* Which steps those are.
LEMMA StartsDeliver ==
  ASSUME Typed, Delivered,
         \/ Socket \/ SocketFails \/ Bind("started") \/ Bind("join") \/ BindFails
         \/ Destroy \/ Run \/ NextBatch \/ Join \/ JoinFails \/ RecvAgain \/ RecvError
         \/ BatchIsFull \/ UNCHANGED mvars
  PROVE  Delivered'
<1> USE DEF startVars, batchVars, kernelVars, Running
<1>1. CASE Socket \/ SocketFails \/ Bind("started") \/ Bind("join") \/ BindFails \/ Join \/ JoinFails
  <2>1. UNCHANGED <<kernelVars, handled>> /\ ~Running /\ ~Running'
    BY <1>1 DEF Socket, SocketFails, Bind, BindFails, Join, JoinFails
  <2> QED BY <2>1, NothingRead
<1>2. CASE Destroy
  <2>1. UNCHANGED <<kernelVars, handled>> /\ ~Running /\ ~Running'
    BY <1>2 DEF Destroy
  <2> QED BY <2>1, NothingRead
<1>3. CASE Run
  <2>1. UNCHANGED <<kernelVars, handled>> /\ ~Running /\ Running'
    BY <1>3 DEF Run, BeginBatch
  <2> QED BY <2>1, NothingRead DEF Delivered
<1>4. CASE NextBatch \/ RecvAgain \/ RecvError \/ BatchIsFull
  <2>1. UNCHANGED <<kernelVars, handled, socket_fd>> /\ Running /\ Running'
    BY <1>4 DEF NextBatch, BeginBatch, RecvAgain, RecvError, BatchIsFull, InBatch
  <2> QED BY <2>1, NothingRead
<1>5. CASE UNCHANGED mvars
  <2>1. UNCHANGED <<kernelVars, handled, socket_fd, pc>>
    BY <1>5 DEF mvars, vars
  <2> QED BY <2>1, NothingRead
<1> QED BY <1>1, <1>2, <1>3, <1>4, <1>5

\* What the kernel appends to a buffer that has room is queued behind the rest.
LEMMA QueuedBehind ==
  ASSUME NEW q \in Seq(Datagrams), NEW h \in Seq(Marked), NEW d \in Datagrams
  PROVE  h \o MarkedOf(Append(q, d)) =
           IF d # Unmarked THEN Append(h \o MarkedOf(q), d) ELSE h \o MarkedOf(q)
<1>1. MarkedOf(q) \in Seq(Marked)
  BY MarkedType
<1>2. d # Unmarked <=> d \in Marked
  BY UDPServerAssumption DEF Datagrams
<1>3. CASE d \in Marked
  <2>1. MarkedOf(Append(q, d)) = Append(MarkedOf(q), d)
    BY <1>3, MarkedOfAppend
  <2>2. Append(h \o MarkedOf(q), d) = h \o Append(MarkedOf(q), d)
    BY <1>1, <1>3, AppendToConcat
  <2> QED BY <1>2, <1>3, <2>1, <2>2
<1>4. CASE d \notin Marked
  <2>1. MarkedOf(Append(q, d)) = MarkedOf(q)
    BY <1>4, MarkedOfAppend
  <2> QED BY <1>2, <1>4, <2>1
<1> QED BY <1>3, <1>4

\* The kernel, for one socket and for a group.
LEMMA KernelDelivers ==
  ASSUME Typed, Delivered, NEW d \in Datagrams,
         DeliverToGroup(d) \/ \E s \in bound : Deliver(s, d)
  PROVE  Delivered'
<1>1. /\ UNCHANGED <<pc, socket_fd, handled>>
      /\ \A s \in Sockets :
           \/ UNCHANGED <<buffer[s], queued[s]>>
           \/ /\ buffer'[s] = Append(buffer[s], d)
              /\ queued'[s] = IF d # Unmarked THEN Append(queued[s], d) ELSE queued[s]
  <2>1. /\ buffer \in [Sockets -> Seq(Marked \cup {Unmarked})]
        /\ queued \in [Sockets -> Seq(Marked)]
        /\ bound \subseteq Sockets
    BY DEF Typed, UDPServerTypeOK
  <2>2. CASE DeliverToGroup(d)
    BY <2>1, <2>2 DEF DeliverToGroup, startVars, batchVars
  <2>3. CASE \E s \in bound : Deliver(s, d)
    BY <2>1, <2>3 DEF Deliver, startVars, batchVars
  <2> QED BY <2>2, <2>3
<1>2. ASSUME NEW s \in Sockets PROVE queued'[s] = HandledFrom(s)' \o MarkedOf(buffer'[s])
  <2>1. HandledFrom(s)' = HandledFrom(s)
    BY <1>1 DEF HandledFrom, Running
  <2>2. HandledFrom(s) \in Seq(Marked) /\ buffer[s] \in Seq(Datagrams)
    BY EmptySeq DEF HandledFrom, Typed, UDPServerTypeOK, Datagrams
  <2>3. queued[s] = HandledFrom(s) \o MarkedOf(buffer[s])
    BY DEF Delivered
  <2>4. CASE UNCHANGED <<buffer[s], queued[s]>>
    BY <2>1, <2>3, <2>4
  <2>5. CASE /\ buffer'[s] = Append(buffer[s], d)
             /\ queued'[s] = IF d # Unmarked THEN Append(queued[s], d) ELSE queued[s]
    <3>1. HandledFrom(s) \o MarkedOf(Append(buffer[s], d)) =
            IF d # Unmarked THEN Append(HandledFrom(s) \o MarkedOf(buffer[s]), d)
                            ELSE HandledFrom(s) \o MarkedOf(buffer[s])
      BY <2>2, QueuedBehind
    <3> QED BY <2>1, <2>3, <2>5, <3>1
  <2> QED BY <1>1, <2>4, <2>5
<1> QED BY <1>1, <1>2 DEF Delivered, Running

\* A read hands the first datagram of the buffer to handler_ (UDPServer.hpp:90-103).
LEMMA RecvDelivers ==
  ASSUME Typed, Delivered, Recv
  PROVE  Delivered'
<1> DEFINE q == buffer[socket_fd]
<1>1. /\ socket_fd \in Sockets /\ q # <<>> /\ q \in Seq(Datagrams) /\ pc = "batch"
      /\ handled \in Seq(Marked)
  BY DEF Recv, InBatch, Typed, UDPServerTypeOK, Datagrams
<1>2. /\ UNCHANGED <<pc, socket_fd, queued>>
      /\ handled' = IF Head(q) \in Marked THEN Append(handled, Head(q)) ELSE handled
      /\ buffer' = [buffer EXCEPT ![socket_fd] = Tail(@)]
  BY DEF Recv, startVars
<1>3. Running /\ Running'
  BY <1>1, <1>2 DEF Running
<1>4. ASSUME NEW s \in Sockets, s # socket_fd
      PROVE  queued'[s] = HandledFrom(s)' \o MarkedOf(buffer'[s])
  <2>1. buffer'[s] = buffer[s] /\ HandledFrom(s) = <<>> /\ HandledFrom(s)' = <<>>
    BY <1>2, <1>4 DEF HandledFrom, Typed, UDPServerTypeOK
  <2> QED BY <1>2, <2>1 DEF Delivered
<1>5. ASSUME NEW s \in Sockets, s = socket_fd
      PROVE  queued'[s] = HandledFrom(s)' \o MarkedOf(buffer'[s])
  <2>1. buffer'[s] = Tail(q)
    BY <1>1, <1>2, <1>5 DEF Typed, UDPServerTypeOK
  <2>2. HandledFrom(s) = handled /\ HandledFrom(s)' = handled'
    BY <1>2, <1>3, <1>5 DEF HandledFrom
  <2>3. queued[s] = handled \o MarkedOf(q)
    BY <1>5, <2>2 DEF Delivered
  <2>4. Tail(q) \in Seq(Datagrams) /\ MarkedOf(Tail(q)) \in Seq(Marked)
    BY <1>1, HeadTailProperties, MarkedType
  <2>5. FirstOf(q) \in Seq(Marked)
    BY EmptySeq DEF FirstOf
  <2>6. handled \o MarkedOf(q) = (handled \o FirstOf(q)) \o MarkedOf(Tail(q))
    <3>1. MarkedOf(q) = FirstOf(q) \o MarkedOf(Tail(q))
      BY <1>1, MarkedOfTail
    <3>2. (handled \o FirstOf(q)) \o MarkedOf(Tail(q)) = handled \o (FirstOf(q) \o MarkedOf(Tail(q)))
      BY <1>1, <2>4, <2>5, ConcatAssociative
    <3> QED BY <3>1, <3>2
  <2>7. handled \o FirstOf(q) = handled'
    <3>1. Head(q) \in Marked => Append(handled, Head(q)) = handled \o <<Head(q)>>
      BY <1>1, AppendIsConcat
    <3>2. handled \o <<>> = handled
      BY <1>1, ConcatEmptySeq
    <3> QED BY <1>2, <3>1, <3>2 DEF FirstOf
  <2> QED BY <1>2, <2>1, <2>2, <2>3, <2>6, <2>7
<1> QED BY <1>3, <1>4, <1>5 DEF Delivered

\* Every step of both classes.
LEMMA DeliveredNext ==
  ASSUME Typed, Delivered, [MNext]_mvars
  PROVE  Delivered'
<1>1. CASE UNCHANGED mvars
  BY <1>1, StartsDeliver
<1>2. CASE Next
  BY <1>2, StartsDeliver, KernelDelivers, RecvDelivers DEF Next, ReceiveMessages, Datagrams
<1>3. CASE \E d \in Marked \cup {Unmarked} : DeliverToGroup(d)
  BY <1>3, KernelDelivers DEF Datagrams
<1>4. CASE ReceiverStart
  BY <1>4, StartsDeliver DEF ReceiverStart
<1>5. CASE ReceiverDestroy \/ ReceiverReceive \/ ReceiverRun
  BY <1>5, StartsDeliver, RecvDelivers
     DEF ReceiverDestroy, ReceiverReceive, ReceiverRun, ReceiveMessages
<1> QED BY <1>1, <1>2, <1>3, <1>4, <1>5 DEF MNext

\* Of the datagrams the kernel queued on the socket that is read, the handler of
\* either class has got the first ones, each once and in order, and the others wait
\* in the buffer: no batch boundary, no error of recvfrom and no empty datagram
\* makes receiveMessages lose or repeat one (UDPServer.hpp:82-128).
THEOREM DatagramsAreHandledInOrder == Spec => []HandledOnceInOrder
<1>1. MInit => Typed /\ Delivered
  <2>1. MInit => Typed
    BY TypedInit
  <2>2. <<>> \o <<>> = <<>>
    BY EmptySeq, ConcatEmptySeq
  <2> QED BY <2>1, <2>2, MarkedOfEmpty DEF MInit, Init, Delivered, HandledFrom, Running
<1>2. Typed /\ Delivered /\ [MNext]_mvars => Typed' /\ Delivered'
  BY TypedNext, DeliveredNext
<1>3. Typed /\ Delivered => HandledOnceInOrder
  BY DEF Typed, UDPServerTypeOK, Delivered, HandledFrom, HandledOnceInOrder
<1> QED BY <1>1, <1>2, <1>3, PTL DEF Spec
=============================================================================
