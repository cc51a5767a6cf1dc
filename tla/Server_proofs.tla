----------------------------- MODULE Server_proofs -----------------------------
(****************************************************************************)
(* Theorems about the JSON server, for any clients, lines, failed accepts   *)
(* and failures of threads.                                                 *)
(****************************************************************************)
EXTENDS Server, FiniteSetTheorems, SequenceTheorems, NaturalsInduction, WellFoundedInduction, TLAPS

-----------------------------------------------------------------------------
(* How often a client is in the book *)

\* An empty book holds no order of a client, and an empty list no confirmation.
LEMMA TimesEmpty == ASSUME NEW x PROVE Times(x, <<>>) = 0
<1>1. {i \in DOMAIN <<>> : <<>>[i] = x} = {}
  OBVIOUS
<1> HIDE DEF Times
<1>2. Times(x, <<>>) = Cardinality({i \in DOMAIN <<>> : <<>>[i] = x})
  BY DEF Times
<1> QED BY <1>1, <1>2, FS_EmptySet

\* How often something is in a list is a number.
LEMMA TimesType ==
  ASSUME NEW S, NEW list \in Seq(S), NEW x
  PROVE  Times(x, list) \in Nat /\ IsFiniteSet({i \in DOMAIN list : list[i] = x})
<1>1. DOMAIN list = 1 .. Len(list) /\ Len(list) \in Nat
  BY LenProperties
<1>2. IsFiniteSet(1 .. Len(list))
  BY <1>1, FS_Interval
<1>3. {i \in DOMAIN list : list[i] = x} \in SUBSET (1 .. Len(list))
  BY <1>1
<1> QED BY <1>2, <1>3, FS_Subset, FS_CardinalityType DEF Times

\* AddOrder, and an answer, add one of one kind (server.cpp:34,71).
LEMMA TimesAppend ==
  ASSUME NEW S, NEW list \in Seq(S), NEW y \in S, NEW x
  PROVE  Times(x, Append(list, y)) = Times(x, list) + (IF x = y THEN 1 ELSE 0)
<1> DEFINE n == Len(list)
           longer == Append(list, y)
           before == {i \in DOMAIN list : list[i] = x}
           after == {i \in DOMAIN longer : longer[i] = x}
<1>1. n \in Nat /\ DOMAIN list = 1 .. n
  BY LenProperties
<1>2. /\ longer \in Seq(S) /\ Len(longer) = n + 1
      /\ longer[n + 1] = y /\ \A i \in 1 .. n : longer[i] = list[i]
  BY AppendProperties
<1>3. DOMAIN longer = 1 .. n + 1
  BY <1>2, LenProperties
<1>4. IsFiniteSet(before) /\ Times(x, list) = Cardinality(before)
  BY TimesType DEF Times
<1>5. Times(x, longer) = Cardinality(after)
  BY DEF Times
<1> HIDE DEF n, longer
<1>6. CASE x = y
  <2>1. after = before \cup {n + 1}
    BY <1>1, <1>2, <1>3, <1>6
  <2>2. n + 1 \notin before
    BY <1>1
  <2> HIDE DEF before, after
  <2>3. Cardinality(after) = Cardinality(before) + 1
    BY <1>4, <2>1, <2>2, FS_AddElement
  <2> QED BY <1>4, <1>5, <1>6, <2>3 DEF longer
<1>7. CASE x # y
  <2>1. after = before
    BY <1>1, <1>2, <1>3, <1>7
  <2>2. Cardinality(before) \in Nat
    BY <1>4, FS_CardinalityType
  <2> HIDE DEF before, after
  <2> QED BY <1>4, <1>5, <1>7, <2>1, <2>2 DEF longer
<1> QED BY <1>6, <1>7

-----------------------------------------------------------------------------
(* What is answered of the first lines *)

\* A set of numbers that is not empty has a least one.
LEMMA LeastNumber ==
  ASSUME NEW A \in SUBSET Nat, A # {}
  PROVE  \E m \in A : \A k \in A : m <= k
<1> DEFINE R == OpToRel(<, Nat)
<1>1. \A k, m \in Nat : <<k, m>> \in R <=> k < m
  BY DEF OpToRel
<1>2. IsWellFoundedOn(R, Nat)
  BY NatLessThanWellFounded
<1> HIDE DEF R
<1>3. PICK m \in A : \A k \in A : ~(<<k, m>> \in R)
  BY <1>2, WFMin
<1>4. ASSUME NEW k \in A PROVE m <= k
  <2>1. k \in Nat /\ m \in Nat /\ ~(k < m)
    BY <1>1, <1>3
  <2> QED BY <2>1
<1> QED BY <1>4

\* Whether the n-th line is answered, and g[n] are the answers to the first n lines.
IsAnswered(lines, n) == lines[n] \in Answered /\ \A j \in 1 .. n - 1 : lines[j] # "garbage"
Step(g, lines, n) == g[n] = IF IsAnswered(lines, n) THEN Append(g[n - 1], lines[n]) ELSE g[n - 1]
Says(g, lines, N) == g[0] = <<>> /\ \A n \in 1 .. N : Step(g, lines, n)

\* There is only one way to answer, for lines that are the same so far.
LEMMA SameSaid ==
  ASSUME NEW N \in Nat, NEW k, NEW l, \A n \in 1 .. N : k[n] = l[n],
         NEW g, NEW h, Says(g, k, N), Says(h, l, N)
  PROVE  g[N] = h[N]
<1> DEFINE A == {n \in 0 .. N : g[n] # h[n]}
<1> SUFFICES ASSUME A # {} PROVE FALSE
  <2>1. N \in 0 .. N
    OBVIOUS
  <2> QED BY <2>1
<1>1. PICK m \in A : \A n \in A : m <= n
  <2>1. 0 .. N \subseteq Nat
    OBVIOUS
  <2>2. A \subseteq 0 .. N
    OBVIOUS
  <2> HIDE DEF A
  <2> QED BY <2>1, <2>2, LeastNumber
<1>2. m # 0 /\ m \in 0 .. N
  BY <1>1 DEF Says
<1>3. m - 1 \in 0 .. N /\ ~(m <= m - 1) /\ m \in 1 .. N
  BY <1>2
<1>4. g[m - 1] = h[m - 1]
  BY <1>1, <1>3
<1>5. Step(g, k, m) /\ Step(h, l, m)
  BY <1>3 DEF Says
<1>6. k[m] = l[m] /\ \A j \in 1 .. m - 1 : k[j] = l[j]
  BY <1>3
<1>7. IsAnswered(k, m) <=> IsAnswered(l, m)
  BY <1>6 DEF IsAnswered
<1> QED BY <1>1, <1>4, <1>5, <1>6, <1>7 DEF Step

\* The recursion of AnswersTo has a solution: the least number of lines without one
\* would be one more than a number with one.
LEMMA SaidExists ==
  ASSUME NEW N \in Nat, NEW lines
  PROVE  \E g : g = [n \in 0 .. N |-> g[n]] /\ Says(g, lines, N)
<1> DEFINE Solved(m) == \E g : g = [n \in 0 .. m |-> g[n]] /\ Says(g, lines, m)
           A == {m \in 0 .. N : ~Solved(m)}
<1> SUFFICES ASSUME A # {} PROVE FALSE
  <2>1. N \in 0 .. N
    OBVIOUS
  <2> QED BY <2>1
<1>1. PICK m \in A : \A k \in A : m <= k
  <2>1. 0 .. N \subseteq Nat
    OBVIOUS
  <2>2. A \subseteq 0 .. N
    OBVIOUS
  <2> HIDE DEF A
  <2> QED BY <2>1, <2>2, LeastNumber
<1>2. m \in 0 .. N /\ ~Solved(m)
  BY <1>1
<1>3. CASE m = 0
  <2> DEFINE g == [n \in 0 .. 0 |-> <<>>]
  <2>1. g = [n \in 0 .. 0 |-> g[n]] /\ g[0] = <<>>
    OBVIOUS
  <2> HIDE DEF g
  <2>2. Says(g, lines, 0)
    BY <2>1 DEF Says
  <2> QED BY <1>2, <1>3, <2>1, <2>2
<1>4. CASE m # 0
  <2>1. m - 1 \in 0 .. N /\ ~(m <= m - 1) /\ m \in Nat
    BY <1>2, <1>4
  <2>2. Solved(m - 1)
    BY <1>1, <2>1
  <2>3. PICK g : Says(g, lines, m - 1)
    BY <2>2
  <2> DEFINE last == IF IsAnswered(lines, m) THEN Append(g[m - 1], lines[m]) ELSE g[m - 1]
             h == [n \in 0 .. m |-> IF n = m THEN last ELSE g[n]]
  <2>4. h[m] = last /\ \A n \in 0 .. m - 1 : h[n] = g[n]
    BY <2>1
  <2>5. h = [n \in 0 .. m |-> h[n]]
    OBVIOUS
  <2> HIDE DEF h
  <2>6. h[0] = <<>>
    BY <1>4, <2>1, <2>3, <2>4 DEF Says
  <2>7. ASSUME NEW n \in 1 .. m PROVE Step(h, lines, n)
    <3>1. h[n - 1] = g[n - 1]
      BY <2>1, <2>4
    <3>2. CASE n = m
      BY <2>4, <3>1, <3>2 DEF Step
    <3>3. CASE n # m
      <4>1. n \in 1 .. m - 1 /\ n \in 0 .. m - 1
        BY <2>1, <3>3
      <4>2. Step(g, lines, n) /\ h[n] = g[n]
        BY <2>3, <2>4, <4>1 DEF Says
      <4> QED BY <3>1, <4>2 DEF Step
    <3> QED BY <3>2, <3>3
  <2>8. Says(h, lines, m)
    BY <2>6, <2>7 DEF Says
  <2> QED BY <1>2, <2>5, <2>8
<1> QED BY <1>3, <1>4

\* AnswersTo is what is said after those lines.
LEMMA AnswersUnfold ==
  ASSUME NEW N \in Nat, NEW lines
  PROVE  \E g : Says(g, lines, N) /\ AnswersTo(lines, N) = g[N]
<1> DEFINE Next1(g, n) == IF n = 0 THEN <<>>
                          ELSE IF lines[n] \in Answered /\ \A j \in 1 .. n - 1 : lines[j] # "garbage"
                               THEN Append(g[n - 1], lines[n]) ELSE g[n - 1]
           Defined(g) == g = [n \in 0 .. N |-> Next1(g, n)]
           said == CHOOSE g : Defined(g)
<1>1. \E g : Defined(g)
  <2>1. PICK g : g = [n \in 0 .. N |-> g[n]] /\ Says(g, lines, N)
    BY SaidExists
  <2>2. \A n \in 0 .. N : g[n] = Next1(g, n)
    <3>1. \A n \in 0 .. N : n # 0 => n \in 1 .. N
      OBVIOUS
    <3> QED BY <2>1, <3>1 DEF Says, Step, IsAnswered
  <2>3. Defined(g)
    BY <2>1, <2>2
  <2> QED BY <2>3
<1>2. Defined(said)
  BY <1>1
<1>3. AnswersTo(lines, N) = said[N]
  BY DEF AnswersTo
<1> HIDE DEF said
<1>4. \A n \in 0 .. N : said[n] = Next1(said, n)
  BY <1>2
<1>5. Says(said, lines, N)
  <2>1. \A n \in 1 .. N : n \in 0 .. N /\ n # 0
    OBVIOUS
  <2>2. 0 \in 0 .. N
    OBVIOUS
  <2> QED BY <1>4, <2>1, <2>2 DEF Says, Step, IsAnswered
<1> QED BY <1>3, <1>5

\* No line, no answer.
LEMMA AnswersToNone == ASSUME NEW lines PROVE AnswersTo(lines, 0) = <<>>
<1>1. PICK g : Says(g, lines, 0) /\ AnswersTo(lines, 0) = g[0]
  BY AnswersUnfold
<1> QED BY <1>1 DEF Says

\* The answers to the lines before are not taken back when more lines come.
LEMMA AnswersAgree ==
  ASSUME NEW N \in Nat, NEW k, NEW l, \A n \in 1 .. N : k[n] = l[n]
  PROVE  AnswersTo(k, N) = AnswersTo(l, N)
<1>1. PICK g : Says(g, k, N) /\ AnswersTo(k, N) = g[N]
  BY AnswersUnfold
<1>2. PICK h : Says(h, l, N) /\ AnswersTo(l, N) = h[N]
  BY AnswersUnfold
<1> QED BY <1>1, <1>2, SameSaid

\* One more line is answered, or is not.
LEMMA AnswersNext ==
  ASSUME NEW n \in Nat, NEW lines
  PROVE  AnswersTo(lines, n + 1) =
           IF IsAnswered(lines, n + 1) THEN Append(AnswersTo(lines, n), lines[n + 1])
                                       ELSE AnswersTo(lines, n)
<1>1. n + 1 \in Nat /\ (n + 1) - 1 = n /\ n + 1 \in 1 .. n + 1 /\ \A m \in 1 .. n : m \in 1 .. n + 1
  OBVIOUS
<1>2. PICK g : Says(g, lines, n + 1) /\ AnswersTo(lines, n + 1) = g[n + 1]
  BY <1>1, AnswersUnfold
<1>3. PICK h : Says(h, lines, n) /\ AnswersTo(lines, n) = h[n]
  BY AnswersUnfold
<1>4. Says(g, lines, n) /\ Step(g, lines, n + 1)
  BY <1>1, <1>2 DEF Says
<1>5. g[n] = h[n]
  BY <1>3, <1>4, SameSaid
<1> QED BY <1>1, <1>2, <1>3, <1>4, <1>5 DEF Step

\* Answers are to lines that are answered.
LEMMA AnswersType ==
  ASSUME NEW N \in Nat, NEW lines
  PROVE  AnswersTo(lines, N) \in Seq(Answered)
<1> DEFINE A == {n \in 0 .. N : AnswersTo(lines, n) \notin Seq(Answered)}
<1> SUFFICES ASSUME A # {} PROVE FALSE
  <2>1. N \in 0 .. N
    OBVIOUS
  <2> QED BY <2>1
<1>1. PICK m \in A : \A n \in A : m <= n
  <2>1. 0 .. N \subseteq Nat
    OBVIOUS
  <2>2. A \subseteq 0 .. N
    OBVIOUS
  <2> HIDE DEF A
  <2> QED BY <2>1, <2>2, LeastNumber
<1>2. m \in 0 .. N /\ AnswersTo(lines, m) \notin Seq(Answered)
  BY <1>1
<1>3. m # 0
  BY <1>2, AnswersToNone, EmptySeq
<1> DEFINE k == m - 1
<1>4. k \in 0 .. N /\ k \in Nat /\ ~(m <= k) /\ k + 1 = m
  BY <1>2, <1>3
<1> HIDE DEF k
<1>5. AnswersTo(lines, k) \in Seq(Answered)
  BY <1>1, <1>4
<1>6. AnswersTo(lines, m) = IF IsAnswered(lines, m) THEN Append(AnswersTo(lines, k), lines[m])
                                                   ELSE AnswersTo(lines, k)
  BY <1>4, AnswersNext
<1>7. IsAnswered(lines, m) => lines[m] \in Answered
  BY DEF IsAnswered
<1> HIDE DEF A
<1>8. AnswersTo(lines, m) \in Seq(Answered)
  BY <1>5, <1>6, <1>7, AppendProperties
<1> QED BY <1>2, <1>8

\* s is what t begins with.
Begins(s, t) == Len(s) <= Len(t) /\ \A i \in 1 .. Len(s) : s[i] = t[i]

\* A list that begins with another has it as a prefix.
LEMMA BeginsIsPrefix ==
  ASSUME NEW S, NEW T, NEW s \in Seq(S), NEW t \in Seq(T), Begins(s, t)
  PROVE  IsPrefix(s, t)
<1> DEFINE n == Len(s)
<1>1. n \in Nat /\ n <= Len(t) /\ Len(t) \in Nat /\ \A i \in 1 .. n : s[i] = t[i]
  BY LenProperties DEF Begins
<1> HIDE DEF n
<1>2. SubSeq(s, 1, n) = SubSeq(t, 1, n)
  <2>1. \A i \in 1 .. n : s[1 + i - 1] = t[1 + i - 1]
    BY <1>1
  <2> QED BY <1>1, <2>1
<1> QED BY <1>1, <1>2 DEF IsPrefix, n

\* A list that goes on begins with what it was.
LEMMA BeginsAppend ==
  ASSUME NEW S, NEW s \in Seq(S), NEW t \in Seq(S), NEW e \in S, Begins(s, t)
  PROVE  Begins(s, Append(t, e))
<1>1. /\ Len(Append(t, e)) = Len(t) + 1
      /\ \A i \in 1 .. Len(t) : Append(t, e)[i] = t[i]
  BY AppendProperties
<1>2. Len(s) \in Nat /\ Len(t) \in Nat
  BY LenProperties
<1> QED BY <1>1, <1>2 DEF Begins

\* What begins with a longer list begins with the shorter one, too.
LEMMA BeginsShorter ==
  ASSUME NEW S, NEW s \in Seq(S), NEW t \in Seq(S), NEW e \in S, Begins(Append(s, e), t)
  PROVE  Begins(s, t)
<1>1. /\ Len(Append(s, e)) = Len(s) + 1
      /\ \A i \in 1 .. Len(s) : Append(s, e)[i] = s[i]
  BY AppendProperties
<1>2. Len(s) \in Nat /\ Len(t) \in Nat
  BY LenProperties
<1> QED BY <1>1, <1>2 DEF Begins

\* Every line only adds to the answers.
LEMMA AnswersGrow ==
  ASSUME NEW N \in Nat, NEW n \in 0 .. N, NEW lines, NEW s \in Seq(Answered),
         Begins(s, AnswersTo(lines, n))
  PROVE  Begins(s, AnswersTo(lines, N))
<1> DEFINE A == {m \in n .. N : ~Begins(s, AnswersTo(lines, m))}
<1> SUFFICES ASSUME A # {} PROVE FALSE
  <2>1. N \in n .. N
    OBVIOUS
  <2> QED BY <2>1
<1>1. PICK m \in A : \A k \in A : m <= k
  <2>1. n .. N \subseteq Nat
    OBVIOUS
  <2>2. A \subseteq n .. N
    OBVIOUS
  <2> HIDE DEF A
  <2> QED BY <2>1, <2>2, LeastNumber
<1>2. m \in n .. N /\ ~Begins(s, AnswersTo(lines, m))
  BY <1>1
<1>3. m # n
  BY <1>2
<1> DEFINE k == m - 1
<1>4. k \in n .. N /\ k \in Nat /\ ~(m <= k) /\ k + 1 = m
  BY <1>2, <1>3
<1> HIDE DEF k
<1>5. Begins(s, AnswersTo(lines, k))
  BY <1>1, <1>4
<1>6. AnswersTo(lines, m) = IF IsAnswered(lines, m) THEN Append(AnswersTo(lines, k), lines[m])
                                                   ELSE AnswersTo(lines, k)
  BY <1>4, AnswersNext
<1>7. IsAnswered(lines, m) => lines[m] \in Answered
  BY DEF IsAnswered
<1>8. AnswersTo(lines, k) \in Seq(Answered)
  BY <1>4, AnswersType
<1> HIDE DEF A
<1>9. Begins(s, AnswersTo(lines, m))
  BY <1>5, <1>6, <1>7, <1>8, BeginsAppend
<1> QED BY <1>2, <1>9

-----------------------------------------------------------------------------
(* The answers of a client's thread *)

Typed ==
  /\ conn \in [Clients -> {"none", "queued", "open", "closed"}]
  /\ at \in [Clients -> {"none", "read", "process", "place", "write"}]
  /\ inbox \in [Clients -> Seq(Kinds)]
  /\ sent \in [Clients -> Seq(Kinds)]
  /\ line \in [Clients -> Kinds]
  /\ answers \in [Clients -> Seq(Answered)]
  /\ loaded \in [Clients -> Seq(Clients)]
  /\ book \in Seq(Clients)

\* How many lines of c its thread has read: the rest of what was sent is in the inbox.
Read(c) == Len(sent[c]) - Len(inbox[c])

InboxIsTheRest(c) ==
  /\ Len(inbox[c]) <= Len(sent[c])
  /\ \A i \in 1 .. Len(inbox[c]) : inbox[c][i] = sent[c][Read(c) + i]

\* There is no thread before the connection is accepted.
NotAccepted(c) == conn[c] \in {"none", "queued"}
StartsAfterAccept(c) ==
  NotAccepted(c) => at[c] = "none" /\ answers[c] = <<>> /\ Len(inbox[c]) = Len(sent[c])

\* A thread that goes on has met no line that does not parse.
HasParsed(c) == at[c] # "none" => \A i \in 1 .. Read(c) : sent[c][i] # "garbage"

\* What was answered, and the line that is being answered, are the answers to the
\* lines read; a thread that ended may have left them unfinished.
HasAnswered(c) ==
  /\ at[c] = "none" => Begins(answers[c], AnswersTo(sent[c], Read(c)))
  /\ at[c] = "read" => answers[c] = AnswersTo(sent[c], Read(c))
  /\ at[c] \in {"process", "place", "write"} =>
       line[c] \in Answered /\ Append(answers[c], line[c]) = AnswersTo(sent[c], Read(c))

ThreadInv(c) == InboxIsTheRest(c) /\ StartsAfterAccept(c) /\ HasParsed(c) /\ HasAnswered(c)
AnswersInv == Typed /\ \A c \in Clients : ThreadInv(c)

-----------------------------------------------------------------------------
(* The orders in the book *)

\* The book, and the copies of it that are being added to.
Placing == {c \in Clients : at[c] = "place"}
Copies == {book} \cup {loaded[c] : c \in Placing}

Confirmed(c) == Times("order", answers[c])
Confirming(c) == at[c] = "write" /\ line[c] = "order"

\* No copy holds more orders of a client than were confirmed, but for one that is
\* being confirmed, or could not be.
Limit(c) == Confirmed(c) + (IF at[c] = "none" \/ Confirming(c) THEN 1 ELSE 0)
FewPlaced(b) ==
  \A c \in Clients : Times(c, b) <= Limit(c) /\ (NotAccepted(c) => Times(c, b) = 0)

PlacesOrders == \A c \in Placing : line[c] \in Valid
PlacedInv == AnswersInv /\ PlacesOrders /\ \A b \in Copies : FewPlaced(b)

\* Only traders work on orders.
TradersOrder ==
  \A c \in Clients :
    /\ \A i \in 1 .. Len(inbox[c]) : inbox[c][i] \in Orders => c \in Traders
    /\ line[c] \in Orders => c \in Traders

\* With one of them, no order is lost.
Owed(c) == Confirmed(c) + (IF Confirming(c) THEN 1 ELSE 0)
NothingIsLost ==
  /\ \A c \in Placing : loaded[c] = book
  /\ \A c \in Clients : Owed(c) <= Times(c, book)

OneTrader == \A c, d \in Traders : c = d
TradeInv == PlacedInv /\ TradersOrder /\ NothingIsLost

-----------------------------------------------------------------------------
(* The types *)

\* Server starts with no connection (server.cpp:3-6).
LEMMA TypedInit == Init => Typed
<1> SUFFICES ASSUME Init PROVE Typed
  OBVIOUS
<1>1. <<>> \in Seq(Kinds) /\ <<>> \in Seq(Answered) /\ <<>> \in Seq(Clients)
  BY EmptySeq
<1>2. "blank" \in Kinds
  BY DEF Kinds
<1> QED BY <1>1, <1>2 DEF Init, Typed

\* What clients do, and the acceptor.
LEMMA WorldTyped ==
  ASSUME Typed, NEW c \in Clients,
         \/ AcceptFails \/ Connect(c) \/ HangUp(c) \/ Accept(c)
         \/ ThreadFails(c) \/ KeyMissing(c)
         \/ \E k \in Kinds : Request(c, k)
  PROVE  Typed'
<1> USE DEF Typed, clientVars
<1>1. CASE AcceptFails \/ HangUp(c)
  BY <1>1 DEF AcceptFails, HangUp
<1>2. CASE Connect(c) \/ Accept(c) \/ ThreadFails(c) \/ KeyMissing(c)
  BY <1>2 DEF Connect, Accept, ThreadFails, KeyMissing, ProcessEnds
<1>3. ASSUME NEW k \in Kinds, Request(c, k) PROVE Typed'
  <2>1. Append(sent[c], k) \in Seq(Kinds) /\ Append(inbox[c], k) \in Seq(Kinds)
    OBVIOUS
  <2>2. /\ sent' = [sent EXCEPT ![c] = Append(sent[c], k)]
        /\ inbox' = [inbox EXCEPT ![c] = Append(inbox[c], k)]
        /\ UNCHANGED <<conn, at, line, loaded, book, answers>>
    BY <1>3 DEF Request
  <2> QED BY <2>1, <2>2
<1> QED BY <1>1, <1>2, <1>3

\* What a client's thread does (server.cpp:19-75).
LEMMA ThreadTyped ==
  ASSUME Typed, NEW c \in Clients, HandleClient(c), at[c] = "write" => line[c] \in Answered
  PROVE  Typed'
<1> USE DEF Typed, clientVars, Goto
<1>1. CASE ReadLine(c)
  <2>1. Head(inbox[c]) \in Kinds /\ Tail(inbox[c]) \in Seq(Kinds)
    BY <1>1, HeadTailProperties DEF ReadLine
  <2>2. /\ line' = [line EXCEPT ![c] = Head(inbox[c])]
        /\ inbox' = [inbox EXCEPT ![c] = Tail(inbox[c])]
        /\ UNCHANGED <<sent, loaded, book, answers>>
    BY <1>1 DEF ReadLine
  <2>3. /\ at' = at \/ at' = [at EXCEPT ![c] = "none"] \/ at' = [at EXCEPT ![c] = "process"]
        /\ conn' = conn \/ conn' = [conn EXCEPT ![c] = "closed"]
    BY <1>1 DEF ReadLine, Ends
  <2> QED BY <2>1, <2>2, <2>3
<1>2. CASE ReadEnd(c) \/ WriteFails(c)
  BY <1>2 DEF ReadEnd, WriteFails, Ends
<1>3. CASE Process(c)
  BY <1>3 DEF Process
<1>4. CASE Place(c)
  <2>1. Append(loaded[c], c) \in Seq(Clients) /\ <<>> \in Seq(Clients)
    OBVIOUS
  <2> QED BY <1>4, <2>1 DEF Place
<1>5. CASE Write(c)
  <2>1. Append(answers[c], line[c]) \in Seq(Answered)
    BY <1>5 DEF Write
  <2>2. /\ answers' = [answers EXCEPT ![c] = Append(answers[c], line[c])]
        /\ at' = [at EXCEPT ![c] = "read"]
        /\ UNCHANGED <<conn, inbox, sent, line, loaded, book>>
    BY <1>5 DEF Write
  <2> QED BY <2>1, <2>2
<1> QED BY <1>1, <1>2, <1>3, <1>4, <1>5 DEF HandleClient

-----------------------------------------------------------------------------
(* Each thread answers what it reads *)

\* A client whom a step does not concern.
Aside(c) ==
  /\ conn'[c] = conn[c] /\ at'[c] = at[c] /\ inbox'[c] = inbox[c]
  /\ sent'[c] = sent[c] /\ line'[c] = line[c] /\ answers'[c] = answers[c]

\* Its thread stays where it was.
LEMMA AsideKeeps ==
  ASSUME NEW c \in Clients, ThreadInv(c), Aside(c)
  PROVE  ThreadInv(c)'
BY DEF ThreadInv, Aside, InboxIsTheRest, StartsAfterAccept, NotAccepted, HasParsed, HasAnswered, Read

\* A client has read no more than was sent to it, in lists of lines.
LEMMA ReadType ==
  ASSUME Typed, NEW c \in Clients, ThreadInv(c)
  PROVE  /\ Read(c) \in 0 .. Len(sent[c]) /\ Len(sent[c]) \in Nat /\ Len(inbox[c]) \in Nat
         /\ AnswersTo(sent[c], Read(c)) \in Seq(Answered)
         /\ answers[c] \in Seq(Answered)
<1>1. Len(sent[c]) \in Nat /\ Len(inbox[c]) \in Nat /\ Len(inbox[c]) <= Len(sent[c])
  BY LenProperties DEF Typed, ThreadInv, InboxIsTheRest
<1>2. Read(c) \in Nat /\ Read(c) \in 0 .. Len(sent[c])
  <2> DEFINE m == Len(sent[c])
             n == Len(inbox[c])
  <2>1. m \in Nat /\ n \in Nat /\ n <= m /\ Read(c) = m - n
    BY <1>1 DEF Read
  <2> HIDE DEF m, n
  <2>2. Read(c) \in 0 .. m
    BY <2>1
  <2> QED BY <2>1, <2>2 DEF m
<1> QED BY <1>1, <1>2, AnswersType DEF Typed

\* A list begins with itself.
LEMMA BeginsSelf == ASSUME NEW S, NEW s \in Seq(S) PROVE Begins(s, s)
BY LenProperties DEF Begins

\* Whatever it was doing, a thread that ends has answered some of the first lines it
\* read (server.cpp:37-40).
LEMMA EndKeeps ==
  ASSUME Typed, NEW c \in Clients, ThreadInv(c),
         at'[c] = "none", conn'[c] = "closed",
         inbox'[c] = inbox[c], sent'[c] = sent[c], answers'[c] = answers[c]
  PROVE  ThreadInv(c)'
<1> DEFINE said == AnswersTo(sent[c], Read(c))
<1>1. said \in Seq(Answered) /\ answers[c] \in Seq(Answered)
  BY ReadType
<1> HIDE DEF said
<1>2. Begins(said, said) /\ Begins(answers[c], answers[c])
  BY <1>1, BeginsSelf
<1>3. Begins(answers[c], said)
  <2>1. CASE at[c] = "none"
    BY <2>1 DEF ThreadInv, HasAnswered, said
  <2>2. CASE at[c] = "read"
    BY <1>2, <2>2 DEF ThreadInv, HasAnswered, said
  <2>3. CASE at[c] \in {"process", "place", "write"}
    <3>1. line[c] \in Answered /\ Append(answers[c], line[c]) = said
      BY <2>3 DEF ThreadInv, HasAnswered, said
    <3> QED BY <1>1, <1>2, <3>1, BeginsShorter
  <2> QED BY <2>1, <2>2, <2>3 DEF Typed
<1>4. Begins(answers[c], said)'
  BY <1>3 DEF said, Read
<1> QED BY <1>4 DEF ThreadInv, InboxIsTheRest, StartsAfterAccept, NotAccepted, HasParsed,
                    HasAnswered, Read, said

\* A line that arrives is behind what is read and what was sent.
LEMMA RequestKeeps ==
  ASSUME Typed, NEW c \in Clients, ThreadInv(c), NEW k \in Kinds, Request(c, k)
  PROVE  ThreadInv(c)'
<1> DEFINE m == Len(sent[c])
           n == Len(inbox[c])
           r == Read(c)
<1>1. /\ sent[c] \in Seq(Kinds) /\ inbox[c] \in Seq(Kinds)
      /\ m \in Nat /\ n \in Nat /\ n <= m /\ r = m - n
  BY LenProperties DEF Typed, ThreadInv, InboxIsTheRest, Read
<1>2. /\ sent'[c] = Append(sent[c], k) /\ inbox'[c] = Append(inbox[c], k)
      /\ conn'[c] = conn[c] /\ at'[c] = at[c] /\ line'[c] = line[c] /\ answers'[c] = answers[c]
  BY DEF Request, Typed
<1>3. /\ Len(sent'[c]) = m + 1 /\ sent'[c][m + 1] = k
      /\ \A i \in 1 .. m : sent'[c][i] = sent[c][i]
  BY <1>1, <1>2, AppendProperties
<1>4. /\ Len(inbox'[c]) = n + 1 /\ inbox'[c][n + 1] = k
      /\ \A i \in 1 .. n : inbox'[c][i] = inbox[c][i]
  BY <1>1, <1>2, AppendProperties
<1>5. Read(c)' = Len(sent'[c]) - Len(inbox'[c])
  BY DEF Read
<1>6. \A i \in 1 .. n : inbox[c][i] = sent[c][r + i]
  BY DEF ThreadInv, InboxIsTheRest
<1> HIDE DEF m, n, r
<1>7. Read(c)' = r /\ r \in 0 .. m
  BY <1>1, <1>3, <1>4, <1>5
<1>8. InboxIsTheRest(c)'
  <2> SUFFICES ASSUME NEW i \in 1 .. n + 1 PROVE inbox'[c][i] = sent'[c][r + i]
    BY <1>1, <1>3, <1>4, <1>7 DEF InboxIsTheRest
  <2>1. CASE i = n + 1
    BY <1>1, <1>3, <1>4, <2>1
  <2>2. CASE i # n + 1
    <3>1. i \in 1 .. n /\ r + i \in 1 .. m
      BY <1>1, <2>2
    <3> QED BY <1>3, <1>4, <1>6, <3>1
  <2> QED BY <2>1, <2>2
<1>9. \A i \in 1 .. r : sent'[c][i] = sent[c][i]
  BY <1>1, <1>3, <1>7
<1>10. AnswersTo(sent'[c], r) = AnswersTo(sent[c], r)
  BY <1>7, <1>9, AnswersAgree
<1>11. StartsAfterAccept(c)'
  BY <1>2, <1>3, <1>4 DEF ThreadInv, StartsAfterAccept, NotAccepted, m, n
<1>12. HasParsed(c)'
  BY <1>2, <1>7, <1>9 DEF ThreadInv, HasParsed, r
<1>13. HasAnswered(c)'
  BY <1>2, <1>7, <1>10 DEF ThreadInv, HasAnswered, r
<1> QED BY <1>8, <1>11, <1>12, <1>13 DEF ThreadInv

\* The thread starts with nothing read and nothing answered (server.cpp:10-14).
LEMMA AcceptKeeps ==
  ASSUME Typed, NEW c \in Clients, ThreadInv(c), Accept(c)
  PROVE  ThreadInv(c)'
<1>1. /\ conn[c] = "queued" /\ conn'[c] = "open" /\ at'[c] = "read"
      /\ UNCHANGED <<inbox, sent, line, answers>>
  BY DEF Accept, clientVars, Typed
<1>2. answers[c] = <<>> /\ Len(inbox[c]) = Len(sent[c])
  BY <1>1 DEF ThreadInv, StartsAfterAccept, NotAccepted
<1>3. Read(c) = 0
  BY <1>2, ReadType DEF Read
<1>4. Read(c)' = 0 /\ AnswersTo(sent[c], 0) = <<>> /\ 1 .. 0 = {}
  BY <1>1, <1>3, AnswersToNone DEF Read
<1>5. InboxIsTheRest(c)'
  BY <1>1 DEF ThreadInv, InboxIsTheRest, Read
<1>6. StartsAfterAccept(c)' /\ HasParsed(c)'
  BY <1>1, <1>4 DEF StartsAfterAccept, NotAccepted, HasParsed
<1>7. HasAnswered(c)'
  BY <1>1, <1>2, <1>4 DEF HasAnswered
<1> QED BY <1>5, <1>6, <1>7 DEF ThreadInv

\* read_until and getline take the next line that was sent (server.cpp:23-30).
LEMMA ReadLineKeeps ==
  ASSUME Typed, NEW c \in Clients, ThreadInv(c), ReadLine(c)
  PROVE  ThreadInv(c)'
<1> DEFINE m == Len(sent[c])
           n == Len(inbox[c])
           r == Read(c)
           k == Head(inbox[c])
<1>1. /\ sent[c] \in Seq(Kinds) /\ inbox[c] \in Seq(Kinds) /\ inbox[c] # <<>> /\ at[c] = "read"
      /\ m \in Nat /\ n \in Nat /\ n <= m /\ r = m - n
  BY LenProperties DEF Typed, ThreadInv, InboxIsTheRest, Read, ReadLine
<1>2. /\ sent'[c] = sent[c] /\ inbox'[c] = Tail(inbox[c])
      /\ line'[c] = k /\ answers'[c] = answers[c]
  BY DEF Typed, ReadLine
<1>3. /\ n # 0 /\ Len(inbox'[c]) = n - 1 /\ k \in Kinds /\ k = inbox[c][1]
      /\ \A i \in 1 .. n - 1 : inbox'[c][i] = inbox[c][i + 1]
  <2>1. n # 0
    BY <1>1, EmptySeq
  <2>2. /\ Len(Tail(inbox[c])) = n - 1 /\ k \in Kinds
        /\ \A i \in 1 .. Len(Tail(inbox[c])) : Tail(inbox[c])[i] = inbox[c][i + 1]
    BY <1>1, HeadTailProperties
  <2>3. k = inbox[c][1]
    OBVIOUS
  <2> HIDE DEF n, k
  <2> QED BY <1>2, <2>1, <2>2, <2>3
<1>4. Read(c)' = Len(sent'[c]) - Len(inbox'[c])
  BY DEF Read
<1>5. \A i \in 1 .. n : inbox[c][i] = sent[c][r + i]
  BY DEF ThreadInv, InboxIsTheRest
<1>6. /\ k = "blank"   => at'[c] = at[c] /\ conn'[c] = conn[c]
      /\ k = "garbage" => at'[c] = "none" /\ conn'[c] = "closed"
      /\ k \notin {"blank", "garbage"} => at'[c] = "process" /\ conn'[c] = conn[c]
  BY DEF Typed, ReadLine, Ends, Goto
<1>7. answers[c] = AnswersTo(sent[c], r) /\ \A i \in 1 .. r : sent[c][i] # "garbage"
  BY <1>1 DEF ThreadInv, HasAnswered, HasParsed
<1>8. conn[c] \notin {"none", "queued"}
  BY <1>1 DEF ThreadInv, StartsAfterAccept, NotAccepted
<1> HIDE DEF m, n, r, k
<1>9. r \in Nat /\ Read(c)' = r + 1 /\ Len(sent'[c]) = m
  <2>1. Len(sent'[c]) = m
    BY <1>2 DEF m
  <2> QED BY <1>1, <1>3, <1>4, <2>1
<1>10. sent[c][r + 1] = k
  BY <1>1, <1>3, <1>5
<1>11. InboxIsTheRest(c)'
  <2> SUFFICES ASSUME NEW i \in 1 .. n - 1 PROVE inbox'[c][i] = sent'[c][(r + 1) + i]
    BY <1>1, <1>3, <1>9 DEF InboxIsTheRest
  <2>1. i + 1 \in 1 .. n /\ (r + 1) + i = r + (i + 1)
    BY <1>1, <1>9
  <2> QED BY <1>2, <1>3, <1>5, <2>1
<1>12. IsAnswered(sent[c], r + 1) <=> k \in Answered
  <2>1. (r + 1) - 1 = r
    BY <1>9
  <2> QED BY <1>7, <1>10, <2>1 DEF IsAnswered
<1>13. AnswersTo(sent[c], r + 1) = IF k \in Answered THEN Append(answers[c], k) ELSE answers[c]
  BY <1>7, <1>9, <1>10, <1>12, AnswersNext
<1>14. StartsAfterAccept(c)'
  BY <1>6, <1>8 DEF StartsAfterAccept, NotAccepted
<1>15. HasParsed(c)'
  <2> SUFFICES ASSUME k # "garbage", NEW i \in 1 .. r + 1 PROVE sent[c][i] # "garbage"
    BY <1>2, <1>6, <1>9 DEF HasParsed
  <2>1. i = r + 1 \/ i \in 1 .. r
    BY <1>9
  <2> QED BY <1>7, <1>10, <2>1
<1>16. HasAnswered(c)'
  <2>1. CASE k = "blank"
    <3>1. answers'[c] = AnswersTo(sent'[c], Read(c)')
      BY <1>2, <1>9, <1>13, <2>1 DEF Answered, Orders, Valid
    <3> QED BY <1>1, <1>6, <2>1, <3>1 DEF HasAnswered
  <2>2. CASE k = "garbage"
    <3>1. answers'[c] = AnswersTo(sent'[c], Read(c)')
      BY <1>2, <1>9, <1>13, <2>2 DEF Answered, Orders, Valid
    <3>2. Begins(answers[c], answers[c])
      BY BeginsSelf DEF Typed
    <3> QED BY <1>2, <1>6, <2>2, <3>1, <3>2 DEF HasAnswered
  <2>3. CASE k \notin {"blank", "garbage"}
    <3>1. k \in Answered
      BY <1>3, <2>3 DEF Kinds
    <3>2. Append(answers'[c], line'[c]) = AnswersTo(sent'[c], Read(c)')
      BY <1>2, <1>9, <1>13, <3>1
    <3> QED BY <1>2, <1>6, <2>3, <3>1, <3>2 DEF HasAnswered
  <2> QED BY <2>1, <2>2, <2>3
<1> QED BY <1>11, <1>14, <1>15, <1>16 DEF ThreadInv

\* Working on the line, and writing its answer (server.cpp:33-34).
LEMMA WorkKeeps ==
  ASSUME Typed, NEW c \in Clients, ThreadInv(c), Process(c) \/ Place(c) \/ Write(c)
  PROVE  ThreadInv(c)'
<1>1. /\ at[c] \in {"process", "place", "write"}
      /\ UNCHANGED <<conn, inbox, sent, line>>
      /\ \/ at'[c] \in {"place", "write"} /\ answers'[c] = answers[c]
         \/ at'[c] = "read" /\ answers'[c] = Append(answers[c], line[c])
  BY DEF Process, Place, Write, Goto, Typed, clientVars
<1>2. Read(c)' = Read(c)
  BY <1>1 DEF Read
<1>3. InboxIsTheRest(c)' /\ StartsAfterAccept(c)' /\ HasParsed(c)'
  BY <1>1, <1>2 DEF ThreadInv, InboxIsTheRest, StartsAfterAccept, NotAccepted, HasParsed
<1>4. line[c] \in Answered /\ Append(answers[c], line[c]) = AnswersTo(sent[c], Read(c))
  BY <1>1 DEF ThreadInv, HasAnswered
<1>5. HasAnswered(c)'
  BY <1>1, <1>2, <1>4 DEF HasAnswered
<1> QED BY <1>3, <1>5 DEF ThreadInv

\* Every step keeps the answers of every thread.
LEMMA AnswersNextInv == AnswersInv /\ [Next]_vars => AnswersInv'
<1> SUFFICES ASSUME AnswersInv, [Next]_vars PROVE AnswersInv'
  OBVIOUS
<1>1. Typed /\ \A d \in Clients : ThreadInv(d)
  BY DEF AnswersInv
<1>2. ASSUME NEW c \in Clients, ThreadInv(c)', Typed', \A d \in Clients \ {c} : Aside(d)
      PROVE  AnswersInv'
  <2>1. ASSUME NEW d \in Clients PROVE ThreadInv(d)'
    <3>1. CASE d = c
      BY <1>2, <3>1
    <3>2. CASE d # c
      BY <1>1, <1>2, <3>2, AsideKeeps
    <3> QED BY <3>1, <3>2
  <2> QED BY <1>2, <2>1 DEF AnswersInv
<1>3. CASE AcceptFails
  <2>1. \A d \in Clients : Aside(d)
    BY <1>3 DEF AcceptFails, clientVars, Aside
  <2>2. \A d \in Clients : ThreadInv(d)'
    BY <1>1, <2>1, AsideKeeps
  <2>3. Typed'
    BY <1>1, <1>3 DEF AcceptFails, clientVars, Typed
  <2> QED BY <2>2, <2>3 DEF AnswersInv
<1>4. ASSUME NEW c \in Clients, Connect(c)
      PROVE  AnswersInv'
  <2>1. /\ conn[c] = "none" /\ conn'[c] = "queued"
        /\ UNCHANGED <<inbox, sent, at, line, answers>>
    BY <1>1, <1>4 DEF Connect, clientVars, Typed
  <2>2. ThreadInv(c)'
    BY <1>1, <2>1 DEF ThreadInv, InboxIsTheRest, StartsAfterAccept, NotAccepted, HasParsed,
                      HasAnswered, Read
  <2>3. \A d \in Clients \ {c} : Aside(d)
    BY <1>1, <1>4 DEF Connect, clientVars, Typed, Aside
  <2> QED BY <1>1, <1>2, <1>4, <2>2, <2>3, WorldTyped
<1>5. ASSUME NEW c \in Clients, HangUp(c)
      PROVE  AnswersInv'
  <2>1. \A d \in Clients : Aside(d)
    BY <1>5 DEF HangUp, Aside
  <2>2. ThreadInv(c)'
    BY <1>1, <2>1, AsideKeeps
  <2> QED BY <1>1, <1>2, <1>5, <2>1, <2>2, WorldTyped
<1>6. ASSUME NEW c \in Clients, NEW k \in Kinds, Request(c, k)
      PROVE  AnswersInv'
  <2>1. \A d \in Clients \ {c} : Aside(d)
    BY <1>1, <1>6 DEF Request, Typed, Aside
  <2> QED BY <1>1, <1>2, <1>6, <2>1, RequestKeeps, WorldTyped
<1>7. ASSUME NEW c \in Clients, Accept(c)
      PROVE  AnswersInv'
  <2>1. \A d \in Clients \ {c} : Aside(d)
    BY <1>1, <1>7 DEF Accept, clientVars, Typed, Aside
  <2> QED BY <1>1, <1>2, <1>7, <2>1, AcceptKeeps, WorldTyped
<1>8. ASSUME NEW c \in Clients, ThreadFails(c) \/ KeyMissing(c)
      PROVE  AnswersInv'
  <2>1. \A d \in Clients : /\ at'[d] = "none" /\ conn'[d] = "closed" /\ inbox'[d] = inbox[d]
                           /\ sent'[d] = sent[d] /\ answers'[d] = answers[d]
    BY <1>8 DEF ThreadFails, KeyMissing, ProcessEnds, clientVars
  <2>2. \A d \in Clients : ThreadInv(d)'
    BY <1>1, <2>1, EndKeeps
  <2>3. Typed'
    BY <1>1, <1>8, WorldTyped
  <2> QED BY <2>2, <2>3 DEF AnswersInv
<1>9. ASSUME NEW c \in Clients, HandleClient(c)
      PROVE  AnswersInv'
  <2>1. ThreadInv(c)'
    <3>1. CASE ReadEnd(c) \/ WriteFails(c)
      <4>1. /\ at'[c] = "none" /\ conn'[c] = "closed" /\ inbox'[c] = inbox[c]
            /\ sent'[c] = sent[c] /\ answers'[c] = answers[c]
        BY <1>1, <3>1 DEF ReadEnd, WriteFails, Ends, Goto, clientVars, Typed
      <4> QED BY <1>1, <4>1, EndKeeps
    <3> QED BY <1>1, <1>9, <3>1, ReadLineKeeps, WorkKeeps DEF HandleClient
  <2>2. \A d \in Clients \ {c} : Aside(d)
    <3>1. CASE ReadLine(c)
      BY <1>1, <3>1 DEF ReadLine, Ends, Goto, Typed, Aside
    <3>2. CASE ReadEnd(c) \/ WriteFails(c)
      BY <1>1, <3>2 DEF ReadEnd, WriteFails, Ends, Goto, clientVars, Typed, Aside
    <3>3. CASE Process(c) \/ Place(c) \/ Write(c)
      BY <1>1, <3>3 DEF Process, Place, Write, Goto, clientVars, Typed, Aside
    <3> QED BY <1>9, <3>1, <3>2, <3>3 DEF HandleClient
  <2>3. at[c] = "write" => line[c] \in Answered
    BY <1>1 DEF ThreadInv, HasAnswered
  <2> QED BY <1>1, <1>2, <1>9, <2>1, <2>2, <2>3, ThreadTyped
<1>10. CASE UNCHANGED vars
  <2>1. \A d \in Clients : Aside(d)
    BY <1>10 DEF vars, clientVars, Aside
  <2>2. \A d \in Clients : ThreadInv(d)'
    BY <1>1, <2>1, AsideKeeps
  <2>3. Typed'
    BY <1>1, <1>10 DEF vars, clientVars, Typed
  <2> QED BY <2>2, <2>3 DEF AnswersInv
<1> QED BY <1>3, <1>4, <1>5, <1>6, <1>7, <1>8, <1>9, <1>10 DEF Next

\* At first there is nothing to answer.
LEMMA AnswersInitInv == Init => AnswersInv
<1> SUFFICES ASSUME Init, NEW c \in Clients PROVE ThreadInv(c)
  BY TypedInit DEF AnswersInv
<1>1. /\ conn[c] = "none" /\ at[c] = "none"
      /\ inbox[c] = <<>> /\ sent[c] = <<>> /\ answers[c] = <<>>
  BY DEF Init
<1>2. Len(<<>>) = 0 /\ 1 .. 0 = {}
  OBVIOUS
<1>3. Read(c) = 0 /\ AnswersTo(sent[c], 0) = <<>>
  BY <1>1, <1>2, AnswersToNone DEF Read
<1>4. Begins(<<>>, <<>>)
  BY <1>2 DEF Begins
<1> QED BY <1>1, <1>2, <1>3, <1>4 DEF ThreadInv, InboxIsTheRest, StartsAfterAccept, HasParsed,
                                      HasAnswered

\* So every thread answers what it read, whatever the acceptor and others do.
LEMMA AnswersInvariant == Spec => []AnswersInv
BY AnswersInitInv, AnswersNextInv, PTL DEF Spec

\* A client's answers are those to its requests, in order, for any number of clients
\* and lines (AnswersMatchRequests; server.cpp:24-37).
THEOREM RequestsAreAnsweredInOrder == Spec => []AnswersMatchRequests
<1>1. AnswersInv => AnswersMatchRequests
  <2> SUFFICES ASSUME AnswersInv, NEW c \in Clients PROVE IsPrefix(answers[c], Expected(c))
    BY DEF AnswersMatchRequests
  <2> DEFINE m == Len(sent[c])
             said == AnswersTo(sent[c], Read(c))
  <2>1. /\ Typed /\ ThreadInv(c) /\ m \in Nat /\ Read(c) \in 0 .. m
        /\ said \in Seq(Answered) /\ answers[c] \in Seq(Answered)
    BY ReadType DEF AnswersInv
  <2>2. Begins(answers[c], said)
    <3>1. CASE at[c] = "none"
      BY <2>1, <3>1 DEF ThreadInv, HasAnswered
    <3>2. CASE at[c] = "read"
      <4>1. Begins(answers[c], answers[c])
        BY <2>1, BeginsSelf
      <4> QED BY <2>1, <3>2, <4>1 DEF ThreadInv, HasAnswered
    <3>3. CASE at[c] \in {"process", "place", "write"}
      <4>1. line[c] \in Answered /\ Append(answers[c], line[c]) = said
        BY <2>1, <3>3 DEF ThreadInv, HasAnswered
      <4> HIDE DEF said
      <4>2. Begins(said, said)
        BY <2>1, BeginsSelf
      <4> QED BY <2>1, <4>1, <4>2, BeginsShorter
    <3> QED BY <2>1, <3>1, <3>2, <3>3 DEF Typed
  <2>3. Begins(answers[c], Expected(c)) /\ Expected(c) \in Seq(Answered)
    BY <2>1, <2>2, AnswersGrow, AnswersType DEF Expected
  <2> QED BY <2>1, <2>3, BeginsIsPrefix
<1> QED BY <1>1, AnswersInvariant, PTL

-----------------------------------------------------------------------------
(* No order is in the book that was not confirmed *)

\* How many orders of a client may be in the book is a number.
LEMMA LimitType ==
  ASSUME Typed, NEW c \in Clients
  PROVE  Confirmed(c) \in Nat /\ Limit(c) \in Nat /\ Confirmed(c) <= Limit(c)
<1>1. Confirmed(c) \in Nat
  BY TimesType DEF Typed, Confirmed
<1> QED BY <1>1 DEF Limit

\* What a step does to a client: it leaves its thread alone, ends it, or is one of
\* the client's own steps.
LEMMA ClientSteps ==
  ASSUME Typed, [Next]_vars, NEW d \in Clients
  PROVE  \/ UNCHANGED <<conn[d], at[d], line[d], answers[d]>>
         \/ at'[d] = "none" /\ answers'[d] = answers[d] /\ conn'[d] = "closed"
         \/ Connect(d) /\ UNCHANGED <<at[d], line[d], answers[d]>>
         \/ Accept(d) /\ conn'[d] = "open" /\ at'[d] = "read" /\ answers'[d] = answers[d]
         \/ ReadLine(d) /\ at'[d] \in {"read", "process"} /\ UNCHANGED <<conn[d], answers[d]>>
         \/ Process(d) /\ at'[d] \in {"place", "write"} /\ UNCHANGED <<conn[d], line[d], answers[d]>>
         \/ Place(d) /\ at'[d] = "write" /\ UNCHANGED <<conn[d], line[d], answers[d]>>
         \/ /\ Write(d) /\ at'[d] = "read" /\ UNCHANGED <<conn[d], line[d]>>
            /\ answers'[d] = Append(answers[d], line[d])
<1> USE DEF Typed, clientVars
<1>1. CASE AcceptFails \/ UNCHANGED vars
  BY <1>1 DEF AcceptFails, vars
<1>2. ASSUME NEW c \in Clients, Connect(c) \/ HangUp(c) \/ Accept(c) \/ ThreadFails(c) \/ KeyMissing(c)
      PROVE  \/ UNCHANGED <<conn[d], at[d], line[d], answers[d]>>
             \/ at'[d] = "none" /\ answers'[d] = answers[d] /\ conn'[d] = "closed"
             \/ Connect(d) /\ UNCHANGED <<at[d], line[d], answers[d]>>
             \/ Accept(d) /\ conn'[d] = "open" /\ at'[d] = "read" /\ answers'[d] = answers[d]
  <2>1. CASE c = d
    BY <1>2, <2>1 DEF Connect, HangUp, Accept, ThreadFails, KeyMissing, ProcessEnds
  <2>2. CASE c # d
    BY <1>2, <2>2 DEF Connect, HangUp, Accept, ThreadFails, KeyMissing, ProcessEnds
  <2> QED BY <2>1, <2>2
<1>3. ASSUME NEW c \in Clients, NEW k \in Kinds, Request(c, k)
      PROVE  UNCHANGED <<conn[d], at[d], line[d], answers[d]>>
  BY <1>3 DEF Request
<1>4. ASSUME NEW c \in Clients, HandleClient(c), c # d
      PROVE  UNCHANGED <<conn[d], at[d], line[d], answers[d]>>
  <2>1. CASE ReadLine(c) \/ ReadEnd(c) \/ WriteFails(c)
    BY <1>4, <2>1 DEF ReadLine, ReadEnd, WriteFails, Ends, Goto
  <2>2. CASE Process(c) \/ Place(c) \/ Write(c)
    BY <1>4, <2>2 DEF Process, Place, Write, Goto
  <2> QED BY <1>4, <2>1, <2>2 DEF HandleClient
<1>5. CASE ReadLine(d)
  BY <1>5 DEF ReadLine, Ends, Goto
<1>6. CASE ReadEnd(d) \/ WriteFails(d)
  BY <1>6 DEF ReadEnd, WriteFails, Ends, Goto
<1>7. CASE Process(d)
  BY <1>7 DEF Process, Goto
<1>8. CASE Place(d)
  BY <1>8 DEF Place, Goto
<1>9. CASE Write(d)
  BY <1>9 DEF Write, Goto
<1> USE DEF HandleClient
<1> QED BY <1>1, <1>2, <1>3, <1>4, <1>5, <1>6, <1>7, <1>8, <1>9 DEF Next

\* AddOrder takes the order: its quantity is not 0 (OrderBook.hpp:84-86).
Adds(c) == Place(c) /\ line[c] = "order"

\* A client may have in the book, after any step, what it might have before.
LEMMA LimitsGrow ==
  ASSUME Typed, \A c \in Clients : ThreadInv(c), PlacesOrders, [Next]_vars, NEW d \in Clients
  PROVE  /\ Limit(d)' \in Nat
         /\ Limit(d) <= Limit(d)' \/ NotAccepted(d)
         /\ NotAccepted(d)' => NotAccepted(d)
         /\ Adds(d) => Limit(d)' = Limit(d) + 1
<1>1. Confirmed(d) \in Nat /\ Limit(d) \in Nat /\ Confirmed(d) <= Limit(d)
  BY LimitType
<1>2. CASE /\ at'[d] = at[d] /\ line'[d] = line[d] /\ answers'[d] = answers[d]
           /\ conn'[d] = conn[d] \/ Connect(d)
  <2>1. Limit(d)' = Limit(d)
    BY <1>2 DEF Limit, Confirmed, Confirming
  <2>2. NotAccepted(d)' => NotAccepted(d)
    BY <1>2 DEF NotAccepted, Connect
  <2>3. ~Adds(d)
    BY <1>2 DEF Adds, Place, Goto, Typed
  <2> QED BY <1>1, <2>1, <2>2, <2>3
<1>3. CASE at'[d] = "none" /\ answers'[d] = answers[d] /\ conn'[d] = "closed"
  <2>1. Limit(d)' = Confirmed(d) + 1 /\ Limit(d) <= Confirmed(d) + 1
    BY <1>1, <1>3 DEF Limit, Confirmed
  <2>2. ~NotAccepted(d)'
    BY <1>3 DEF NotAccepted
  <2>3. ~Adds(d)
    BY <1>3 DEF Adds, Place, Goto, Typed
  <2> QED BY <1>1, <2>1, <2>2, <2>3
<1>4. CASE Accept(d) /\ conn'[d] = "open" /\ at'[d] = "read" /\ answers'[d] = answers[d]
  <2>1. Limit(d)' = Confirmed(d)
    BY <1>1, <1>4 DEF Limit, Confirmed, Confirming
  <2>2. NotAccepted(d) /\ ~NotAccepted(d)'
    BY <1>4 DEF Accept, NotAccepted
  <2>3. ~Adds(d)
    BY <1>4 DEF Adds, Place, Goto, Typed
  <2> QED BY <1>1, <2>1, <2>2, <2>3
<1>5. CASE /\ at[d] \in {"read", "process"} /\ answers'[d] = answers[d] /\ conn'[d] = conn[d]
           /\ ~Adds(d)
  <2>1. Limit(d) = Confirmed(d) /\ Limit(d)' >= Confirmed(d) /\ Limit(d)' \in Nat
    BY <1>1, <1>5 DEF Limit, Confirmed, Confirming
  <2>2. NotAccepted(d)' => NotAccepted(d)
    BY <1>5 DEF NotAccepted
  <2> QED BY <1>1, <1>5, <2>1, <2>2
<1>6. CASE Place(d) /\ at'[d] = "write" /\ UNCHANGED <<conn[d], line[d], answers[d]>>
  <2>1. at[d] = "place"
    BY <1>6 DEF Place
  <2>2. Limit(d) = Confirmed(d)
    BY <1>1, <2>1 DEF Limit, Confirming
  <2>3. CASE line[d] = "order"
    BY <1>1, <1>6, <2>2, <2>3 DEF Limit, Confirmed, Confirming, NotAccepted
  <2>4. CASE line[d] # "order"
    BY <1>1, <1>6, <2>2, <2>4 DEF Limit, Confirmed, Confirming, NotAccepted, Adds
  <2> QED BY <2>3, <2>4
<1>7. CASE /\ Write(d) /\ at'[d] = "read" /\ UNCHANGED <<conn[d], line[d]>>
           /\ answers'[d] = Append(answers[d], line[d])
  <2>1. at[d] = "write" /\ line[d] \in Answered /\ answers[d] \in Seq(Answered)
    BY <1>7 DEF Write, ThreadInv, HasAnswered, Typed
  <2>2. Times("order", answers'[d]) = Confirmed(d) + (IF "order" = line[d] THEN 1 ELSE 0)
    BY <1>7, <2>1, TimesAppend DEF Confirmed
  <2>3. Limit(d)' = Times("order", answers'[d])
    BY <1>1, <1>7, <2>2 DEF Limit, Confirmed, Confirming
  <2>4. Limit(d) = Confirmed(d) + (IF "order" = line[d] THEN 1 ELSE 0)
    BY <2>1 DEF Limit, Confirming
  <2>5. NotAccepted(d)' => NotAccepted(d)
    BY <1>7 DEF NotAccepted
  <2>6. ~Adds(d)
    BY <2>1 DEF Adds, Place
  <2> QED BY <1>1, <2>2, <2>3, <2>4, <2>5, <2>6
<1>8. ReadLine(d) => at[d] = "read" /\ ~Place(d)
  BY DEF ReadLine, Place
<1>9. Process(d) => at[d] = "process" /\ ~Place(d)
  BY DEF Process, Place
<1>10. Adds(d) => Place(d)
  BY DEF Adds
<1> QED BY <1>2, <1>3, <1>4, <1>5, <1>6, <1>7, <1>8, <1>9, <1>10, ClientSteps

\* The book changes when AddOrder ends; before that, it begins with a copy of the book
\* as it is.
LEMMA BookSteps ==
  ASSUME Typed, [Next]_vars
  PROVE  \/ /\ book' = book
            /\ \A d \in Clients : at'[d] = "place" =>
                 loaded'[d] = book \/ (at[d] = "place" /\ loaded'[d] = loaded[d])
         \/ \E c \in Clients : Place(c)
<1> USE DEF Typed, clientVars
<1> DEFINE Kept == /\ book' = book
                   /\ \A d \in Clients : at'[d] = "place" =>
                        loaded'[d] = book \/ (at[d] = "place" /\ loaded'[d] = loaded[d])
<1>1. CASE AcceptFails \/ UNCHANGED vars
  BY <1>1 DEF AcceptFails, vars
<1>2. ASSUME NEW c \in Clients, Connect(c) \/ HangUp(c) \/ Accept(c) \/ ThreadFails(c) \/ KeyMissing(c)
      PROVE  Kept
  BY <1>2 DEF Connect, HangUp, Accept, ThreadFails, KeyMissing, ProcessEnds
<1>3. ASSUME NEW c \in Clients, NEW k \in Kinds, Request(c, k)
      PROVE  Kept
  BY <1>3 DEF Request
<1>4. ASSUME NEW c \in Clients, ReadLine(c) \/ ReadEnd(c) \/ WriteFails(c) \/ Write(c)
      PROVE  Kept
  <2>1. /\ book' = book /\ loaded' = loaded
        /\ at' = at \/ \E l \in {"none", "process", "read"} : at' = [at EXCEPT ![c] = l]
    BY <1>4 DEF ReadLine, ReadEnd, WriteFails, Write, Ends, Goto
  <2> QED BY <2>1
<1>5. ASSUME NEW c \in Clients, Process(c)
      PROVE  Kept
  <2>1. /\ book' = book
        /\ \/ at' = [at EXCEPT ![c] = "place"] /\ loaded' = [loaded EXCEPT ![c] = book]
           \/ at' = [at EXCEPT ![c] = "write"] /\ loaded' = loaded
    BY <1>5 DEF Process, Goto
  <2> QED BY <2>1
<1> HIDE DEF Kept
<1>6. Kept \/ \E c \in Clients : Place(c)
  BY <1>1, <1>2, <1>3, <1>4, <1>5 DEF Next, HandleClient, Kept
<1> QED BY <1>6 DEF Kept

\* What AddOrder does to the book and the copies (server.cpp:71).
LEMMA PlaceEffect ==
  ASSUME Typed, NEW c \in Clients, Place(c)
  PROVE  /\ c \in Placing
         /\ book' = IF line[c] = "empty_order" THEN loaded[c] ELSE Append(loaded[c], c)
         /\ \A d \in Clients : at'[d] = "place" =>
              d # c /\ d \in Placing /\ loaded'[d] = loaded[d]
<1>1. /\ at[c] = "place"
      /\ book' = IF line[c] = "empty_order" THEN loaded[c] ELSE Append(loaded[c], c)
      /\ at' = [at EXCEPT ![c] = "write"] /\ loaded' = [loaded EXCEPT ![c] = <<>>]
  BY DEF Place, Goto
<1> QED BY <1>1 DEF Typed, Placing

\* A copy is one that was there, or the book with one more order.
LEMMA CopiesGrow ==
  ASSUME Typed, PlacesOrders, [Next]_vars, NEW b \in Copies'
  PROVE  b \in Copies \/ \E c \in Placing : Adds(c) /\ b = Append(loaded[c], c)
<1>1. b = book' \/ \E d \in Clients : at'[d] = "place" /\ b = loaded'[d]
  BY DEF Copies, Placing
<1>2. CASE \E c \in Clients : Place(c)
  <2>1. PICK c \in Clients : Place(c)
    BY <1>2
  <2>2. CASE b = book'
    <3>1. /\ c \in Placing /\ line[c] \in Valid
          /\ b = IF line[c] = "empty_order" THEN loaded[c] ELSE Append(loaded[c], c)
      BY <2>1, <2>2, PlaceEffect DEF PlacesOrders
    <3>2. CASE line[c] = "empty_order"
      BY <3>1, <3>2 DEF Copies
    <3>3. CASE line[c] = "order"
      BY <2>1, <3>1, <3>3 DEF Adds
    <3> QED BY <3>1, <3>2, <3>3 DEF Valid
  <2>3. ASSUME NEW d \in Clients, at'[d] = "place", b = loaded'[d]
        PROVE  b \in Copies
    BY <2>1, <2>3, PlaceEffect DEF Copies
  <2> QED BY <1>1, <2>2, <2>3
<1>3. CASE ~ \E c \in Clients : Place(c)
  BY <1>1, <1>3, BookSteps DEF Copies, Placing
<1> QED BY <1>2, <1>3

\* Only a line that is an order gets as far as AddOrder (server.cpp:63-71).
LEMMA OrdersArePlaced ==
  ASSUME Typed, PlacesOrders, [Next]_vars
  PROVE  PlacesOrders'
<1> SUFFICES ASSUME NEW d \in Clients, at'[d] = "place" PROVE line'[d] \in Valid
  BY DEF PlacesOrders, Placing
<1>1. at[d] = "place" => line[d] \in Valid
  BY DEF PlacesOrders, Placing
<1>2. Process(d) => (at'[d] = "place" => line[d] \in Valid)
  BY DEF Process, Goto, Typed
<1>3. ~Connect(d) \/ at'[d] = at[d]
  BY DEF Connect
<1> QED BY <1>1, <1>2, <1>3, ClientSteps

\* Every step keeps the book to what was confirmed.
LEMMA PlacedNextInv == PlacedInv /\ [Next]_vars => PlacedInv'
<1> SUFFICES ASSUME PlacedInv, [Next]_vars PROVE PlacedInv'
  OBVIOUS
<1>1. /\ AnswersInv /\ Typed /\ PlacesOrders /\ \A b \in Copies : FewPlaced(b)
      /\ \A c \in Clients : ThreadInv(c)
  BY DEF PlacedInv, AnswersInv
<1>2. AnswersInv' /\ PlacesOrders'
  BY <1>1, AnswersNextInv, OrdersArePlaced
<1>3. Copies \subseteq Seq(Clients)
  BY <1>1 DEF Copies, Placing, Typed
<1>4. ASSUME NEW b \in Copies' PROVE FewPlaced(b)'
  <2> SUFFICES ASSUME NEW d \in Clients
               PROVE  Times(d, b) <= Limit(d)' /\ (NotAccepted(d)' => Times(d, b) = 0)
    BY DEF FewPlaced
  <2>1. /\ Limit(d)' \in Nat /\ Limit(d) \in Nat
        /\ Limit(d) <= Limit(d)' \/ NotAccepted(d)
        /\ NotAccepted(d)' => NotAccepted(d)
        /\ Adds(d) => Limit(d)' = Limit(d) + 1
    BY <1>1, LimitsGrow, LimitType
  <2>2. CASE b \in Copies
    <3>1. /\ Times(d, b) \in Nat /\ Times(d, b) <= Limit(d)
          /\ NotAccepted(d) => Times(d, b) = 0
      BY <1>1, <1>3, <2>2, TimesType DEF FewPlaced
    <3> HIDE DEF Times, Limit, NotAccepted
    <3> QED BY <2>1, <3>1
  <2>3. ASSUME NEW c \in Placing, Adds(c), b = Append(loaded[c], c)
        PROVE  Times(d, b) <= Limit(d)' /\ (NotAccepted(d)' => Times(d, b) = 0)
    <3>1. c \in Clients /\ loaded[c] \in Copies /\ loaded[c] \in Seq(Clients) /\ at[c] = "place"
      BY <1>3 DEF Placing, Copies
    <3>2. Times(d, b) = Times(d, loaded[c]) + (IF d = c THEN 1 ELSE 0)
      BY <2>3, <3>1, TimesAppend
    <3>3. /\ Times(d, loaded[c]) \in Nat /\ Times(d, loaded[c]) <= Limit(d)
          /\ NotAccepted(d) => Times(d, loaded[c]) = 0
      BY <1>1, <3>1, TimesType DEF FewPlaced
    <3>4. ~NotAccepted(c)
      BY <1>1, <3>1 DEF ThreadInv, StartsAfterAccept
    <3> HIDE DEF Times, Limit, NotAccepted
    <3>5. CASE d = c
      BY <2>1, <2>3, <3>2, <3>3, <3>4, <3>5
    <3>6. CASE d # c
      BY <2>1, <3>2, <3>3, <3>6
    <3> QED BY <3>5, <3>6
  <2> QED BY <1>1, <2>2, <2>3, CopiesGrow
<1> QED BY <1>2, <1>4 DEF PlacedInv

\* The book is empty at first.
LEMMA PlacedInitInv == Init => PlacedInv
<1> SUFFICES ASSUME Init PROVE PlacedInv
  OBVIOUS
<1>1. AnswersInv /\ Typed
  BY AnswersInitInv DEF AnswersInv
<1>2. Placing = {} /\ book = <<>>
  BY DEF Init, Placing
<1>3. \A c \in Clients : Times(c, <<>>) = 0 /\ Limit(c) \in Nat
  BY <1>1, TimesEmpty, LimitType
<1>4. FewPlaced(<<>>)
  BY <1>3 DEF FewPlaced
<1> QED BY <1>1, <1>2, <1>4 DEF PlacedInv, PlacesOrders, Copies

\* So nothing is placed that is not confirmed, whoever trades.
LEMMA PlacedInvariant == Spec => []PlacedInv
BY PlacedInitInv, PlacedNextInv, PTL DEF Spec

\* However many clients trade, and whatever orders they lose to each other: the book
\* never holds more orders of a client than were confirmed to it, but for the last,
\* whose answer is under way or whose thread has ended; so none that was answered with
\* an error, none that AddOrder refused, and none twice (the half of
\* ValidOrdersArePlaced that needs no lock; server.cpp:60-74).
NothingElseIsPlaced ==
  \A c \in Clients :
    Unconfirmed(c) <= IF at[c] = "none" \/ (at[c] = "write" /\ line[c] = "order") THEN 1 ELSE 0

\* The threads' race may lose orders, never make them (server.cpp:63-75).
THEOREM NothingElseIsPlacedByRacingThreads == Spec => []NothingElseIsPlaced
<1>1. PlacedInv => NothingElseIsPlaced
  <2> SUFFICES ASSUME PlacedInv, NEW c \in Clients
               PROVE  Unconfirmed(c) <= IF at[c] = "none" \/ Confirming(c) THEN 1 ELSE 0
    BY DEF NothingElseIsPlaced, Confirming
  <2>1. Typed /\ book \in Copies /\ FewPlaced(book)
    BY DEF PlacedInv, AnswersInv, Copies
  <2>2. Confirmed(c) \in Nat /\ Times(c, book) \in Nat
    BY <2>1, LimitType, TimesType DEF Typed
  <2>3. Times(c, book) <= Limit(c)
    BY <2>1 DEF FewPlaced
  <2>4. Unconfirmed(c) = Times(c, book) - Confirmed(c)
    BY DEF Unconfirmed, Confirmed
  <2> HIDE DEF Times, Confirmed
  <2> QED BY <2>2, <2>3, <2>4 DEF Limit
<1> QED BY <1>1, PlacedInvariant, PTL

-----------------------------------------------------------------------------
(* With one trader, every confirmed order is in the book *)

\* Orders come from traders: a client sends them, its thread reads them.
LEMMA TradersKeep ==
  ASSUME Typed, TradersOrder, [Next]_vars
  PROVE  TradersOrder'
<1> USE DEF Typed
<1> SUFFICES ASSUME NEW d \in Clients
             PROVE  /\ \A i \in 1 .. Len(inbox'[d]) : inbox'[d][i] \in Orders => d \in Traders
                    /\ line'[d] \in Orders => d \in Traders
  BY DEF TradersOrder
<1>1. /\ \A i \in 1 .. Len(inbox[d]) : inbox[d][i] \in Orders => d \in Traders
      /\ line[d] \in Orders => d \in Traders
      /\ inbox[d] \in Seq(Kinds)
  BY DEF TradersOrder
<1>2. CASE inbox'[d] = inbox[d] /\ line'[d] = line[d]
  BY <1>1, <1>2
<1>3. ASSUME NEW k \in Kinds, Request(d, k)
      PROVE  /\ \A i \in 1 .. Len(inbox'[d]) : inbox'[d][i] \in Orders => d \in Traders
             /\ line'[d] \in Orders => d \in Traders
  <2>1. inbox'[d] = Append(inbox[d], k) /\ line'[d] = line[d] /\ (k \in Orders => d \in Traders)
    BY <1>3 DEF Request
  <2>2. /\ Len(inbox'[d]) = Len(inbox[d]) + 1 /\ inbox'[d][Len(inbox[d]) + 1] = k
        /\ \A i \in 1 .. Len(inbox[d]) : inbox'[d][i] = inbox[d][i]
    BY <1>1, <2>1, AppendProperties
  <2>3. Len(inbox[d]) \in Nat
    BY <1>1, LenProperties
  <2>4. ASSUME NEW i \in 1 .. Len(inbox'[d])
        PROVE  i = Len(inbox[d]) + 1 \/ i \in 1 .. Len(inbox[d])
    BY <2>2, <2>3
  <2> QED BY <1>1, <2>1, <2>2, <2>4
<1>4. CASE ReadLine(d)
  <2>1. inbox'[d] = Tail(inbox[d]) /\ line'[d] = Head(inbox[d]) /\ inbox[d] # <<>>
    BY <1>4 DEF ReadLine
  <2>2. /\ Len(inbox'[d]) = Len(inbox[d]) - 1
        /\ \A i \in 1 .. Len(inbox'[d]) : inbox'[d][i] = inbox[d][i + 1]
    BY <1>1, <2>1, HeadTailProperties
  <2>3. Len(inbox[d]) \in Nat \ {0} /\ Head(inbox[d]) = inbox[d][1]
    BY <1>1, <2>1, EmptySeq
  <2>4. \A i \in 1 .. Len(inbox'[d]) : i + 1 \in 1 .. Len(inbox[d])
    BY <2>2, <2>3
  <2>5. 1 \in 1 .. Len(inbox[d])
    BY <2>3
  <2> QED BY <1>1, <2>1, <2>2, <2>3, <2>4, <2>5
<1>5. \/ inbox'[d] = inbox[d] /\ line'[d] = line[d]
      \/ \E k \in Kinds : Request(d, k)
      \/ ReadLine(d)
  <2>1. CASE AcceptFails \/ UNCHANGED vars
    BY <2>1 DEF AcceptFails, vars, clientVars
  <2>2. ASSUME NEW c \in Clients, c # d,
               (\E k \in Kinds : Request(c, k)) \/ ReadLine(c)
        PROVE  inbox'[d] = inbox[d] /\ line'[d] = line[d]
    BY <2>2 DEF Request, ReadLine
  <2>3. ASSUME NEW c \in Clients,
               \/ Connect(c) \/ HangUp(c) \/ Accept(c) \/ ThreadFails(c) \/ KeyMissing(c)
               \/ ReadEnd(c) \/ Process(c) \/ Place(c) \/ Write(c) \/ WriteFails(c)
        PROVE  inbox'[d] = inbox[d] /\ line'[d] = line[d]
    BY <2>3 DEF Connect, HangUp, Accept, ThreadFails, KeyMissing, ProcessEnds, ReadEnd, Process,
                Place, Write, WriteFails, clientVars
  <2> QED BY <2>1, <2>2, <2>3 DEF Next, HandleClient
<1> QED BY <1>2, <1>3, <1>4, <1>5

\* A confirmation becomes due when AddOrder has ended, and only then (server.cpp:71-74).
LEMMA OwedGrows ==
  ASSUME Typed, \A c \in Clients : ThreadInv(c), [Next]_vars, NEW d \in Clients
  PROVE  /\ Owed(d) \in Nat /\ Owed(d)' \in Nat
         /\ ~Adds(d) => Owed(d)' <= Owed(d)
         /\ Owed(d)' <= Owed(d) + 1
<1>1. Confirmed(d) \in Nat /\ Owed(d) \in Nat /\ Confirmed(d) <= Owed(d)
  <2>1. Confirmed(d) \in Nat
    BY LimitType
  <2> QED BY <2>1 DEF Owed
<1>2. CASE /\ at'[d] = at[d] /\ line'[d] = line[d] /\ answers'[d] = answers[d]
  <2>1. Owed(d)' = Owed(d)
    BY <1>2 DEF Owed, Confirmed, Confirming
  <2> QED BY <1>1, <2>1
<1>3. CASE at'[d] \in {"none", "read", "process", "place"} /\ answers'[d] = answers[d]
  <2>1. Owed(d)' = Confirmed(d)
    BY <1>1, <1>3 DEF Owed, Confirmed, Confirming
  <2> QED BY <1>1, <2>1
<1>4. CASE Process(d) /\ at'[d] = "write" /\ UNCHANGED <<conn[d], line[d], answers[d]>>
  <2>1. line'[d] # "order"
    BY <1>4 DEF Process, Goto, Typed, Valid
  <2>2. Owed(d)' = Confirmed(d)
    BY <1>1, <1>4, <2>1 DEF Owed, Confirmed, Confirming
  <2> QED BY <1>1, <2>2
<1>5. CASE Place(d) /\ UNCHANGED <<conn[d], line[d], answers[d]>>
  <2>1. Owed(d)' \in {Confirmed(d), Confirmed(d) + 1}
    BY <1>1, <1>5 DEF Owed, Confirmed
  <2>2. line[d] # "order" => Owed(d)' = Confirmed(d)
    BY <1>1, <1>5 DEF Owed, Confirmed, Confirming
  <2> QED BY <1>1, <1>5, <2>1, <2>2 DEF Adds
<1>6. CASE /\ Write(d) /\ at'[d] = "read" /\ UNCHANGED <<conn[d], line[d]>>
           /\ answers'[d] = Append(answers[d], line[d])
  <2>1. at[d] = "write" /\ line[d] \in Answered /\ answers[d] \in Seq(Answered)
    BY <1>6 DEF Write, ThreadInv, HasAnswered, Typed
  <2>2. Times("order", answers'[d]) = Confirmed(d) + (IF "order" = line[d] THEN 1 ELSE 0)
    BY <1>6, <2>1, TimesAppend DEF Confirmed
  <2>3. Owed(d)' = Times("order", answers'[d])
    BY <1>1, <1>6, <2>2 DEF Owed, Confirmed, Confirming
  <2>4. Owed(d) = Confirmed(d) + (IF "order" = line[d] THEN 1 ELSE 0)
    BY <2>1 DEF Owed, Confirming
  <2> QED BY <1>1, <2>2, <2>3, <2>4
<1> QED BY <1>2, <1>3, <1>4, <1>5, <1>6, ClientSteps

\* Every step of one trader and any other clients keeps every confirmed order.
LEMMA TradeNextInv == OneTrader /\ TradeInv /\ [Next]_vars => TradeInv'
<1> SUFFICES ASSUME OneTrader, TradeInv, [Next]_vars PROVE TradeInv'
  OBVIOUS
<1>1. /\ PlacedInv /\ Typed /\ TradersOrder /\ NothingIsLost /\ PlacesOrders
      /\ \A c \in Clients : ThreadInv(c)
  BY DEF TradeInv, PlacedInv, AnswersInv
<1>2. PlacedInv' /\ TradersOrder'
  BY <1>1, PlacedNextInv, TradersKeep
<1>3. \A c, d \in Placing : c = d
  BY <1>1 DEF PlacesOrders, TradersOrder, OneTrader, Placing, Orders
<1>4. \A d \in Clients : /\ Owed(d) \in Nat /\ Owed(d)' \in Nat
                         /\ ~Adds(d) => Owed(d)' <= Owed(d)
                         /\ Owed(d)' <= Owed(d) + 1
  BY <1>1, OwedGrows
<1>5. \A d \in Clients : Times(d, book) \in Nat /\ Owed(d) <= Times(d, book)
  BY <1>1, TimesType DEF Typed, NothingIsLost
<1>6. CASE ~ \E c \in Clients : Place(c)
  <2>1. /\ book' = book
        /\ \A d \in Clients : at'[d] = "place" =>
             loaded'[d] = book \/ (at[d] = "place" /\ loaded'[d] = loaded[d])
    BY <1>1, <1>6, BookSteps
  <2>2. \A d \in Placing' : loaded'[d] = book'
    BY <1>1, <2>1 DEF Placing, NothingIsLost
  <2>3. \A d \in Clients : Owed(d)' <= Times(d, book')
    <3> SUFFICES ASSUME NEW d \in Clients PROVE Owed(d)' <= Times(d, book')
      OBVIOUS
    <3>1. ~Adds(d) /\ Times(d, book') = Times(d, book)
      BY <1>6, <2>1 DEF Adds
    <3> HIDE DEF Owed, Times
    <3> QED BY <1>4, <1>5, <3>1
  <2> QED BY <1>2, <2>2, <2>3 DEF TradeInv, NothingIsLost
<1>7. ASSUME NEW c \in Clients, Place(c) PROVE TradeInv'
  <2>1. /\ c \in Placing
        /\ book' = IF line[c] = "empty_order" THEN loaded[c] ELSE Append(loaded[c], c)
        /\ \A d \in Clients : at'[d] = "place" => d # c /\ d \in Placing
    BY <1>1, <1>7, PlaceEffect
  <2>2. Placing' = {}
    BY <1>3, <2>1 DEF Placing
  <2>3. loaded[c] = book /\ book \in Seq(Clients) /\ line[c] \in Valid
    BY <1>1, <2>1 DEF NothingIsLost, Typed, PlacesOrders
  <2>4. \A d \in Clients : Adds(d) => d = c
    BY <1>1, <1>3, <2>1, PlaceEffect DEF Adds
  <2>5. ASSUME NEW d \in Clients PROVE Owed(d)' <= Times(d, book')
    <3>1. CASE line[c] = "empty_order"
      <4>1. ~Adds(d) /\ Times(d, book') = Times(d, book)
        BY <2>1, <2>3, <2>4, <3>1 DEF Adds
      <4> HIDE DEF Owed, Times
      <4> QED BY <1>4, <1>5, <4>1
    <3>2. CASE line[c] = "order"
      <4>1. Times(d, book') = Times(d, book) + (IF d = c THEN 1 ELSE 0)
        BY <2>1, <2>3, <3>2, TimesAppend
      <4> HIDE DEF Owed, Times
      <4> QED BY <1>4, <1>5, <2>4, <4>1
    <3> QED BY <2>3, <3>1, <3>2 DEF Valid
  <2> QED BY <1>2, <2>2, <2>5 DEF TradeInv, NothingIsLost
<1> QED BY <1>6, <1>7

\* At first no order was read, and none is owed.
LEMMA TradeInitInv == Init => TradeInv
<1> SUFFICES ASSUME Init PROVE TradeInv
  OBVIOUS
<1>1. PlacedInv /\ Placing = {} /\ book = <<>>
  BY PlacedInitInv DEF Init, Placing
<1>2. \A c \in Clients : /\ Times("order", answers[c]) = 0 /\ Times(c, book) = 0
                         /\ at[c] = "none" /\ line[c] = "blank" /\ Len(inbox[c]) = 0
  BY <1>1, TimesEmpty DEF Init
<1>3. \A c \in Clients : Owed(c) = 0
  BY <1>2 DEF Owed, Confirmed, Confirming
<1> QED BY <1>1, <1>2, <1>3 DEF TradeInv, TradersOrder, NothingIsLost, Orders, Valid

\* The orders of some quantity that the one trader has confirmed are in the book, each
\* once, and nothing else of its but the last one, whatever the other clients do:
\* neither an order answered with an error nor one that AddOrder refused, which is
\* confirmed all the same (ValidOrdersArePlaced; server.cpp:60-74,
\* OrderBook.hpp:84-86).  With two traders, their threads may lose each other's orders.
THEOREM OneTradersOrdersArePlaced == ASSUME OneTrader PROVE Spec => []ValidOrdersArePlaced
<1>1. TradeInv => ValidOrdersArePlaced
  <2> SUFFICES ASSUME TradeInv, NEW c \in Clients
               PROVE  /\ Unconfirmed(c) \in {0, 1}
                      /\ at[c] # "none" => (Unconfirmed(c) = 1 <=> Confirming(c))
    BY DEF ValidOrdersArePlaced, Confirming
  <2>1. Typed /\ FewPlaced(book) /\ NothingIsLost
    BY DEF TradeInv, PlacedInv, AnswersInv, Copies
  <2>2. Confirmed(c) \in Nat /\ Times(c, book) \in Nat
    BY <2>1, LimitType, TimesType DEF Typed
  <2>3. Times(c, book) <= Limit(c) /\ Owed(c) <= Times(c, book)
    BY <2>1 DEF FewPlaced, NothingIsLost
  <2>4. Unconfirmed(c) = Times(c, book) - Confirmed(c)
    BY DEF Unconfirmed, Confirmed
  <2> HIDE DEF Times, Confirmed, Unconfirmed
  <2>5. CASE Confirming(c)
    BY <2>2, <2>3, <2>4, <2>5 DEF Limit, Owed
  <2>6. CASE ~Confirming(c)
    BY <2>2, <2>3, <2>4, <2>6 DEF Limit, Owed
  <2> QED BY <2>5, <2>6
<1>2. Init /\ [][Next]_vars => []TradeInv
  BY TradeInitInv, TradeNextInv, PTL
<1> QED BY <1>1, <1>2, PTL DEF Spec

=============================================================================
