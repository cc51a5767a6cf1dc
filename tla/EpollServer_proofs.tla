------------------------- MODULE EpollServer_proofs -------------------------
(****************************************************************************)
(* Theorems about EpollServer, for any clients, descriptors and order of    *)
(* events.                                                                  *)
(****************************************************************************)
EXTENDS EpollServer, SequenceTheorems, FiniteSetTheorems, NaturalsInduction, TLAPS

Fds == Conns \cup {Listen}

-----------------------------------------------------------------------------
(* The ready list *)

\* A descriptor is listed when it is somewhere in the list.
LEMMA ListedAt ==
  ASSUME NEW q \in Seq(Fds), NEW fd
  PROVE  Listed(q, fd) <=> \E i \in 1 .. Len(q) : q[i] = fd
BY LenProperties DEF Listed, ToSet

\* A list behind another one.
LEMMA ListedConcat ==
  ASSUME NEW q \in Seq(Fds), NEW r \in Seq(Fds), NEW fd
  PROVE  Listed(q \o r, fd) <=> Listed(q, fd) \/ Listed(r, fd)
<1>1. /\ q \o r \in Seq(Fds) /\ Len(q) \in Nat /\ Len(r) \in Nat
      /\ Len(q \o r) = Len(q) + Len(r)
      /\ \A i \in 1 .. Len(q) + Len(r) :
           (q \o r)[i] = IF i <= Len(q) THEN q[i] ELSE r[i - Len(q)]
  BY ConcatProperties, LenProperties
<1>2. ASSUME Listed(q, fd) PROVE Listed(q \o r, fd)
  <2>1. PICK i \in 1 .. Len(q) : q[i] = fd
    BY <1>2, ListedAt
  <2>2. i \in 1 .. Len(q \o r) /\ (q \o r)[i] = fd
    BY <1>1, <2>1
  <2> QED BY <1>1, <2>2, ListedAt
<1>3. ASSUME Listed(r, fd) PROVE Listed(q \o r, fd)
  <2>1. PICK i \in 1 .. Len(r) : r[i] = fd
    BY <1>3, ListedAt
  <2>2. Len(q) + i \in 1 .. Len(q \o r) /\ (q \o r)[Len(q) + i] = fd
    BY <1>1, <2>1
  <2> QED BY <1>1, <2>2, ListedAt
<1>4. ASSUME Listed(q \o r, fd) PROVE Listed(q, fd) \/ Listed(r, fd)
  <2>1. PICK i \in 1 .. Len(q \o r) : (q \o r)[i] = fd
    BY <1>1, <1>4, ListedAt
  <2>2. CASE i <= Len(q)
    BY <1>1, <2>1, <2>2, ListedAt
  <2>3. CASE ~(i <= Len(q))
    <3>1. i - Len(q) \in 1 .. Len(r) /\ r[i - Len(q)] = fd
      BY <1>1, <2>1, <2>3
    <3> QED BY <3>1, ListedAt
  <2> QED BY <2>2, <2>3
<1> QED BY <1>2, <1>3, <1>4

\* A descriptor put at the end of a list is in it, with those that were.
LEMMA ListedAppend ==
  ASSUME NEW q \in Seq(Fds), NEW e \in Fds
  PROVE  /\ Append(q, e) \in Seq(Fds) /\ Listed(Append(q, e), e)
         /\ \A fd : Listed(q, fd) => Listed(Append(q, e), fd)
<1>1. /\ Append(q, e) \in Seq(Fds) /\ Len(q) \in Nat
      /\ Len(Append(q, e)) = Len(q) + 1 /\ Append(q, e)[Len(q) + 1] = e
      /\ \A i \in 1 .. Len(q) : Append(q, e)[i] = q[i]
  BY AppendProperties, LenProperties
<1>2. Listed(Append(q, e), e)
  <2>1. Len(q) + 1 \in 1 .. Len(Append(q, e))
    BY <1>1
  <2> QED BY <1>1, <2>1, ListedAt
<1>3. ASSUME NEW fd, Listed(q, fd) PROVE Listed(Append(q, e), fd)
  <2>1. PICK i \in 1 .. Len(q) : q[i] = fd
    BY <1>3, ListedAt
  <2>2. i \in 1 .. Len(Append(q, e)) /\ Append(q, e)[i] = fd
    BY <1>1, <2>1
  <2> QED BY <1>1, <2>2, ListedAt
<1> QED BY <1>1, <1>2, <1>3

\* What was listed is the head of the list or in its tail.
LEMMA ListedTail ==
  ASSUME NEW q \in Seq(Fds), q # <<>>
  PROVE  /\ Tail(q) \in Seq(Fds) /\ Head(q) \in Fds
         /\ \A fd : Listed(q, fd) => fd = Head(q) \/ Listed(Tail(q), fd)
<1>1. /\ Tail(q) \in Seq(Fds) /\ Head(q) \in Fds /\ Len(q) \in Nat
      /\ Head(q) = q[1] /\ Len(Tail(q)) = Len(q) - 1
      /\ \A i \in 1 .. Len(q) - 1 : Tail(q)[i] = q[i + 1]
  BY HeadTailProperties, LenProperties
<1>2. ASSUME NEW fd, Listed(q, fd), fd # Head(q) PROVE Listed(Tail(q), fd)
  <2>1. PICK i \in 1 .. Len(q) : q[i] = fd
    BY <1>2, ListedAt
  <2>2. i - 1 \in 1 .. Len(Tail(q)) /\ Tail(q)[i - 1] = fd
    <3>1. i # 1
      BY <1>1, <1>2, <2>1
    <3>2. i - 1 \in 1 .. Len(q) - 1 /\ (i - 1) + 1 = i
      BY <1>1, <3>1
    <3> QED BY <1>1, <2>1, <3>2
  <2> QED BY <1>1, <2>2, ListedAt
<1> QED BY <1>1, <1>2

\* A set of positions that is not empty has a first.
LEMMA FirstPosition ==
  ASSUME NEW A \in SUBSET Nat, A # {}
  PROVE  Min(A) \in A
<1> DEFINE R == OpToRel(<, Nat)
<1>1. \A k, m \in Nat : <<k, m>> \in R <=> k < m
  BY DEF OpToRel
<1>2. IsWellFoundedOn(R, Nat)
  BY NatLessThanWellFounded
<1> HIDE DEF R
<1>3. PICK m \in A : \A k \in A : ~(<<k, m>> \in R)
  BY <1>2, WFMin
<1>4. \A k \in A : m <= k
  <2> SUFFICES ASSUME NEW k \in A PROVE m <= k
    OBVIOUS
  <2>1. k \in Nat /\ m \in Nat /\ ~(k < m)
    BY <1>1, <1>3
  <2> QED BY <2>1
<1> QED BY <1>3, <1>4 DEF Min

\* A descriptor that is closed leaves the list, and no other does.
LEMMA ListedRemoveFirst ==
  ASSUME NEW q \in Seq(Fds), NEW e
  PROVE  /\ RemoveFirst(q, e) \in Seq(Fds)
         /\ \A fd : fd # e /\ Listed(q, fd) => Listed(RemoveFirst(q, e), fd)
<1> DEFINE I == {i \in 1 .. Len(q) : q[i] = e}
           k == Min(I)
           before == SubSeq(q, 1, k - 1)
           after == SubSeq(q, k + 1, Len(q))
<1>1. Len(q) \in Nat
  BY LenProperties
<1>2. CASE ~ \E i \in 1 .. Len(q) : q[i] = e
  BY <1>2 DEF RemoveFirst
<1>3. CASE \E i \in 1 .. Len(q) : q[i] = e
  <2>1. RemoveFirst(q, e) = before \o after
    BY <1>3 DEF RemoveFirst, RemoveAt, SelectInSeq
  <2>2. k \in I
    <3>1. I # {} /\ I \subseteq Nat
      BY <1>3
    <3> HIDE DEF I
    <3> QED BY <3>1, FirstPosition
  <2>3. k \in 1 .. Len(q) /\ q[k] = e
    BY <2>2
  <2> HIDE DEF k
  <2>4. /\ before \in Seq(Fds) /\ Len(before) = k - 1
        /\ \A i \in 1 .. k - 1 : before[i] = q[i]
    BY <1>1, <2>3, SubSeqProperties, ElementOfSeq
  <2>5. /\ after \in Seq(Fds) /\ Len(after) = Len(q) - k
        /\ \A i \in 1 .. Len(q) - k : after[i] = q[k + i]
    BY <1>1, <2>3, SubSeqProperties, ElementOfSeq
  <2>6. ASSUME NEW fd, fd # e, Listed(q, fd) PROVE Listed(before, fd) \/ Listed(after, fd)
    <3>1. PICK i \in 1 .. Len(q) : q[i] = fd
      BY <2>6, ListedAt
    <3> HIDE DEF before, after
    <3>2. CASE i < k
      <4>1. i \in 1 .. Len(before) /\ before[i] = fd
        BY <1>1, <2>3, <2>4, <3>1, <3>2
      <4> QED BY <2>4, <4>1, ListedAt
    <3>3. CASE ~(i < k)
      <4>1. i # k
        BY <2>3, <2>6, <3>1
      <4>2. i - k \in 1 .. Len(q) - k /\ k + (i - k) = i
        BY <1>1, <2>3, <3>3, <4>1
      <4>3. i - k \in 1 .. Len(after) /\ after[i - k] = fd
        BY <2>5, <3>1, <4>2
      <4> QED BY <2>5, <4>3, ListedAt
    <3> QED BY <3>2, <3>3
  <2> HIDE DEF before, after
  <2> QED BY <2>1, <2>4, <2>5, <2>6, ListedConcat, ConcatProperties
<1> QED BY <1>2, <1>3

\* epoll_wait drops nothing that has something to report: it is returned, or still
\* in the list.
LEMMA WaitReportsAll ==
  ASSUME ready \in Seq(Fds), MaxEvents \in Nat \ {0}, EpollWait
  PROVE  /\ ready' \in Seq(Fds) /\ events' \in Seq(Fds)
         /\ \A fd : Listed(ready, fd) /\ HasEvent(fd) => Listed(events', fd) \/ Listed(ready', fd)
<1> DEFINE n == Min({MaxEvents, Len(ready)})
           K == {k \in 1 .. n : HasEvent(ready[k])}
<1>1. Len(ready) \in Nat /\ n \in Nat /\ n <= Len(ready)
  <2>1. Len(ready) \in Nat
    BY LenProperties
  <2>2. \E m \in {MaxEvents, Len(ready)} : \A y \in {MaxEvents, Len(ready)} : m <= y
    <3>1. MaxEvents <= Len(ready) \/ Len(ready) <= MaxEvents
      BY <2>1
    <3>2. MaxEvents <= MaxEvents /\ Len(ready) <= Len(ready)
      BY <2>1
    <3> QED BY <3>1, <3>2
  <2>3. n \in {MaxEvents, Len(ready)} /\ \A y \in {MaxEvents, Len(ready)} : n <= y
    BY <2>2 DEF Min
  <2> HIDE DEF n
  <2> QED BY <2>1, <2>3
<1>2. ready' = SubSeq(ready, n + 1, Len(ready))
  BY DEF EpollWait
<1>3. PICK f \in Ascending(K) : events' = [j \in DOMAIN f |-> ready[f[j]]]
  BY DEF EpollWait
<1>4. Cardinality(K) \in Nat /\ f \in [1 .. Cardinality(K) -> K]
  <2>1. IsFiniteSet(K)
    <3>1. IsFiniteSet(1 .. n)
      BY <1>1, FS_Interval
    <3> QED BY <3>1, FS_Subset
  <2> HIDE DEF K
  <2> QED BY <2>1, FS_CardinalityType DEF Ascending
<1> HIDE DEF n
<1>5. \A k \in K : k \in 1 .. Len(ready) /\ ready[k] \in Fds
  <2> SUFFICES ASSUME NEW k \in K PROVE k \in 1 .. Len(ready) /\ ready[k] \in Fds
    OBVIOUS
  <2>1. k \in 1 .. Len(ready)
    BY <1>1
  <2> QED BY <2>1, ElementOfSeq
<1> DEFINE N == Cardinality(K)
<1>6. events' = [j \in 1 .. N |-> ready[f[j]]] /\ \A j \in 1 .. N : f[j] \in K
  BY <1>3, <1>4
<1>7. events' \in Seq(Fds) /\ Len(events') = N
  <2>1. events' \in [1 .. N -> Fds]
    <3> HIDE DEF K
    <3> QED BY <1>5, <1>6
  <2>2. N \in Nat
    BY <1>4
  <2> HIDE DEF N
  <2> QED BY <2>1, <2>2, SeqDef, LenProperties
<1>8. /\ ready' \in Seq(Fds) /\ Len(ready') = Len(ready) - n
      /\ \A i \in 1 .. Len(ready) - n : ready'[i] = ready[n + i]
  BY <1>1, <1>2, SubSeqProperties, ElementOfSeq
<1>9. ASSUME NEW fd, Listed(ready, fd), HasEvent(fd)
      PROVE  Listed(events', fd) \/ Listed(ready', fd)
  <2>1. PICK k \in 1 .. Len(ready) : ready[k] = fd
    BY <1>9, ListedAt
  <2>2. CASE k <= n
    <3>1. k \in K
      BY <1>1, <1>9, <2>1, <2>2
    <3>2. PICK j \in DOMAIN f : f[j] = k
      BY <3>1 DEF Ascending
    <3>3. j \in 1 .. N
      BY <1>4
    <3>4. events'[j] = fd
      BY <1>6, <2>1, <3>2, <3>3
    <3> HIDE DEF N
    <3> QED BY <1>7, <3>3, <3>4, ListedAt
  <2>3. CASE ~(k <= n)
    <3>1. k - n \in 1 .. Len(ready) - n /\ n + (k - n) = k
      BY <1>1, <2>1, <2>3
    <3>2. ready'[k - n] = fd
      BY <1>8, <2>1, <3>1
    <3> QED BY <1>8, <3>1, <3>2, ListedAt
  <2> QED BY <2>2, <2>3
<1> QED BY <1>7, <1>8, <1>9

\* A wake-up lists its descriptor, if it is watched, and drops no other.
LEMMA WakeLists ==
  ASSUME ready \in Seq(Fds), NEW fd \in Fds, Wake(fd)
  PROVE  /\ ready' \in Seq(Fds)
         /\ \A x : Listed(ready, x) => Listed(ready', x)
         /\ fd \in watched => Listed(ready', fd)
BY ListedAppend DEF Wake

-----------------------------------------------------------------------------
(* No wake-up is lost *)

Lists == ready \in Seq(Fds) /\ events \in Seq(Fds) /\ accepting \in BOOLEAN /\ watched \subseteq Fds

\* The kernel holds no more of a client that is not bursty than one read of
\* handleClientData takes.
Inboxes ==
  /\ conn \in [Conns -> {"none", "queued", "open", "closed"}]
  /\ inbox \in [Conns -> Nat]
  /\ \A c \in Conns \ Bursty : inbox[c] <= ReadSize

\* Until the server listens and watches, there is nobody to serve.
Quiet ==
  phase \notin {"serving", "gone"} =>
    In("open") = {} /\ ~accepting /\ watched = {} /\ ready = <<>> /\ events = <<>>

Watching == phase = "serving" => Listen \in watched /\ In("open") \subseteq watched

\* A descriptor is about to be looked at.
Noted(fd) == Listed(ready, fd) \/ Listed(events, fd)

Awake ==
  phase = "serving" =>
    /\ In("queued") # {} => accepting \/ Noted(Listen)
    /\ \A c \in In("open") \ Bursty : inbox[c] > 0 => Noted(c)

EpollInv == Lists /\ Inboxes /\ Quiet /\ Watching /\ Awake

\* A server that was not started has no clients and no events.
LEMMA InitEpoll == Init => EpollInv
<1> SUFFICES ASSUME Init PROVE EpollInv
  OBVIOUS
<1> USE DEF Init
<1>1. Lists
  <2>1. <<>> \in Seq(Fds)
    OBVIOUS
  <2> QED BY <2>1 DEF Lists
<1>2. Inboxes
  BY EpollServerAssumption DEF Inboxes
<1>3. Quiet /\ Watching /\ Awake
  BY DEF Quiet, Watching, Awake, In
<1> QED BY <1>1, <1>2, <1>3 DEF EpollInv

\* start and the destructor: nobody is connected before the server watches the
\* listening socket, and connections that came before that are noted with it
\* (EpollServer.hpp:25-75).
LEMMA StartKeeps ==
  ASSUME AddFails = FALSE, EpollInv,
         EpollCreate \/ ListenSocket \/ BindAndListen \/ AddListen \/ Destroy
  PROVE  EpollInv'
<1>1. CASE EpollCreate \/ ListenSocket \/ BindAndListen
  <2>1. /\ UNCHANGED noClients
        /\ phase \notin {"serving", "gone"} /\ phase' \notin {"serving", "gone"}
    BY <1>1 DEF EpollCreate, ListenSocket, BindAndListen, noClients
  <2> QED BY <2>1 DEF EpollInv, Lists, Inboxes, Quiet, Watching, Awake, In, noClients
<1>2. CASE AddListen
  <2>1. /\ watched' = {Listen} /\ In("open") = {} /\ ready = <<>> /\ phase' = "serving"
        /\ ready' = IF HasEvent(Listen) THEN Append(ready, Listen) ELSE ready
        /\ UNCHANGED <<conn, inbox, fin, events, accepting, sent>>
    BY <1>2 DEF AddListen, Add, EpollInv, Quiet
  <2>2. ready' \in Seq(Fds) /\ (HasEvent(Listen) => Listed(ready', Listen))
    BY <2>1, ListedAppend DEF EpollInv, Lists, Fds
  <2>3. In("queued") # {} => Listed(ready', Listen)
    BY <2>2 DEF HasEvent
  <2> QED BY <2>1, <2>2, <2>3
          DEF EpollInv, Lists, Inboxes, Quiet, Watching, Awake, In, Noted, Fds
<1>3. CASE Destroy
  <2>1. /\ phase' = "gone" /\ ready' = <<>> /\ watched' = {}
        /\ UNCHANGED <<conn, inbox, fin, events, accepting, sent>>
    BY <1>3 DEF Destroy
  <2> QED BY <2>1 DEF EpollInv, Lists, Inboxes, Quiet, Watching, Awake, In
<1> QED BY <1>1, <1>2, <1>3

\* What clients do wakes the descriptor it happens on.
LEMMA ClientKeeps ==
  ASSUME EpollInv, NEW c \in Conns,
         Connect(c) \/ ShutDown(c) \/ Reset(c) \/ \E n \in 1 .. MaxBytes : Send(c, n)
  PROVE  EpollInv'
<1> USE DEF EpollInv
<1>1. c \in Fds /\ Listen \in Fds /\ c # Listen
  BY EpollServerAssumption DEF Fds
<1>2. CASE Connect(c)
  <2>1. /\ conn[c] = "none" /\ conn' = [conn EXCEPT ![c] = "queued"] /\ Wake(Listen)
        /\ phase \in {"add", "serving"}
        /\ UNCHANGED <<phase, watched, inbox, fin, events, accepting, sent>>
    BY <1>2 DEF Connect, startVars
  <2>2. /\ ready' \in Seq(Fds)
        /\ \A x : Listed(ready, x) => Listed(ready', x)
        /\ Listen \in watched => Listed(ready', Listen)
    BY <1>1, <2>1, WakeLists DEF Lists
  <2>3. In("open")' = In("open")
    BY <2>1 DEF In, Inboxes
  <2>4. Listen \notin watched => ready' = ready
    BY <2>1 DEF Wake
  <2>5. Inboxes'
    BY <2>1 DEF Inboxes
  <2>6. Quiet'
    BY <2>1, <2>3, <2>4 DEF Quiet
  <2>7. Awake'
    BY <2>1, <2>2, <2>3 DEF Awake, Watching, Noted
  <2> QED BY <2>1, <2>2, <2>3, <2>5, <2>6, <2>7 DEF Lists, Watching
<1>3. CASE ShutDown(c) \/ Reset(c) \/ \E n \in 1 .. MaxBytes : Send(c, n)
  <2>1. /\ Wake(c) /\ UNCHANGED <<phase, watched, conn, events, accepting>>
        /\ \A d \in Conns : d # c => inbox'[d] = inbox[d]
        /\ Inboxes'
    <3>1. CASE ShutDown(c)
      BY <1>3, <3>1 DEF ShutDown, startVars, Inboxes
    <3>2. CASE Reset(c)
      <4>1. inbox' = [inbox EXCEPT ![c] = 0] /\ UNCHANGED <<conn, sent>>
        BY <3>2 DEF Reset
      <4>2. Inboxes'
        BY <4>1, EpollServerAssumption DEF Inboxes
      <4> QED BY <3>2, <4>1, <4>2 DEF Reset, startVars, Inboxes
    <3>3. ASSUME NEW n \in 1 .. MaxBytes, Send(c, n)
          PROVE  /\ Wake(c) /\ UNCHANGED <<phase, watched, conn, events, accepting>>
                 /\ \A d \in Conns : d # c => inbox'[d] = inbox[d]
                 /\ Inboxes'
      <4>1. /\ inbox' = [inbox EXCEPT ![c] = @ + n]
            /\ c \in Bursty \/ inbox[c] + n <= ReadSize
            /\ UNCHANGED conn /\ n \in Nat
        BY <3>3, EpollServerAssumption DEF Send
      <4>2. Inboxes'
        BY <4>1 DEF Inboxes
      <4> QED BY <3>3, <4>1, <4>2 DEF Send, startVars, Inboxes
    <3> QED BY <1>3, <3>1, <3>2, <3>3
  <2>2. /\ ready' \in Seq(Fds)
        /\ \A x : Listed(ready, x) => Listed(ready', x)
        /\ c \in watched => Listed(ready', c)
    BY <1>1, <2>1, WakeLists DEF Lists
  <2>3. c \notin watched => ready' = ready
    BY <2>1 DEF Wake
  <2>4. In("open")' = In("open") /\ In("queued")' = In("queued")
    BY <2>1 DEF In
  <2>5. Quiet'
    BY <2>1, <2>3, <2>4 DEF Quiet
  <2>6. Awake'
    BY <2>1, <2>2, <2>4 DEF Awake, Watching, Noted, In
  <2> QED BY <2>1, <2>2, <2>4, <2>5, <2>6 DEF Lists, Watching
<1> QED BY <1>2, <1>3

\* epoll_wait and the accept loop.  Accepting ends when nobody is queued any more,
\* and what an accepted client sent before is noted as it is registered
\* (EpollServer.hpp:77-101,125-153).
LEMMA AcceptKeeps ==
  ASSUME AddFails = FALSE, EpollInv,
         EpollWait \/ HandleNewConnection \/ AcceptNoMore \/ \E c \in Conns : Accept(c)
  PROVE  EpollInv'
<1> USE DEF EpollInv
<1>1. Listen \notin Conns /\ Listen \in Fds
  BY EpollServerAssumption DEF Fds
<1>2. CASE EpollWait
  <2>1. /\ phase = "serving" /\ events = <<>> /\ ~accepting
        /\ UNCHANGED <<phase, watched, conn, inbox, fin, accepting, sent>>
    BY <1>2 DEF EpollWait, startVars
  <2>2. /\ ready' \in Seq(Fds) /\ events' \in Seq(Fds)
        /\ \A fd : Listed(ready, fd) /\ HasEvent(fd) => Listed(events', fd) \/ Listed(ready', fd)
    BY <1>2, EpollServerAssumption, WaitReportsAll DEF Lists
  <2>3. \A fd : ~Listed(events, fd)
    BY <2>1 DEF Listed, ToSet
  <2>4. In("queued") # {} => Noted(Listen)'
    BY <2>1, <2>2, <2>3 DEF Awake, Noted, HasEvent
  <2>5. ASSUME NEW c \in In("open") \ Bursty, inbox[c] > 0 PROVE Noted(c)'
    <3>1. HasEvent(c) /\ Noted(c)
      BY <1>1, <2>1, <2>5 DEF Awake, HasEvent, In
    <3> QED BY <2>2, <2>3, <3>1 DEF Noted
  <2>6. In("open")' = In("open") /\ In("queued")' = In("queued")
    BY <2>1 DEF In
  <2>7. Awake'
    BY <2>1, <2>4, <2>5, <2>6 DEF Awake
  <2> QED BY <2>1, <2>2, <2>6, <2>7 DEF Lists, Inboxes, Quiet, Watching
<1>3. CASE HandleNewConnection
  <2>1. /\ events # <<>> /\ Head(events) = Listen /\ accepting' = TRUE
        /\ events' = Tail(events)
        /\ UNCHANGED <<phase, watched, conn, inbox, fin, ready, sent>>
    BY <1>3 DEF HandleNewConnection, startVars
  <2>2. /\ events' \in Seq(Fds)
        /\ \A fd : Listed(events, fd) => fd = Listen \/ Listed(events', fd)
    BY <2>1, ListedTail DEF Lists
  <2>3. In("open")' = In("open") /\ In("open") \subseteq Conns
    BY <2>1 DEF In
  <2>4. Awake'
    BY <1>1, <2>1, <2>2, <2>3 DEF Awake, Noted
  <2>5. Quiet'
    BY <2>1 DEF Quiet
  <2> QED BY <2>1, <2>2, <2>3, <2>4, <2>5 DEF Lists, Inboxes, Watching
<1>4. CASE AcceptNoMore
  <2>1. /\ accepting' = FALSE /\ In("queued") = {}
        /\ UNCHANGED <<phase, watched, conn, inbox, fin, ready, events, sent>>
    BY <1>4 DEF AcceptNoMore, startVars
  <2>2. In("open")' = In("open") /\ In("queued")' = In("queued")
    BY <2>1 DEF In
  <2> QED BY <2>1, <2>2 DEF Lists, Inboxes, Quiet, Watching, Awake, Noted
<1>5. ASSUME NEW c \in Conns, Accept(c) PROVE EpollInv'
  <2>1. /\ accepting /\ conn' = [conn EXCEPT ![c] = "open"]
        /\ watched' = watched \cup {c}
        /\ ready' = IF HasEvent(c) THEN Append(ready, c) ELSE ready
        /\ UNCHANGED <<phase, inbox, fin, events, accepting, sent>>
    BY <1>5 DEF Accept, Add, startVars
  <2>2. c \in Fds /\ c # Listen
    BY <1>1 DEF Fds
  <2>3. /\ ready' \in Seq(Fds)
        /\ \A x : Listed(ready, x) => Listed(ready', x)
        /\ inbox[c] > 0 => Listed(ready', c)
    BY <2>1, <2>2, ListedAppend DEF Lists, HasEvent
  <2>4. In("open")' \subseteq In("open") \cup {c}
    BY <2>1 DEF In, Inboxes
  <2>5. Awake'
    <3>1. \A x : Noted(x) => Noted(x)'
      BY <2>1, <2>3 DEF Noted
    <3> QED BY <2>1, <2>3, <2>4, <3>1 DEF Awake, Noted
  <2>6. Quiet'
    BY <2>1 DEF Quiet
  <2>7. Inboxes'
    BY <2>1 DEF Inboxes
  <2> QED BY <2>1, <2>2, <2>3, <2>4, <2>5, <2>6, <2>7 DEF Lists, Watching
<1> QED BY <1>2, <1>3, <1>4, <1>5

\* handleClientData reads all that a client holds that is not bursty, so that
\* nothing is left for which no event would come (EpollServer.hpp:155-170).
LEMMA HandleKeeps ==
  ASSUME EpollInv, NEW c \in Conns, HandleClientData(c)
  PROVE  EpollInv'
<1> USE DEF EpollInv
<1> DEFINE n == Min({inbox[c], ReadSize})
           over == inbox[c] = 0 /\ fin[c] # "no"
<1>1. c \in Fds /\ c # Listen
  BY EpollServerAssumption DEF Fds
<1>2. n \in Nat /\ n <= inbox[c] /\ inbox[c] \in Nat /\ (c \notin Bursty => n = inbox[c])
  <2>1. inbox[c] \in Nat /\ ReadSize \in Nat /\ (c \notin Bursty => inbox[c] <= ReadSize)
    BY EpollServerAssumption DEF Inboxes
  <2>2. \E m \in {inbox[c], ReadSize} : \A y \in {inbox[c], ReadSize} : m <= y
    <3>1. inbox[c] <= ReadSize \/ ReadSize <= inbox[c]
      BY <2>1
    <3>2. inbox[c] <= inbox[c] /\ ReadSize <= ReadSize
      BY <2>1
    <3> QED BY <3>1, <3>2
  <2>3. n \in {inbox[c], ReadSize} /\ \A y \in {inbox[c], ReadSize} : n <= y
    BY <2>2 DEF Min
  <2> HIDE DEF n
  <2> QED BY <2>1, <2>3
<1>3. ~accepting /\ events # <<>> /\ Head(events) = c /\ Handle(c, n, over)
  BY DEF HandleClientData
<1> HIDE DEF n, over
<1>4. /\ inbox' = [inbox EXCEPT ![c] = @ - n]
      /\ inbox'[c] \in Nat /\ inbox'[c] <= inbox[c]
      /\ c \notin Bursty => inbox'[c] = 0
      /\ conn' = [conn EXCEPT ![c] = IF over THEN "closed" ELSE @]
      /\ watched' = IF over THEN watched \ {c} ELSE watched
      /\ ready' = IF over THEN RemoveFirst(ready, c) ELSE ready
      /\ events' = Tail(events)
      /\ UNCHANGED <<phase, fin, accepting, sent>>
  <2>1. inbox[c] - n \in Nat /\ inbox[c] - n <= inbox[c] /\ (c \notin Bursty => inbox[c] - n = 0)
    BY <1>2
  <2>2. inbox' = [inbox EXCEPT ![c] = @ - n]
    BY <1>3 DEF Handle
  <2>3. inbox'[c] = inbox[c] - n
    BY <2>2 DEF Inboxes
  <2> QED BY <1>3, <2>1, <2>2, <2>3 DEF Handle, startVars
<1>5. /\ ready' \in Seq(Fds)
      /\ \A x : x # c /\ Listed(ready, x) => Listed(ready', x)
  BY <1>4, ListedRemoveFirst DEF Lists
<1>6. /\ events' \in Seq(Fds)
      /\ \A x : x # c /\ Listed(events, x) => Listed(events', x)
  BY <1>3, <1>4, ListedTail DEF Lists
<1>7. \A x : x # c /\ Noted(x) => Noted(x)'
  BY <1>5, <1>6 DEF Noted
<1>8. /\ In("open")' \subseteq In("open") /\ In("queued")' \subseteq In("queued")
      /\ over => c \notin In("open")'
  BY <1>4 DEF In, Inboxes
<1>9. Awake'
  <2> SUFFICES ASSUME phase = "serving"
               PROVE  /\ In("queued")' # {} => accepting \/ Noted(Listen)'
                      /\ \A d \in In("open")' \ Bursty : inbox'[d] > 0 => Noted(d)'
    BY <1>4 DEF Awake
  <2>1. In("queued")' # {} => accepting \/ Noted(Listen)'
    BY <1>1, <1>7, <1>8 DEF Awake
  <2>2. ASSUME NEW d \in In("open")' \ Bursty, inbox'[d] > 0 PROVE Noted(d)'
    <3>1. d \in Conns /\ d \in In("open")
      BY <1>8 DEF In
    <3>2. d # c /\ inbox[d] > 0
      BY <1>4, <2>2, <3>1 DEF Inboxes
    <3> QED BY <1>7, <3>1, <3>2 DEF Awake
  <2> QED BY <2>1, <2>2
<1>10. Quiet'
  BY <1>3, <1>4 DEF Quiet
<1>11. Inboxes'
  <2>1. inbox' \in [Conns -> Nat] /\ \A d \in Conns : d # c => inbox'[d] = inbox[d]
    BY <1>4 DEF Inboxes
  <2>2. \A d \in Conns \ Bursty : inbox'[d] <= ReadSize
    BY <1>4, <2>1, EpollServerAssumption DEF Inboxes
  <2>3. conn' \in [Conns -> {"none", "queued", "open", "closed"}]
    BY <1>4 DEF Inboxes
  <2> QED BY <2>1, <2>2, <2>3 DEF Inboxes
<1>12. Lists'
  BY <1>4, <1>5, <1>6 DEF Lists
<1>13. Watching'
  BY <1>1, <1>4, <1>8 DEF Watching
<1> QED BY <1>9, <1>10, <1>11, <1>12, <1>13

\* Every step of the server, its clients and the kernel.
LEMMA NextEpoll ==
  ASSUME AddFails = FALSE, EpollInv, [Next]_vars
  PROVE  EpollInv'
<1>1. CASE UNCHANGED vars
  BY <1>1 DEF vars, startVars, EpollInv, Lists, Inboxes, Quiet, Watching, Awake, In, Noted
<1> QED BY <1>1, StartKeeps, ClientKeeps, AcceptKeeps, HandleKeeps DEF Next, LoopStep

\* What is noted is what NoWakeupIsLost asks for.
LEMMA AwakeLosesNothing == EpollInv => NoWakeupIsLost
<1> SUFFICES ASSUME EpollInv PROVE NoWakeupIsLost
  OBVIOUS
<1>1. \A fd : Noted(fd) => Listed(ready \o events, fd)
  BY ListedConcat DEF EpollInv, Lists, Noted
<1> QED BY <1>1 DEF EpollInv, Awake, NoWakeupIsLost

\* Edge triggering loses nothing: while the server serves, a connection that waits
\* to be accepted, and data nobody has read, are in the ready list or in events, or
\* the accept loop is running; for any number of clients, bytes, descriptors, events
\* per wait and failed starts, and streams of any length, of the clients that never
\* have more unread than one read takes, whatever the others do, if registrations
\* succeed (EpollServer.hpp:69-73,131-151,157-170).
THEOREM WakeupsAreKept ==
  ASSUME AddFails = FALSE
  PROVE  Spec => []NoWakeupIsLost
<1>1. EpollInv /\ [Next]_vars => EpollInv'
  BY NextEpoll
<1> QED BY InitEpoll, <1>1, AwakeLosesNothing, PTL DEF Spec
=============================================================================
