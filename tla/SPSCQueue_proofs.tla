--------------------------- MODULE SPSCQueue_proofs ---------------------------
(* Theorems about the ring, for any number of slots, with one thread that     *)
(* pushes and one that pops.                                                  *)
EXTENDS SPSCQueue, FiniteSetTheorems, SequenceTheorems, TLAPS

-----------------------------------------------------------------------------
(* Positions: the k-th item goes to slot (k - 1) % Size *)

\* A number is a multiple of the ring's size and a remainder, in one way only.
LEMMA DivMod ==
  ASSUME NEW n \in Nat, NEW S \in Nat \ {0}
  PROVE  n % S \in 0 .. S - 1 /\ n \div S \in Nat /\ n = (S * (n \div S)) + (n % S)
OBVIOUS

\* The remainder is the r of n = S * q + r.
LEMMA Remainder ==
  ASSUME NEW S \in Nat \ {0}, NEW q \in Nat, NEW r \in 0 .. S - 1,
         NEW n \in Nat, n = (S * q) + r
  PROVE  n % S = r
<1> DEFINE k == n \div S
           u == n % S
<1>1. k \in Nat /\ u \in 0 .. S - 1 /\ n = (S * k) + u
  BY DivMod
<1> HIDE DEF k, u
<1>2. CASE k = q
  BY <1>1, <1>2 DEF u
<1>3. CASE k < q
  <2>1. S * (q - k) >= S
    BY <1>1, <1>3
  <2> QED BY <1>1, <2>1
<1>4. CASE k > q
  <2>1. S * (k - q) >= S
    BY <1>1, <1>4
  <2> QED BY <1>1, <2>1
<1> QED BY <1>1, <1>2, <1>3, <1>4

\* What the proofs use of the ring's size; that it is a power of two is what makes
\* the mask of SPSCQueue.hpp:35 the remainder that Advance takes.
LEMMA RingSize == Size \in Nat \ {0, 1}
BY SPSCQueueAssumption

\* Two positions less than a turn of the ring apart are different slots.
LEMMA SlotsDiffer ==
  ASSUME NEW a \in Nat, NEW b \in Nat, a < b, b - a < Size
  PROVE  a % Size # b % Size
<1> DEFINE q == a \div Size
           r == b \div Size
<1> USE RingSize
<1>1. /\ a = (Size * q) + (a % Size) /\ a % Size \in Nat
      /\ b = (Size * r) + (b % Size) /\ q \in Nat /\ r \in Nat
  BY DivMod
<1> SUFFICES ASSUME a % Size = b % Size PROVE FALSE
  OBVIOUS
<1> HIDE DEF q, r
<1>2. b - a = Size * (r - q)
  BY <1>1
<1>3. CASE r <= q
  <2>1. Size * (r - q) <= 0
    BY <1>1, <1>3
  <2> QED BY <2>1, <1>2
<1>4. CASE r > q
  <2>1. Size * (r - q) >= Size
    BY <1>1, <1>4
  <2> QED BY <2>1, <1>2
<1> QED BY <1>1, <1>3, <1>4

\* A turn of the ring later it is the same slot.
LEMMA OneTurn ==
  ASSUME NEW n \in Nat
  PROVE  (n + Size) % Size = n % Size
<1> DEFINE q == n \div Size
           r == n % Size
<1> USE RingSize
<1>1. q \in Nat /\ r \in 0 .. Size - 1 /\ n = (Size * q) + r
  BY DivMod
<1> HIDE DEF q, r
<1>2. n + Size = (Size * (q + 1)) + r /\ q + 1 \in Nat
  BY <1>1
<1>3. (n + Size) % Size = r
  BY <1>1, <1>2, Remainder
<1> QED BY <1>3 DEF r

\* Going on from a slot is going on from its position.
LEMMA SlotsGoOn ==
  ASSUME NEW n \in Nat, NEW i \in Nat
  PROVE  ((n % Size) + i) % Size = (n + i) % Size
<1> DEFINE q == n \div Size
           r == n % Size
           k == (r + i) \div Size
           u == (r + i) % Size
<1> USE RingSize
<1>1. q \in Nat /\ r \in Nat /\ n = (Size * q) + r
  BY DivMod
<1> HIDE DEF q, r
<1>2. k \in Nat /\ u \in 0 .. Size - 1 /\ r + i = (Size * k) + u
  <2>1. r + i \in Nat
    BY <1>1
  <2> QED BY <2>1, DivMod
<1> HIDE DEF k, u
<1> DEFINE m == q + k
<1>3. n + i = (Size * m) + u /\ m \in Nat /\ n + i \in Nat
  BY <1>1, <1>2
<1> HIDE DEF m
<1>4. (n + i) % Size = u
  BY <1>1, <1>2, <1>3, Remainder
<1> QED BY <1>4 DEF u, r

\* The distance of two positions less than a turn apart is that of their slots.
LEMMA Distance ==
  ASSUME NEW a \in Nat, NEW b \in Nat, a <= b, b - a < Size
  PROVE  ((b % Size) - (a % Size)) % Size = b - a
<1> DEFINE q == a \div Size
           r == a % Size
           k == b \div Size
           u == b % Size
<1> USE RingSize
<1>1. q \in Nat /\ r \in 0 .. Size - 1 /\ a = (Size * q) + r
  BY DivMod
<1>2. k \in Nat /\ u \in 0 .. Size - 1 /\ b = (Size * k) + u
  BY DivMod
<1> HIDE DEF q, r, k, u
<1>3. b - a = (Size * (k - q)) + (u - r)
  BY <1>1, <1>2
<1>4. CASE u >= r
  <2>1. k = q
    <3>1. CASE k < q
      <4>1. Size * (k - q) <= -Size
        BY <1>1, <1>2, <3>1
      <4> QED BY <1>1, <1>2, <1>3, <4>1
    <3>2. CASE k > q
      <4>1. Size * (k - q) >= Size
        BY <1>1, <1>2, <3>2
      <4> QED BY <1>1, <1>2, <1>3, <1>4, <4>1
    <3> QED BY <1>1, <1>2, <3>1, <3>2
  <2>2. u - r = b - a
    BY <1>1, <1>2, <1>3, <2>1
  <2>3. (u - r) % Size = u - r
    BY <1>1, <1>2, <1>4
  <2> QED BY <2>2, <2>3 DEF u, r
<1>5. CASE u < r
  <2>1. k = q + 1
    <3>1. CASE k < q + 1
      <4>1. Size * (k - q) <= 0
        BY <1>1, <1>2, <3>1
      <4> QED BY <1>1, <1>2, <1>3, <1>5, <4>1
    <3>2. CASE k > q + 1
      <4>1. Size * (k - q) >= Size * 2
        BY <1>1, <1>2, <3>2
      <4> QED BY <1>1, <1>2, <1>3, <4>1
    <3> QED BY <1>1, <1>2, <3>1, <3>2
  <2>2. (u - r) + Size = b - a
    BY <1>1, <1>2, <1>3, <2>1
  <2>3. (u - r) % Size = (u - r) + Size
    BY <1>1, <1>2, <1>5
  <2> QED BY <2>2, <2>3 DEF u, r
<1> QED BY <1>1, <1>2, <1>4, <1>5

\* A position is a slot, and Advance goes to the slot of the next
\* (SPSCQueue.hpp:35,61).
LEMMA AdvanceIsNext ==
  ASSUME NEW n \in Nat
  PROVE  n % Size \in Slots /\ Advance(n % Size) = (n + 1) % Size
<1> DEFINE q == n \div Size
           r == n % Size
<1> USE RingSize
<1>1. q \in Nat /\ r \in 0 .. Size - 1 /\ n = (Size * q) + r
  BY DivMod
<1> HIDE DEF q, r
<1>2. CASE r + 1 < Size
  <2>1. (n + 1) % Size = r + 1
    BY <1>1, <1>2, Remainder
  <2>2. (r + 1) % Size = r + 1
    BY <1>1, <1>2
  <2> QED BY <1>1, <2>1, <2>2 DEF Advance, Slots, r
<1>3. CASE r + 1 = Size
  <2>1. n + 1 = (Size * (q + 1)) + 0 /\ q + 1 \in Nat
    BY <1>1, <1>3
  <2>2. (n + 1) % Size = 0
    BY <1>1, <2>1, Remainder
  <2>3. (r + 1) = (Size * 1) + 0
    BY <1>3
  <2>4. (r + 1) % Size = 0
    BY <1>1, <2>3, Remainder
  <2> QED BY <1>1, <2>2, <2>4 DEF Advance, Slots, r
<1> QED BY <1>1, <1>2, <1>3

-----------------------------------------------------------------------------
(* The inductive invariant.  Positions are counted by the history variables:  *)
(* the next item to be sent has position Len(sent), the next to be received   *)
(* Len(received).                                                             *)

OnlyPusher(p) == at[p] \in {"out", "push_check", "push_store", "push_publish"}
OnlyPopper(c) == at[c] \in {"out", "pop_check", "pop_load", "pop_advance"}

\* The two indices are where the counts say, a thread sees its own at once, and
\* works on the slot it points to.
Indexed(p, c) ==
  /\ Len(received) <= Len(sent) /\ Len(sent) - Len(received) < Size
  /\ write_pos = Len(sent) % Size /\ read_pos = Len(received) % Size
  /\ view[p].write = write_pos /\ view[c].read = read_pos
  /\ OnlyPusher(p) /\ (at[p] # "out" => pos[p] = write_pos)
  /\ OnlyPopper(c) /\ (at[c] # "out" => pos[c] = read_pos)

\* What the producer sees of read_pos_ is an old value m, not older than a turn
\* of the ring; when it has found room, a slot more than it uses is free.
SeesRoom(p) ==
  \E m \in 0 .. Len(received) :
    /\ view[p].read = m % Size
    /\ Len(sent) - m < Size
    /\ at[p] \in {"push_store", "push_publish"} => Len(sent) + 1 - m < Size

\* What the consumer sees of write_pos_ is an old value n that it has not passed.
SeesItem(c) ==
  \E n \in Len(received) .. Len(sent) :
    /\ view[c].write = n % Size
    /\ at[c] \in {"pop_load", "pop_advance"} => Len(received) < n

\* The slots between the two indices hold what was sent and not received, and
\* the threads hold what they are about to publish and to return.
Contents(p, c) ==
  /\ \A k \in Len(received) + 1 .. Len(sent) : buffer[(k - 1) % Size] = sent[k]
  /\ at[p] # "out" => item[p] \in Items
  /\ at[p] = "push_publish" => buffer[write_pos] = item[p]
  /\ at[c] = "pop_advance" => item[c] = sent[Len(received) + 1]
  /\ \A k \in 1 .. Len(received) : received[k] = sent[k]

QueueInv(p, c) ==
  QueueTypeOK /\ Indexed(p, c) /\ SeesRoom(p) /\ SeesItem(c) /\ Contents(p, c)

\* One thread pushes, and c is the one that pops, alone or while the others do not.
OnePusher(p, c) == p # c /\ Producers = {p} /\ p \notin Consumers /\ c \in Consumers

OneEach(p, c) == OnePusher(p, c) /\ Consumers = {c}

\* Types of what the steps below compare and change.
LEMMA StateTypes ==
  ASSUME NEW p, NEW c, OnePusher(p, c), QueueInv(p, c)
  PROVE  /\ p \in Threads /\ c \in Threads /\ p # c
         /\ \A t \in Threads : view[t] \in [write : Slots, read : Slots]
         /\ Len(sent) \in Nat /\ Len(received) \in Nat
         /\ view[p] \in [write : Slots, read : Slots]
         /\ view[c] \in [write : Slots, read : Slots]
         /\ write_pos \in Slots /\ read_pos \in Slots
         /\ \A k \in 1 .. Len(sent) : sent[k] \in Items
<1> USE DEF OnePusher, QueueInv, QueueTypeOK, Threads
<1>1. sent \in Seq(Items) /\ received \in Seq(Items \cup {NoItem})
  OBVIOUS
<1>2. \A k \in 1 .. Len(sent) : sent[k] \in Items
  BY <1>1, ElementOfSeq
<1>3. Len(sent) \in Nat /\ Len(received) \in Nat
  BY <1>1, LenProperties
<1> QED BY <1>2, <1>3

\* The queue just constructed (SPSCQueue.hpp:21-25).
LEMMA InitQueue ==
  ASSUME NEW p, NEW c, OnePusher(p, c), Init
  PROVE  QueueInv(p, c)
<1> USE DEF Init, OnePusher, Threads
<1>1. 0 \in Slots /\ 0 % Size = 0
  BY RingSize DEF Slots
<1>2. QueueTypeOK
  BY <1>1, EmptySeq DEF QueueTypeOK, Indices, Labels
<1>3. Len(sent) = 0 /\ Len(received) = 0
  BY EmptySeq
<1>4. Indexed(p, c)
  BY <1>1, <1>3, RingSize DEF Indexed, Indices, OnlyPusher, OnlyPopper
<1>5. SeesRoom(p) /\ SeesItem(c)
  BY <1>1, <1>3, RingSize DEF SeesRoom, SeesItem, Indices
<1>6. Contents(p, c)
  BY <1>3 DEF Contents
<1> QED BY <1>2, <1>4, <1>5, <1>6 DEF QueueInv

\* An index becomes visible: only what the two threads see of each other's changes.
LEMMA ObserveKeeps ==
  ASSUME NEW p, NEW c, OnePusher(p, c), QueueInv(p, c), NEW t \in Threads, Observe(t)
  PROVE  QueueInv(p, c)'
<1>1. PICK index \in {"write", "read"} :
        /\ view[t][index] # Indices[index]
        /\ view' = [view EXCEPT ![t][index] = Indices[index]]
  BY DEF Observe
<1>2. /\ UNCHANGED <<buffer, write_pos, read_pos, at, pos, item, sent, received>>
      /\ view \in [Threads -> [write : Slots, read : Slots]]
  BY DEF Observe, QueueInv, QueueTypeOK
<1>3. \/ t = p /\ index = "read"
      \/ t = c /\ index = "write"
      \/ t # p /\ t # c
  BY <1>1, StateTypes DEF Indices, QueueInv, Indexed
<1>4. view' \in [Threads -> [write : Slots, read : Slots]]
  BY <1>1, <1>2, StateTypes DEF Indices
<1>5. CASE t = p /\ index = "read"
  <2>1. view'[p].write = view[p].write /\ view'[p].read = read_pos /\ view'[c] = view[c]
    BY <1>1, <1>2, <1>5, StateTypes DEF Indices, OnePusher
  <2>2. SeesRoom(p)'
    <3>1. PICK m \in 0 .. Len(received) :
            /\ Len(sent) - m < Size
            /\ at[p] \in {"push_store", "push_publish"} => Len(sent) + 1 - m < Size
      BY DEF QueueInv, SeesRoom
    <3> QED BY <1>2, <2>1, <3>1, StateTypes, RingSize DEF QueueInv, Indexed, SeesRoom
  <2> QED BY <1>2, <1>4, <2>1, <2>2 DEF QueueInv, QueueTypeOK, Indexed, OnlyPusher, OnlyPopper,
             SeesItem, Contents
<1>6. CASE t = c /\ index = "write"
  <2>1. view'[c].read = view[c].read /\ view'[c].write = write_pos /\ view'[p] = view[p]
    BY <1>1, <1>2, <1>6, StateTypes DEF Indices, OnePusher
  <2>2. SeesItem(c)'
    <3>1. PICK n \in Len(received) .. Len(sent) :
            at[c] \in {"pop_load", "pop_advance"} => Len(received) < n
      BY DEF QueueInv, SeesItem
    <3> QED BY <1>2, <2>1, <3>1, StateTypes DEF QueueInv, Indexed, SeesItem
  <2> QED BY <1>2, <1>4, <2>1, <2>2 DEF QueueInv, QueueTypeOK, Indexed, OnlyPusher, OnlyPopper,
             SeesRoom, Contents
<1>7. CASE t # p /\ t # c
  <2>1. view'[p] = view[p] /\ view'[c] = view[c]
    BY <1>1, <1>2, <1>7, StateTypes
  <2> QED BY <1>2, <1>4, <2>1 DEF QueueInv, QueueTypeOK, Indexed, OnlyPusher, OnlyPopper,
             SeesRoom, SeesItem, Contents
<1> QED BY <1>3, <1>5, <1>6, <1>7

\* push up to its test (SPSCQueue.hpp:34).
LEMMA PushBeginKeeps ==
  ASSUME NEW p, NEW c, OnePusher(p, c), QueueInv(p, c), NEW x \in Items, PushBegin(p, x)
  PROVE  QueueInv(p, c)'
<1> USE DEF PushBegin, Goto
<1>1. p \in Threads /\ c \in Threads /\ p # c
  BY StateTypes DEF OnePusher
<1>2. QueueTypeOK'
  BY StateTypes DEF QueueInv, QueueTypeOK, Labels
<1>3. /\ at'[p] = "push_check" /\ pos'[p] = write_pos /\ item'[p] = x
      /\ at'[c] = at[c] /\ pos'[c] = pos[c] /\ item'[c] = item[c]
  BY <1>1 DEF QueueInv, QueueTypeOK, Indexed
<1> QED BY <1>2, <1>3 DEF QueueInv, Indexed, OnlyPusher, OnlyPopper, SeesRoom, SeesItem, Contents

\* The test finds room only if the slot after the next is free, however old the
\* value of read_pos_ (SPSCQueue.hpp:37-39).
LEMMA PushCheckKeeps ==
  ASSUME NEW p, NEW c, OnePusher(p, c), QueueInv(p, c), PushCheck(p)
  PROVE  QueueInv(p, c)'
<1> USE DEF PushCheck, Goto
<1>1. p \in Threads /\ c \in Threads /\ p # c
  BY StateTypes DEF OnePusher
<1>2. QueueTypeOK'
  BY StateTypes DEF QueueInv, QueueTypeOK, Labels
<1>3. at'[p] = (IF HasRoom(p) THEN "push_store" ELSE "out") /\ at'[c] = at[c]
  BY <1>1 DEF QueueInv, QueueTypeOK
<1>4. SeesRoom(p)'
  <2>1. PICK m \in 0 .. Len(received) : view[p].read = m % Size /\ Len(sent) - m < Size
    BY DEF QueueInv, SeesRoom
  <2>2. CASE HasRoom(p)
    <3>1. (Len(sent) + 1) % Size # m % Size
      BY <2>1, <2>2, StateTypes, AdvanceIsNext DEF HasRoom, QueueInv, Indexed
    <3>2. Len(sent) + 1 - m # Size
      <4>1. m \in Nat /\ (m + Size) % Size = m % Size
        BY <2>1, StateTypes, OneTurn
      <4>2. Len(sent) + 1 - m = Size => Len(sent) + 1 = m + Size
        BY <4>1, StateTypes, RingSize
      <4> QED BY <3>1, <4>1, <4>2
    <3>3. Len(sent) + 1 - m < Size
      BY <2>1, <3>2, StateTypes, RingSize
    <3> QED BY <2>1, <3>3 DEF SeesRoom
  <2>3. CASE ~HasRoom(p)
    BY <1>3, <2>1, <2>3 DEF SeesRoom
  <2> QED BY <2>2, <2>3
<1> QED BY <1>2, <1>3, <1>4 DEF QueueInv, Indexed, OnlyPusher, OnlyPopper, SeesItem, Contents

\* The slot that is stored to is none of those that hold items (SPSCQueue.hpp:42).
LEMMA PushStoreKeeps ==
  ASSUME NEW p, NEW c, OnePusher(p, c), QueueInv(p, c), PushStore(p)
  PROVE  QueueInv(p, c)'
<1> USE DEF PushStore, Goto
<1>1. p \in Threads /\ c \in Threads /\ p # c
  BY StateTypes DEF OnePusher
<1>2. pos[p] = write_pos /\ item[p] \in Items /\ at[p] = "push_store"
  BY DEF QueueInv, Indexed, Contents
<1>3. QueueTypeOK'
  BY <1>2, StateTypes DEF QueueInv, QueueTypeOK, Labels
<1>4. at'[p] = "push_publish" /\ at'[c] = at[c]
  BY <1>1 DEF QueueInv, QueueTypeOK
<1>5. Contents(p, c)'
  <2>1. buffer'[write_pos] = item[p]
    BY <1>2, StateTypes DEF QueueInv, QueueTypeOK
  <2>2. ASSUME NEW k \in Len(received) + 1 .. Len(sent)
        PROVE  buffer'[(k - 1) % Size] = sent[k]
    <3>1. k - 1 \in Nat /\ k - 1 < Len(sent) /\ Len(sent) - (k - 1) < Size
      BY StateTypes, RingSize DEF QueueInv, Indexed
    <3>2. (k - 1) % Size # write_pos
      BY <3>1, StateTypes, SlotsDiffer DEF QueueInv, Indexed
    <3>3. (k - 1) % Size \in Slots
      BY <3>1, AdvanceIsNext
    <3> QED BY <1>2, <3>2, <3>3 DEF QueueInv, QueueTypeOK, Contents
  <2> QED BY <1>2, <1>4, <2>1, <2>2 DEF QueueInv, Contents
<1> QED BY <1>2, <1>3, <1>4, <1>5
       DEF QueueInv, Indexed, OnlyPusher, OnlyPopper, SeesRoom, SeesItem

\* The store to write_pos_ adds the item to those in the ring (SPSCQueue.hpp:45).
LEMMA PushPublishKeeps ==
  ASSUME NEW p, NEW c, OnePusher(p, c), QueueInv(p, c), PushPublish(p)
  PROVE  QueueInv(p, c)'
<1> USE DEF PushPublish, Goto
<1>1. p \in Threads /\ c \in Threads /\ p # c
  BY StateTypes DEF OnePusher
<1>2. pos[p] = write_pos /\ item[p] \in Items /\ at[p] = "push_publish"
  BY DEF QueueInv, Indexed, Contents
<1>3. /\ write_pos' = (Len(sent) + 1) % Size
      /\ write_pos' \in Slots
  BY <1>2, StateTypes, AdvanceIsNext DEF QueueInv, Indexed
<1>4. /\ sent' \in Seq(Items) /\ Len(sent') = Len(sent) + 1
      /\ \A k \in 1 .. Len(sent) : sent'[k] = sent[k]
      /\ sent'[Len(sent) + 1] = item[p]
  BY <1>2, AppendProperties DEF QueueInv, QueueTypeOK
<1>5. QueueTypeOK'
  BY <1>2, <1>3, <1>4, StateTypes DEF QueueInv, QueueTypeOK, Labels
<1>6. /\ at'[p] = "out" /\ at'[c] = at[c]
      /\ view'[p].write = write_pos' /\ view'[p].read = view[p].read /\ view'[c] = view[c]
  BY <1>1, <1>2 DEF QueueInv, QueueTypeOK
<1>7. SeesRoom(p)' /\ Len(sent') - Len(received) < Size
  <2>1. PICK m \in 0 .. Len(received) :
          view[p].read = m % Size /\ Len(sent) + 1 - m < Size
    BY <1>2 DEF QueueInv, SeesRoom
  <2> QED BY <1>4, <1>6, <2>1, StateTypes, RingSize DEF SeesRoom
<1>8. Indexed(p, c)'
  BY <1>3, <1>4, <1>6, <1>7, StateTypes DEF QueueInv, Indexed, OnlyPusher, OnlyPopper
<1>9. SeesItem(c)'
  BY <1>4, <1>6, StateTypes DEF QueueInv, SeesItem
<1>10. Contents(p, c)'
  <2>1. ASSUME NEW k \in Len(received) + 1 .. Len(sent')
        PROVE  buffer[(k - 1) % Size] = sent'[k]
    <3>1. CASE k = Len(sent) + 1
      <4>1. (k - 1) % Size = write_pos
        BY <3>1, StateTypes DEF QueueInv, Indexed
      <4> QED BY <1>2, <1>4, <3>1, <4>1 DEF QueueInv, Contents
    <3>2. CASE k # Len(sent) + 1
      <4>1. k \in Len(received) + 1 .. Len(sent)
        BY <1>4, <3>2, StateTypes
      <4>2. k \in 1 .. Len(sent)
        BY <4>1, StateTypes
      <4> QED BY <1>4, <4>1, <4>2 DEF QueueInv, Contents
    <3> QED BY <3>1, <3>2
  <2>2. at[c] = "pop_advance" => item[c] = sent'[Len(received) + 1]
    <3>1. at[c] = "pop_advance" => Len(received) + 1 \in 1 .. Len(sent)
      BY StateTypes DEF QueueInv, SeesItem
    <3> QED BY <1>4, <3>1 DEF QueueInv, Contents
  <2>3. \A k \in 1 .. Len(received) : received[k] = sent'[k]
    BY <1>4, StateTypes DEF QueueInv, Indexed, Contents
  <2> QED BY <1>6, <2>1, <2>2, <2>3 DEF Contents
<1> QED BY <1>5, <1>7, <1>8, <1>9, <1>10 DEF QueueInv

\* pop up to its test (SPSCQueue.hpp:54).
LEMMA PopBeginKeeps ==
  ASSUME NEW p, NEW c, OnePusher(p, c), QueueInv(p, c), PopBegin(c)
  PROVE  QueueInv(p, c)'
<1> USE DEF PopBegin, Goto
<1>1. p \in Threads /\ c \in Threads /\ p # c
  BY StateTypes DEF OnePusher
<1>2. QueueTypeOK'
  BY StateTypes DEF QueueInv, QueueTypeOK, Labels
<1>3. at'[c] = "pop_check" /\ pos'[c] = read_pos /\ at'[p] = at[p] /\ pos'[p] = pos[p]
  BY <1>1 DEF QueueInv, QueueTypeOK, Indexed
<1>4. Indexed(p, c)' /\ SeesRoom(p)' /\ SeesItem(c)'
  BY <1>3 DEF QueueInv, Indexed, OnlyPusher, OnlyPopper, SeesRoom, SeesItem
<1>5. Contents(p, c)'
  BY <1>3 DEF QueueInv, Contents
<1> QED BY <1>2, <1>4, <1>5 DEF QueueInv

\* The test finds an item only if there is one, however old the value of
\* write_pos_ (SPSCQueue.hpp:56-58).
LEMMA PopCheckKeeps ==
  ASSUME NEW p, NEW c, OnePusher(p, c), QueueInv(p, c), PopCheck(c)
  PROVE  QueueInv(p, c)'
<1> USE DEF PopCheck, Goto
<1>1. p \in Threads /\ c \in Threads /\ p # c
  BY StateTypes DEF OnePusher
<1>2. QueueTypeOK'
  BY StateTypes DEF QueueInv, QueueTypeOK, Labels
<1>3. at'[c] = (IF HasItem(c) THEN "pop_load" ELSE "out") /\ at'[p] = at[p]
  BY <1>1 DEF QueueInv, QueueTypeOK
<1>4. SeesItem(c)'
  <2>1. PICK n \in Len(received) .. Len(sent) : view[c].write = n % Size
    BY DEF QueueInv, SeesItem
  <2>2. HasItem(c) => Len(received) < n
    BY <2>1, StateTypes DEF HasItem, QueueInv, Indexed
  <2> QED BY <1>3, <2>1, <2>2 DEF SeesItem
<1>5. Indexed(p, c)' /\ SeesRoom(p)'
  BY <1>3 DEF QueueInv, Indexed, OnlyPusher, OnlyPopper, SeesRoom
<1>6. Contents(p, c)'
  BY <1>3 DEF QueueInv, Contents
<1> QED BY <1>2, <1>4, <1>5, <1>6 DEF QueueInv

\* The slot that is loaded holds the oldest item (SPSCQueue.hpp:61).
LEMMA PopLoadKeeps ==
  ASSUME NEW p, NEW c, OnePusher(p, c), QueueInv(p, c), PopLoad(c)
  PROVE  QueueInv(p, c)'
<1> USE DEF PopLoad, Goto
<1>1. p \in Threads /\ c \in Threads /\ p # c
  BY StateTypes DEF OnePusher
<1>2. pos[c] = read_pos /\ at[c] = "pop_load"
  BY DEF QueueInv, Indexed
<1>3. QueueTypeOK'
  BY <1>2, StateTypes DEF QueueInv, QueueTypeOK, Labels
<1>4. /\ at'[c] = "pop_advance" /\ at'[p] = at[p]
      /\ item'[c] = buffer[read_pos] /\ item'[p] = item[p]
  BY <1>1, <1>2 DEF QueueInv, QueueTypeOK
<1>5. buffer[read_pos] = sent[Len(received) + 1]
  <2>1. Len(received) + 1 \in Len(received) + 1 .. Len(sent)
    BY <1>2, StateTypes DEF QueueInv, SeesItem
  <2>2. (Len(received) + 1) - 1 = Len(received)
    BY StateTypes
  <2> QED BY <2>1, <2>2 DEF QueueInv, Indexed, Contents
<1> QED BY <1>2, <1>3, <1>4, <1>5
       DEF QueueInv, Indexed, OnlyPusher, OnlyPopper, SeesRoom, SeesItem, Contents

\* The store to read_pos_ gives the slot back (SPSCQueue.hpp:64).
LEMMA PopAdvanceKeeps ==
  ASSUME NEW p, NEW c, OnePusher(p, c), QueueInv(p, c), PopAdvance(c)
  PROVE  QueueInv(p, c)'
<1> USE DEF PopAdvance, Goto
<1>1. p \in Threads /\ c \in Threads /\ p # c
  BY StateTypes DEF OnePusher
<1>2. pos[c] = read_pos /\ at[c] = "pop_advance" /\ item[c] = sent[Len(received) + 1]
  BY DEF QueueInv, Indexed, Contents
<1>3. /\ read_pos' = (Len(received) + 1) % Size
      /\ read_pos' \in Slots
  BY <1>2, StateTypes, AdvanceIsNext DEF QueueInv, Indexed
<1>4. /\ received' \in Seq(Items \cup {NoItem}) /\ Len(received') = Len(received) + 1
      /\ \A k \in 1 .. Len(received) : received'[k] = received[k]
      /\ received'[Len(received) + 1] = item[c]
  BY <1>1, AppendProperties DEF QueueInv, QueueTypeOK
<1>5. QueueTypeOK'
  <2>1. view' \in [Threads -> [write : Slots, read : Slots]]
    BY <1>2, <1>3, StateTypes DEF QueueInv, QueueTypeOK
  <2>2. at' \in [Threads -> Labels]
    BY DEF QueueInv, QueueTypeOK, Labels
  <2> QED BY <1>3, <1>4, <2>1, <2>2 DEF QueueInv, QueueTypeOK
<1>6. /\ at'[c] = "out" /\ at'[p] = at[p]
      /\ view'[c].read = read_pos' /\ view'[c].write = view[c].write /\ view'[p] = view[p]
  BY <1>1, <1>2 DEF QueueInv, QueueTypeOK
<1>7. PICK n \in Len(received) .. Len(sent) : view[c].write = n % Size /\ Len(received) < n
  BY <1>2 DEF QueueInv, SeesItem
<1>8. SeesItem(c)'
  BY <1>4, <1>6, <1>7, StateTypes DEF SeesItem
<1>9. Indexed(p, c)'
  BY <1>3, <1>4, <1>6, <1>7, StateTypes, RingSize DEF QueueInv, Indexed, OnlyPusher, OnlyPopper
<1>10. SeesRoom(p)'
  BY <1>4, <1>6, StateTypes DEF QueueInv, SeesRoom
<1>11. Contents(p, c)'
  <2>1. \A k \in 1 .. Len(received) + 1 : received'[k] = sent[k]
    BY <1>2, <1>4, StateTypes DEF QueueInv, Contents
  <2> QED BY <1>4, <1>6, <2>1, StateTypes DEF QueueInv, Contents
<1> QED BY <1>5, <1>8, <1>9, <1>10, <1>11 DEF QueueInv

\* A sequence that another goes on from, item by item, is a prefix of it.
LEMMA SamePrefix ==
  ASSUME NEW S, NEW T, NEW s \in Seq(S), NEW u \in Seq(T), Len(s) <= Len(u),
         \A k \in 1 .. Len(s) : s[k] = u[k]
  PROVE  IsPrefix(s, u)
<1> DEFINE n == Len(s)
<1>1. n \in Nat /\ n <= Len(u) /\ Len(u) \in Nat /\ \A k \in 1 .. n : s[k] = u[k]
  BY LenProperties
<1> HIDE DEF n
<1>2. SubSeq(s, 1, n) = SubSeq(u, 1, n)
  <2>1. \A k \in 1 .. n : s[1 + k - 1] = u[1 + k - 1]
    BY <1>1
  <2> QED BY <1>1, <2>1
<1> QED BY <1>1, <1>2 DEF IsPrefix, n

\* While there are items left to push, there is a first of them.
LEMMA FirstUnsent ==
  ASSUME Unsent # {}
  PROVE  Min(Unsent) \in Items
<1> DEFINE R == OpToRel(<, Nat)
<1>1. Unsent \subseteq Nat /\ Unsent \subseteq Items
  BY DEF Unsent, Items
<1>2. \A k, m \in Nat : <<k, m>> \in R <=> k < m
  BY DEF OpToRel
<1>3. IsWellFoundedOn(R, Nat)
  BY NatLessThanWellFounded
<1> HIDE DEF R
<1>4. PICK m \in Unsent : \A k \in Unsent : ~(<<k, m>> \in R)
  BY <1>1, <1>3, WFMin
<1>5. \A k \in Unsent : m <= k
  <2> SUFFICES ASSUME NEW k \in Unsent PROVE m <= k
    OBVIOUS
  <2>1. k \in Nat /\ m \in Nat
    BY <1>1
  <2>2. ~(k < m)
    BY <1>2, <1>4, <2>1
  <2> QED BY <2>1, <2>2
<1> QED BY <1>1, <1>5 DEF Min

\* One step per access of the two threads, and the memory's own.
LEMMA NextQueue ==
  ASSUME NEW p, NEW c, OneEach(p, c), QueueInv(p, c), [Next]_queueVars
  PROVE  QueueInv(p, c)'
<1> OnePusher(p, c)
  BY DEF OneEach
<1>1. ASSUME NEW t \in Threads, Observe(t)
      PROVE  QueueInv(p, c)'
  BY <1>1, ObserveKeeps
<1>2. CASE ProducerStep(p)
  BY <1>2, FirstUnsent, PushBeginKeeps, PushCheckKeeps, PushStoreKeeps, PushPublishKeeps
     DEF ProducerStep
<1>3. CASE ConsumerStep(c)
  BY <1>3, PopBeginKeeps, PopCheckKeeps, PopLoadKeeps, PopAdvanceKeeps DEF ConsumerStep
<1>4. CASE UNCHANGED queueVars
  BY <1>4 DEF queueVars, QueueInv, QueueTypeOK, Indexed, OnlyPusher, OnlyPopper, SeesRoom, SeesItem,
              Contents
<1> QED BY <1>1, <1>2, <1>3, <1>4 DEF Next, OneEach, OnePusher

\* The invariant holds of every behaviour.
LEMMA QueueInvariant ==
  ASSUME NEW p, NEW c, OneEach(p, c)
  PROVE  Spec => []QueueInv(p, c)
<1>1. Init => QueueInv(p, c)
  BY InitQueue DEF OneEach
<1>2. QueueInv(p, c) /\ [Next]_queueVars => QueueInv(p, c)'
  BY NextQueue
<1> QED BY <1>1, <1>2, PTL DEF Spec

-----------------------------------------------------------------------------
(* Theorems *)

\* With one thread that pushes and one that pops, the ring keeps its types, the
\* items that come out included: never what a slot held before
\* (SPSCQueue.hpp:33-67).
THEOREM QueueTypeCorrect ==
  ASSUME NEW p, NEW c, OneEach(p, c)
  PROVE  Spec => []QueueTypeOK
<1>1. QueueInv(p, c) => QueueTypeOK
  BY DEF QueueInv
<1> QED BY <1>1, QueueInvariant, PTL

\* With one thread that pushes and one that pops, no slot is stored to while it
\* is loaded, however stale the indices they see (SPSCQueue.hpp:33-67).
THEOREM QueueHasNoRace ==
  ASSUME NEW p, NEW c, OneEach(p, c)
  PROVE  Spec => []NoDataRace
<1>1. QueueInv(p, c) => NoDataRace
  <2> SUFFICES ASSUME QueueInv(p, c), NEW t \in Threads, NEW u \in Threads,
                      t # u, at[t] = "push_store", at[u] \in {"push_store", "pop_load"}
               PROVE  pos[t] # pos[u]
    BY DEF NoDataRace
  <2>1. t = p /\ u = c /\ at[c] = "pop_load"
    BY StateTypes DEF QueueInv, Indexed, OnlyPusher, OnlyPopper, OneEach, OnePusher, Threads
  <2>2. pos[p] = Len(sent) % Size /\ pos[c] = Len(received) % Size
    BY <2>1 DEF QueueInv, Indexed
  <2>3. Len(received) < Len(sent)
    BY <2>1, StateTypes DEF QueueInv, SeesItem
  <2>4. Len(sent) - Len(received) < Size
    BY DEF QueueInv, Indexed
  <2> QED BY <2>1, <2>2, <2>3, <2>4, StateTypes, SlotsDiffer
<1> QED BY <1>1, QueueInvariant, PTL

\* With one thread that pushes and one that pops, what comes out is what went
\* in, in that order, for any size of the ring and any number of its turns
\* (SPSCQueue.hpp:33-67).
THEOREM QueueDeliversInOrder ==
  ASSUME NEW p, NEW c, OneEach(p, c)
  PROVE  Spec => []DeliveredInOrder
<1>1. QueueInv(p, c) => DeliveredInOrder
  <2>1. QueueInv(p, c) => received \in Seq(Items \cup {NoItem}) /\ sent \in Seq(Items)
    BY DEF QueueInv, QueueTypeOK
  <2> QED BY <2>1, SamePrefix DEF QueueInv, Indexed, Contents, DeliveredInOrder
<1> QED BY <1>1, QueueInvariant, PTL

-----------------------------------------------------------------------------
(* The refinement of BoundedQueue *)

\* What is in the queue, in terms of what was sent.
Inside == [i \in 1 .. Len(sent) - Len(received) |-> sent[Len(received) + i]]

\* The queue that BoundedQueue is given.
Queue == [i \in 1 .. Occupied |-> buffer[(read_pos + i - 1) % Size]]

\* The slots from read_pos_ on hold what was sent and not received.
LEMMA QueueIsInside ==
  ASSUME NEW p, NEW c, OneEach(p, c), QueueInv(p, c)
  PROVE  Queue = Inside
<1> DEFINE w == Len(sent)
           r == Len(received)
<1>1. /\ w \in Nat /\ r \in Nat /\ r <= w /\ w - r < Size
      /\ write_pos = w % Size /\ read_pos = r % Size
  BY StateTypes DEF QueueInv, Indexed
<1>2. \A k \in r + 1 .. w : buffer[(k - 1) % Size] = sent[k]
  BY DEF QueueInv, Contents
<1> HIDE DEF w, r
<1>3. Occupied = w - r
  BY <1>1, Distance DEF Occupied
<1>4. ASSUME NEW i \in 1 .. w - r
      PROVE  buffer[(read_pos + i - 1) % Size] = sent[r + i]
  <2>1. i - 1 \in Nat /\ r + i \in r + 1 .. w /\ (r + i) - 1 = r + (i - 1)
    BY <1>1
  <2>2. ((r % Size) + (i - 1)) % Size = (r + (i - 1)) % Size
    BY <1>1, <2>1, SlotsGoOn
  <2>3. r % Size \in Nat
    BY <1>1, AdvanceIsNext, RingSize DEF Slots
  <2>4. read_pos + i - 1 = (r % Size) + (i - 1)
    BY <1>1, <2>1, <2>3
  <2> QED BY <1>2, <2>1, <2>2, <2>4
<1> QED BY <1>3, <1>4 DEF Queue, Inside, w, r

\* What a step does to the queue: the store to write_pos_ puts an item in, the
\* store to read_pos_ takes the first out, nothing else changes it.
LEMMA InsideStep ==
  ASSUME NEW p, NEW c, OneEach(p, c), QueueInv(p, c), [Next]_queueVars
  PROVE  \/ /\ PushPublish(p) /\ Len(Inside) < Size - 1
            /\ Inside' = Append(Inside, item[p]) /\ item[p] \in Items
            /\ received' = received
         \/ /\ PopAdvance(c) /\ Inside # <<>>
            /\ Inside' = Tail(Inside) /\ received' = Append(received, Head(Inside))
         \/ UNCHANGED <<sent, received>>
<1> DEFINE w == Len(sent)
           r == Len(received)
<1>1. /\ w \in Nat /\ r \in Nat /\ r <= w
      /\ \A k \in 1 .. w : sent[k] \in Items
      /\ sent \in Seq(Items) /\ received \in Seq(Items \cup {NoItem})
  BY StateTypes DEF QueueInv, Indexed, QueueTypeOK
<1>2. Inside \in Seq(Items) /\ Len(Inside) = w - r
  <2>1. w - r \in Nat /\ \A i \in 1 .. w - r : sent[r + i] \in Items
    BY <1>1
  <2> HIDE DEF w, r
  <2>2. [i \in 1 .. w - r |-> sent[r + i]] \in [1 .. w - r -> Items]
    BY <2>1
  <2>3. [i \in 1 .. w - r |-> sent[r + i]] \in Seq(Items)
    BY <2>1, <2>2, SeqDef
  <2>4. Len([i \in 1 .. w - r |-> sent[r + i]]) = w - r
    BY <2>1, <2>3, LenProperties
  <2> QED BY <2>3, <2>4 DEF Inside, w, r
<1>3. CASE PushPublish(p)
  <2>1. /\ sent' = Append(sent, item[p]) /\ UNCHANGED received
        /\ item[p] \in Items
    BY <1>3 DEF PushPublish, QueueInv, Contents
  <2>2. /\ Len(sent') = w + 1 /\ sent'[w + 1] = item[p]
        /\ \A k \in 1 .. w : sent'[k] = sent[k]
    BY <1>1, <2>1, AppendProperties
  <2>3. w - r < Size - 1
    <3>1. PICK m \in 0 .. r : w + 1 - m < Size
      BY <1>3 DEF PushPublish, QueueInv, SeesRoom
    <3> QED BY <1>1, <3>1, RingSize
  <2>4. Inside' = [i \in 1 .. w + 1 - r |-> sent'[r + i]]
    BY <2>1, <2>2 DEF Inside
  <2> DEFINE A == Append(Inside, item[p])
  <2>5. /\ Len(A) = w - r + 1 /\ A \in Seq(Items) /\ A[w - r + 1] = item[p]
        /\ \A i \in 1 .. w - r : A[i] = Inside[i]
    BY <1>2, <2>1, AppendProperties
  <2> HIDE DEF A
  <2>6. A = [i \in 1 .. w - r + 1 |-> A[i]]
    BY <2>5, LenProperties
  <2>7. ASSUME NEW i \in 1 .. w - r + 1 PROVE A[i] = sent'[r + i]
    <3>1. CASE i = w - r + 1
      <4>1. r + i = w + 1
        BY <1>1, <3>1
      <4> QED BY <2>2, <2>5, <3>1, <4>1
    <3>2. CASE i # w - r + 1
      <4>1. i \in 1 .. w - r /\ r + i \in 1 .. w
        BY <1>1, <3>2
      <4>2. Inside[i] = sent[r + i]
        BY <4>1 DEF Inside
      <4> QED BY <2>2, <2>5, <4>1, <4>2
    <3> QED BY <3>1, <3>2
  <2>8. w + 1 - r = w - r + 1
    BY <1>1
  <2>9. Inside' = A
    BY <2>4, <2>6, <2>7, <2>8
  <2> QED BY <1>2, <1>3, <2>1, <2>3, <2>9 DEF A
<1>4. CASE PopAdvance(c)
  <2>1. /\ received' = Append(received, item[c]) /\ UNCHANGED sent
        /\ item[c] = sent[r + 1]
    BY <1>4 DEF PopAdvance, QueueInv, Contents
  <2>2. Len(received') = r + 1
    BY <1>1, <2>1, AppendProperties
  <2>3. r < w
    BY <1>1, <1>4 DEF PopAdvance, QueueInv, SeesItem
  <2>4. Inside' = [i \in 1 .. w - (r + 1) |-> sent[r + 1 + i]]
    BY <2>1, <2>2 DEF Inside
  <2>5. Tail(Inside) = [i \in 1 .. w - r - 1 |-> sent[r + (i + 1)]]
    BY <1>1, <1>2, <2>3 DEF Inside
  <2>6. Head(Inside) = sent[r + 1]
    BY <1>1, <1>2, <2>3 DEF Inside
  <2> HIDE DEF w, r
  <2>7. Inside' = Tail(Inside)
    <3>1. w - (r + 1) = w - r - 1 /\ \A i \in 1 .. w - r - 1 : r + 1 + i = r + (i + 1)
      BY <1>1
    <3> QED BY <2>4, <2>5, <3>1
  <2>8. Inside # <<>>
    BY <1>1, <1>2, <2>3, EmptySeq
  <2> QED BY <1>4, <2>1, <2>6, <2>7, <2>8
<1>5. CASE ~PushPublish(p) /\ ~PopAdvance(c)
  BY <1>5 DEF Next, queueVars, OneEach, OnePusher, Observe, ProducerStep,
              ConsumerStep, PushBegin, PushCheck, PushStore, PopBegin, PopCheck, PopLoad
<1> QED BY <1>3, <1>4, <1>5

\* With one thread that pushes and one that pops, every behaviour of the ring is
\* one of a bounded FIFO queue of Size - 1 places: push takes effect at its store
\* to write_pos_, pop at its store to read_pos_ (SPSCQueue.hpp:33-67).
THEOREM QueueIsABoundedQueue ==
  ASSUME NEW p, NEW c, OneEach(p, c)
  PROVE  Spec => Abstract!Init /\ [][Abstract!Next]_(Abstract!vars)
<1>1. Init => Abstract!Init
  <2> SUFFICES ASSUME Init PROVE Queue = <<>> /\ received = <<>>
    BY DEF Abstract!Init, Queue
  <2>1. QueueInv(p, c)
    BY InitQueue DEF OneEach
  <2>2. sent = <<>> /\ received = <<>>
    BY DEF Init
  <2>3. Inside = <<>>
    BY <2>2, EmptySeq DEF Inside
  <2> QED BY <2>1, <2>2, <2>3, QueueIsInside
<1>2. QueueInv(p, c) => Queue = Inside
  BY QueueIsInside
<1>3. QueueInv(p, c) /\ Queue = Inside /\ (Queue = Inside)' /\ [Next]_queueVars
        => [Abstract!Next]_(Abstract!vars)
  <2> SUFFICES ASSUME QueueInv(p, c), Queue = Inside, Queue' = Inside', [Next]_queueVars
               PROVE  [Abstract!Next]_(Abstract!vars)
    OBVIOUS
  <2>1. CASE /\ PushPublish(p) /\ Len(Inside) < Size - 1
             /\ Inside' = Append(Inside, item[p]) /\ item[p] \in Items
             /\ received' = received
    BY <2>1 DEF Abstract!Next, Abstract!Put, Queue
  <2>2. CASE /\ PopAdvance(c) /\ Inside # <<>>
             /\ Inside' = Tail(Inside) /\ received' = Append(received, Head(Inside))
    BY <2>2 DEF Abstract!Next, Abstract!Get, Queue
  <2>3. CASE UNCHANGED <<sent, received>>
    <3>1. Inside' = Inside
      BY <2>3 DEF Inside
    <3> QED BY <2>3, <3>1 DEF Abstract!vars, Queue
  <2> QED BY <2>1, <2>2, <2>3, InsideStep
<1> QED BY <1>1, <1>2, <1>3, QueueInvariant, PTL DEF Spec
=============================================================================
