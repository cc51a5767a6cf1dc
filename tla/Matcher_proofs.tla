---------------------------- MODULE Matcher_proofs ----------------------------
(* Theorems about the order book, for all ids, prices, sizes and clocks, and   *)
(* about the book under matchOrders: trades keep its types, its caches and its *)
(* index, leave no filled order behind, and go on until the book is uncrossed; *)
(* together they are a limit order book with price-time priority.  At the end, *)
(* the memory behind the orders, for callers of the pool who keep the rules.   *)
EXTENDS PooledMatcher, FiniteSetTheorems, SequenceTheorems, NaturalsInduction, TLAPS

-----------------------------------------------------------------------------
(* The ends of a ladder *)

\* A finite ladder that is not empty has a top, from which UpdateBest reads the
\* cached price: a subset without one would have a smaller subset without one.
LEMMA FiniteTop ==
  ASSUME NEW X, X \subseteq Int, IsFiniteSet(X), X # {}, NEW up \in BOOLEAN
  PROVE  \E m \in X : \A x \in X : IF up THEN m >= x ELSE m =< x
<1> DEFINE Over(a, b) == IF up THEN a >= b ELSE a =< b
           Bad == {T \in SUBSET X : T # {} /\ ~ \E m \in T : \A x \in T : Over(m, x)}
<1>1. IsWellFoundedOn(StrictSubsetOrdering(X), SUBSET X)
  BY FS_StrictSubsetOrderingWellFounded, FS_FiniteSubsetsOfFinite
<1>2. SUFFICES Bad = {}
  OBVIOUS
<1>3. SUFFICES ASSUME Bad # {} PROVE FALSE
  OBVIOUS
<1>4. Bad \subseteq SUBSET X
  OBVIOUS
<1>5. PICK T \in Bad : \A U \in Bad : ~(<<U, T>> \in StrictSubsetOrdering(X))
  <2> HIDE DEF Bad
  <2> QED BY <1>1, <1>3, <1>4, WFMin
<1>6. PICK e \in T : TRUE
  OBVIOUS
<1>7. T \ {e} \notin Bad
  <2>1. <<T \ {e}, T>> \in StrictSubsetOrdering(X)
    BY <1>6 DEF StrictSubsetOrdering
  <2> QED BY <1>5, <2>1
<1>8. CASE T \ {e} = {}
  <2>1. \A x \in T : Over(e, x)
    BY <1>6, <1>8
  <2> QED BY <2>1, <1>6
<1>9. CASE T \ {e} # {}
  <2>1. PICK m \in T \ {e} : \A x \in T \ {e} : Over(m, x)
    BY <1>7, <1>9
  <2>2. T \subseteq Int
    OBVIOUS
  <2>3. CASE Over(m, e)
    <3>1. \A x \in T : Over(m, x)
      BY <2>1, <2>2, <2>3
    <3> QED BY <3>1
  <2>4. CASE ~Over(m, e)
    <3>1. \A x \in T : Over(e, x)
      BY <2>1, <2>2, <2>4, <1>6
    <3> QED BY <3>1, <1>6
  <2> QED BY <2>3, <2>4
<1> QED BY <1>8, <1>9

\* TopPrice is an end of the ladder it is taken from (OrderBook.hpp:233-251).
LEMMA TopPriceIsTop ==
  ASSUME NEW X, X \subseteq Int, IsFiniteSet(X), X # {}, NEW s \in Sides
  PROVE  /\ TopPrice(s, X) \in X
         /\ s = "buy" => \A x \in X : TopPrice(s, X) >= x
         /\ s = "sell" => \A x \in X : TopPrice(s, X) =< x
<1>1. \E m \in X : \A x \in X : m >= x
  BY FiniteTop, Zenon
<1>2. \E m \in X : \A x \in X : m =< x
  BY FiniteTop, Zenon
<1> QED BY <1>1, <1>2 DEF TopPrice, Max, Min, Sides

-----------------------------------------------------------------------------
(* Price levels *)

\* Taking one element out of a sequence: the others keep their order.
LEMMA RemoveAtProperties ==
  ASSUME NEW S, NEW q \in Seq(S), NEW i \in 1 .. Len(q)
  PROVE  /\ RemoveAt(q, i) \in Seq(S)
         /\ Len(RemoveAt(q, i)) = Len(q) - 1
         /\ \A j \in 1 .. Len(q) - 1 :
              RemoveAt(q, i)[j] = IF j < i THEN q[j] ELSE q[j + 1]
<1> DEFINE before == SubSeq(q, 1, i - 1)
           after == SubSeq(q, i + 1, Len(q))
<1>1. /\ before \in Seq(S)
      /\ Len(before) = i - 1
      /\ \A j \in 1 .. i - 1 : before[j] = q[j]
  BY SubSeqProperties, ElementOfSeq, LenProperties
<1>2. /\ after \in Seq(S)
      /\ Len(after) = Len(q) - i
      /\ \A j \in 1 .. Len(q) - i : after[j] = q[i + j]
  BY SubSeqProperties, ElementOfSeq, LenProperties
<1>3. RemoveAt(q, i) = before \o after
  BY DEF RemoveAt
<1> HIDE DEF before, after
<1>4. /\ before \o after \in Seq(S)
      /\ Len(before \o after) = Len(before) + Len(after)
      /\ \A j \in 1 .. Len(before) + Len(after) :
           (before \o after)[j] = IF j <= Len(before) THEN before[j] ELSE after[j - Len(before)]
  BY <1>1, <1>2, ConcatProperties
<1>5. Len(q) \in Nat
  BY LenProperties
<1> QED BY <1>1, <1>2, <1>3, <1>4, <1>5

\* removeOrder finds an order with the id when there is one (OrderBook.hpp:27-28).
LEMMA FirstWithId ==
  ASSUME NEW l \in Levels, NEW o \in [Ptrs -> Orders], NEW id, HasId(l, id, o)
  PROVE  /\ IndexOf(l, id, o) \in 1 .. Len(l.orders)
         /\ o[l.orders[IndexOf(l, id, o)]].id = id
<1> DEFINE I == {i \in 1 .. Len(l.orders) : o[l.orders[i]].id = id}
<1>1. Len(l.orders) \in Nat
  BY LenProperties DEF Levels
<1>2. IsFiniteSet(I) /\ I \subseteq Int /\ I # {}
  <2>1. IsFiniteSet(1 .. Len(l.orders))
    BY <1>1, FS_Interval
  <2>2. IsFiniteSet(I)
    BY <2>1, FS_Subset
  <2> QED BY <2>2 DEF HasId
<1>3. Min(I) \in I
  <2>1. \E m \in I : \A x \in I : m =< x
    <3> HIDE DEF I
    <3> QED BY <1>2, FiniteTop, Zenon
  <2> QED BY <2>1 DEF Min
<1> QED BY <1>2, <1>3 DEF IndexOf, SelectInSeq

\* PriceLevel::addOrder keeps a queue of orders and sums quantities (OrderBook.hpp:20-25).
LEMMA LevelAddType ==
  ASSUME NEW l \in Levels, NEW p \in Ptrs, NEW o \in [Ptrs -> Orders]
  PROVE  LevelAdd(l, p, o) \in Levels
<1>1. Append(l.orders, p) \in Seq(Ptrs)
  BY AppendProperties DEF Levels
<1>2. (l.total + o[p].quantity) % QMod \in 0 .. QMod - 1
  BY OrderBookAssumption DEF Levels, Orders
<1> QED BY <1>1, <1>2 DEF LevelAdd, Levels

\* PriceLevel::removeOrder keeps a queue of orders, whether or not it finds the id
\* (OrderBook.hpp:27-43).
LEMMA LevelRemoveType ==
  ASSUME NEW l \in Levels, NEW id, NEW o \in [Ptrs -> Orders]
  PROVE  LevelRemove(l, id, o) \in Levels
<1> DEFINE i == IndexOf(l, id, o)
<1> HIDE DEF i
<1>1. CASE ~HasId(l, id, o)
  BY <1>1 DEF LevelRemove
<1>2. CASE HasId(l, id, o)
  <2>1. i \in 1 .. Len(l.orders)
    BY <1>2, FirstWithId DEF i
  <2>2. RemoveAt(l.orders, i) \in Seq(Ptrs) /\ l.orders[i] \in Ptrs
    <3>1. l.orders \in Seq(Ptrs)
      BY DEF Levels
    <3> QED BY <2>1, <3>1, RemoveAtProperties, ElementOfSeq
  <2>3. (l.total - o[l.orders[i]].quantity) % QMod \in 0 .. QMod - 1
    <3>1. l.total \in Int /\ o[l.orders[i]].quantity \in Int
      BY <2>2 DEF Levels, Orders
    <3> HIDE DEF i
    <3> QED BY <3>1, OrderBookAssumption
  <2>4. LevelRemove(l, id, o) = [orders |-> RemoveAt(l.orders, i),
                                 total |-> (l.total - o[l.orders[i]].quantity) % QMod]
    BY <1>2 DEF LevelRemove, i
  <2> QED BY <2>2, <2>3, <2>4 DEF Levels
<1> QED BY <1>1, <1>2

-----------------------------------------------------------------------------
(* The book's operations keep its type *)

LaddersFinite(b) == \A s \in Sides : IsFiniteSet(b.keys[s])

TypedBook(b) == b \in Books /\ LaddersFinite(b)

\* Prices are the fixed-point integers of Types.hpp, so they compare as integers.
LEMMA PricesAreIntegers == AnyPrice \subseteq Int
BY OrderBookAssumption DEF AnyPrice

\* updateBestPrices writes two prices and leaves the rest of the book typed
\* (OrderBook.hpp:233-251).
LEMMA UpdateBestType ==
  ASSUME NEW b, TypedBook(b), NEW s \in Sides
  PROVE  TypedBook(UpdateBest(b, s))
<1> DEFINE top == IF b.keys[s] = {} THEN 0 ELSE TopPrice(s, b.keys[s])
<1>1. b.keys[s] \subseteq AnyPrice /\ IsFiniteSet(b.keys[s])
  BY DEF TypedBook, LaddersFinite, Books
<1>2. top \in AnyPrice
  <2>1. CASE b.keys[s] = {}
    BY <2>1 DEF AnyPrice
  <2>2. CASE b.keys[s] # {}
    BY <2>2, <1>1, TopPriceIsTop, PricesAreIntegers
  <2> QED BY <2>1, <2>2
<1>3. UpdateBest(b, s) = [b EXCEPT !.best[s] = top]
  BY DEF UpdateBest
<1> HIDE DEF top
<1>4. UpdateBest(b, s) \in Books
  <2>1. b \in Books /\ b.best \in [Sides -> AnyPrice]
    BY DEF TypedBook, Books
  <2>2. [b.best EXCEPT ![s] = top] \in [Sides -> AnyPrice]
    BY <1>2, <2>1
  <2>3. UpdateBest(b, s) = [b EXCEPT !.best = [b.best EXCEPT ![s] = top]]
    BY <1>3
  <2> QED BY <2>1, <2>2, <2>3 DEF Books
<1>5. UpdateBest(b, s).keys = b.keys
  BY <1>3 DEF TypedBook, Books
<1> QED BY <1>4, <1>5 DEF TypedBook, LaddersFinite

\* The insertion of addOrder keeps the book typed and its ladders finite
\* (OrderBook.hpp:94-115).
LEMMA InsertType ==
  ASSUME NEW b, TypedBook(b), NEW o \in [Ptrs -> Orders], NEW p \in Ptrs
  PROVE  TypedBook(Insert(b, o, p))
<1> DEFINE s == o[p].side
           x == o[p].price
           id == o[p].id
           c == [b EXCEPT !.order_map[id] = p,
                          !.keys[s] = @ \cup {x},
                          !.levels[s][x] = LevelAdd(@, p, o)]
<1>1. s \in Sides /\ x \in AnyPrice /\ id \in AnyId
  BY DEF Orders
<1>2. LevelAdd(b.levels[s][x], p, o) \in Levels
  BY <1>1, LevelAddType DEF TypedBook, Books
<1>3. IsFiniteSet(b.keys[s] \cup {x})
  BY <1>1, FS_AddElement DEF TypedBook, LaddersFinite
<1>4. Insert(b, o, p) = UpdateBest(c, s)
  BY DEF Insert
<1> HIDE DEF s, x, id
<1>5. TypedBook(c)
  BY <1>1, <1>2, <1>3 DEF TypedBook, LaddersFinite, Books
<1> QED BY <1>1, <1>4, <1>5, UpdateBestType

\* The removal of cancelOrder, erased level included, keeps the book typed
\* (OrderBook.hpp:117-147).
LEMMA EraseType ==
  ASSUME NEW b, TypedBook(b), NEW o \in [Ptrs -> Orders], NEW id \in AnyId,
         b.order_map[id] # NoOrder
  PROVE  TypedBook(Erase(b, o, id))
<1> DEFINE s == o[b.order_map[id]].side
           x == o[b.order_map[id]].price
           l == LevelRemove(b.levels[s][x], id, o)
           c == [b EXCEPT !.order_map[id] = IF HasId(b.levels[s][x], id, o) THEN NoOrder ELSE @,
                          !.keys[s] = IF l.orders = <<>> THEN @ \ {x} ELSE @,
                          !.levels[s][x] = IF l.orders = <<>> THEN EmptyLevel ELSE l]
<1>1. s \in Sides /\ x \in AnyPrice
  BY DEF TypedBook, Books, Orders
<1>2. l \in Levels
  BY <1>1, LevelRemoveType DEF TypedBook, Books
<1>3. EmptyLevel \in Levels
  BY OrderBookAssumption, EmptySeq DEF EmptyLevel, Levels
<1>4. IsFiniteSet(b.keys[s] \ {x})
  BY <1>1, FS_RemoveElement DEF TypedBook, LaddersFinite
<1>5. Erase(b, o, id) = UpdateBest(c, s)
  BY DEF Erase
<1> HIDE DEF s, x, l
<1>6. TypedBook(c)
  BY <1>1, <1>2, <1>3, <1>4 DEF TypedBook, LaddersFinite, Books
<1> QED BY <1>1, <1>5, <1>6, UpdateBestType

\* cancelOrder keeps the book typed, for known and unknown ids (OrderBook.hpp:117-147).
LEMMA CancelOrderType ==
  ASSUME NEW b, TypedBook(b), NEW o \in [Ptrs -> Orders], NEW id \in AnyId
  PROVE  TypedBook(CancelOrder(b, o, id))
BY EraseType DEF CancelOrder

\* addOrder keeps the book typed, for any order a caller can pass (OrderBook.hpp:83-115).
LEMMA SubmitType ==
  ASSUME NEW b, TypedBook(b), NEW o \in [Ptrs -> Orders], NEW p \in Ptrs
  PROVE  TypedBook(Submit(b, o, p))
BY InsertType DEF Submit

-----------------------------------------------------------------------------
(* Type correctness *)

TypeInv == TypeOK /\ LaddersFinite(book)

\* A book just constructed is empty and typed.
LEMMA InitType == Init => TypeInv
<1> SUFFICES ASSUME Init PROVE TypeInv
  OBVIOUS
<1> USE DEF Init
<1>1. ZeroOrder \in Orders
  BY OrderBookAssumption DEF ZeroOrder, Orders, AnyId, AnyPrice, Sides
<1>2. EmptyLevel \in Levels
  BY OrderBookAssumption, EmptySeq DEF EmptyLevel, Levels
<1>3. EmptyBook \in Books
  BY <1>2 DEF EmptyBook, Books, AnyPrice
<1>4. LaddersFinite(EmptyBook)
  BY FS_EmptySet DEF EmptyBook, LaddersFinite
<1> QED BY <1>1, <1>3, <1>4, OrderBookAssumption DEF TypeInv, TypeOK

\* What a caller passes in is an order, before and after it is stamped.
LEMMA NewOrderType ==
  ASSUME TypeInv, NEW o \in NewOrders
  PROVE  o \in Orders
<1>1. Stamps \subseteq Nat
  BY DEF Stamps, TypeInv, TypeOK
<1> QED BY <1>1, OrderBookAssumption DEF NewOrders, Orders, AnyId, AnyPrice

\* One step per public operation of the book, each by its own lemma above.
LEMMA NextType == TypeInv /\ [BookNext]_bookVars => TypeInv'
<1> SUFFICES ASSUME TypeInv, [BookNext]_bookVars PROVE TypeInv'
  OBVIOUS
<1>1. TypedBook(book) /\ ord \in [Ptrs -> Orders]
  BY DEF TypeInv, TypeOK, TypedBook
<1>2. ReadClock => clock' \in Nat \ {0}
  BY OrderBookAssumption DEF ReadClock, TypeInv, TypeOK
<1>3. Count => calls' \in 0 .. MaxCalls
  BY OrderBookAssumption DEF Count, TypeInv, TypeOK
<1>4. ASSUME NEW p \in Ptrs, NEW o \in NewOrders, AddOrder(p, o)
      PROVE  TypeInv'
  <2> DEFINE stamped == [o EXCEPT !.timestamp = IF @ = 0 THEN clock' ELSE @]
  <2>1. o \in Orders
    BY <1>4, NewOrderType
  <2>2. stamped \in Orders
    BY <1>2, <1>4, <2>1 DEF AddOrder, Orders
  <2>3. ord' \in [Ptrs -> Orders]
    <3>1. ord' = [ord EXCEPT ![p] = IF o.quantity = 0 THEN o ELSE stamped]
      BY <1>4 DEF AddOrder
    <3> HIDE DEF stamped
    <3> QED BY <1>1, <2>1, <2>2, <3>1
  <2>4. TypedBook(book')
    BY <1>1, <1>4, <2>3, SubmitType DEF AddOrder
  <2>5. entry' \in [Ptrs -> 0 .. MaxCalls]
    BY <1>3, <1>4 DEF AddOrder, TypeInv, TypeOK
  <2> QED BY <1>2, <1>3, <1>4, <2>3, <2>4, <2>5 DEF AddOrder, TypeInv, TypeOK, TypedBook
<1>5. ASSUME NEW id \in Ids, Cancel(id)
      PROVE  TypeInv'
  <2>1. TypedBook(book')
    BY <1>1, <1>5, CancelOrderType DEF Cancel, AnyId
  <2> QED BY <1>5, <2>1 DEF Cancel, TypeInv, TypeOK, TypedBook
<1>6. ASSUME NEW id \in Ids, NEW x \in Prices, NEW q \in Sizes, ModifyOrder(id, x, q)
      PROVE  TypeInv'
  <2> DEFINE p == book.order_map[id]
  <2>1. p \in Ptrs
    BY <1>1, <1>6 DEF ModifyOrder, TypedBook, Books, AnyId
  <2>2. ord' \in [Ptrs -> Orders]
    <3>1. /\ ReadClock
          /\ ord' = [ord EXCEPT ![p].price = x, ![p].quantity = q, ![p].timestamp = clock']
      BY <1>6 DEF ModifyOrder
    <3>2. clock' \in Nat /\ x \in AnyPrice /\ q \in 0 .. QMod - 1
      BY <1>2, <3>1, OrderBookAssumption DEF AnyPrice
    <3> DEFINE amended == [ord[p] EXCEPT !.price = x, !.quantity = q, !.timestamp = clock']
    <3>3. ord[p] \in Orders
      BY <1>1, <2>1
    <3>4. amended \in Orders
      <4> DEFINE priced == [ord[p] EXCEPT !.price = x]
                 sized == [priced EXCEPT !.quantity = q]
      <4>1. priced \in Orders
        BY <3>2, <3>3 DEF Orders
      <4>2. sized \in Orders
        <5> HIDE DEF priced
        <5> QED BY <3>2, <4>1 DEF Orders
      <4>3. amended = [sized EXCEPT !.timestamp = clock']
        BY <3>3 DEF Orders
      <4> HIDE DEF sized, amended
      <4> QED BY <3>2, <4>2, <4>3 DEF Orders
    <3>5. ord' = [ord EXCEPT ![p] = amended]
      BY <1>1, <2>1, <3>1, Zenon
    <3> QED BY <1>1, <2>1, <3>4, <3>5
  <2>3. TypedBook(CancelOrder(book, ord, id))
    BY <1>1, CancelOrderType DEF AnyId
  <2>4. TypedBook(book')
    BY <1>6, <2>1, <2>2, <2>3, SubmitType DEF ModifyOrder
  <2>5. entry' \in [Ptrs -> 0 .. MaxCalls]
    BY <1>3, <1>6 DEF ModifyOrder, TypeInv, TypeOK
  <2> QED BY <1>2, <1>3, <1>6, <2>2, <2>4, <2>5 DEF ModifyOrder, TypeInv, TypeOK, TypedBook
<1>7. CASE UNCHANGED bookVars
  BY <1>7 DEF bookVars, TypeInv, TypeOK, LaddersFinite
<1> QED BY <1>4, <1>5, <1>6, <1>7 DEF BookNext

\* Whatever its callers do, ids reused and stamps of their own included, the
\* book keeps the types of Order, PriceLevel and OrderBook (OrderBook.hpp:83-169).
THEOREM BookTypeCorrect == BookSpec => []TypeOK
<1>1. BookSpec => []TypeInv
  BY InitType, NextType, PTL DEF BookSpec
<1>2. TypeInv => TypeOK
  BY DEF TypeInv
<1> QED BY <1>1, <1>2, PTL

-----------------------------------------------------------------------------
(* The cached best prices *)

CacheIsCurrentOn(b, s) ==
  b.best[s] = IF b.keys[s] = {} THEN 0 ELSE TopPrice(s, b.keys[s])

LadderInv(b) == TypedBook(b) /\ NoEmptyLevel(b) /\ CacheIsCurrent(b)

\* Every ladder operation ends with UpdateBest: what it has to leave right is
\* the keys of both sides, and the cache of the side it did not touch.
LEMMA UpdateBestLadder ==
  ASSUME NEW b, TypedBook(b), NoEmptyLevel(b), NEW s \in Sides,
         \A r \in Sides \ {s} : CacheIsCurrentOn(b, r)
  PROVE  LadderInv(UpdateBest(b, s))
<1> DEFINE u == UpdateBest(b, s)
           top == IF b.keys[s] = {} THEN 0 ELSE TopPrice(s, b.keys[s])
<1>1. TypedBook(u)
  BY UpdateBestType
<1>2. u.keys = b.keys /\ u.levels = b.levels
  BY DEF TypedBook, Books, UpdateBest
<1>3. u.best = [b.best EXCEPT ![s] = top]
  BY DEF TypedBook, Books, UpdateBest
<1>4. NoEmptyLevel(u)
  BY <1>2 DEF NoEmptyLevel, At
<1>5. ASSUME NEW r \in Sides PROVE CacheIsCurrentOn(u, r)
  <2>1. b.best \in [Sides -> AnyPrice]
    BY DEF TypedBook, Books
  <2>2. CASE r = s
    BY <1>2, <1>3, <2>1, <2>2 DEF CacheIsCurrentOn
  <2>3. CASE r # s
    <3>1. u.best[r] = b.best[r]
      BY <1>3, <2>1, <2>3
    <3> HIDE DEF u
    <3> QED BY <1>2, <2>3, <3>1 DEF CacheIsCurrentOn
  <2> QED BY <2>2, <2>3
<1>6. CacheIsCurrent(u)
  BY <1>5 DEF CacheIsCurrent, CacheIsCurrentOn
<1> QED BY <1>1, <1>4, <1>6 DEF LadderInv

\* addOrder never leaves an empty level, and refreshes the cache
\* (OrderBook.hpp:94-115).
LEMMA InsertLadder ==
  ASSUME NEW b, LadderInv(b), NEW o \in [Ptrs -> Orders], NEW p \in Ptrs
  PROVE  LadderInv(Insert(b, o, p))
<1> DEFINE s == o[p].side
           x == o[p].price
           id == o[p].id
           l == LevelAdd(b.levels[s][x], p, o)
           c == [b EXCEPT !.order_map[id] = p,
                          !.keys[s] = @ \cup {x},
                          !.levels[s][x] = LevelAdd(@, p, o)]
<1>1. s \in Sides /\ x \in AnyPrice /\ id \in AnyId
  BY DEF Orders
<1>2. b \in Books /\ TypedBook(b) /\ b.levels[s][x] \in Levels
  BY <1>1 DEF LadderInv, TypedBook, Books
<1>3. l \in Levels /\ l.orders # <<>>
  <2> DEFINE old == b.levels[s][x]
  <2>1. old \in Levels
    BY <1>2
  <2> HIDE DEF old
  <2>2. LevelAdd(old, p, o) \in Levels
    BY <2>1, LevelAddType
  <2>3. old.orders \in Seq(Ptrs)
    BY <2>1 DEF Levels
  <2>4. Append(old.orders, p) # <<>>
    BY <2>3, AppendProperties
  <2>5. LevelAdd(old, p, o).orders # <<>>
    BY <2>4 DEF LevelAdd
  <2> QED BY <2>2, <2>5 DEF old
<1>4. IsFiniteSet(b.keys[s] \cup {x})
  BY <1>1, FS_AddElement DEF LadderInv, TypedBook, LaddersFinite
<1>5. Insert(b, o, p) = UpdateBest(c, s)
  BY DEF Insert
<1>6. /\ c.keys = [b.keys EXCEPT ![s] = @ \cup {x}]
      /\ c.levels = [b.levels EXCEPT ![s] = [@ EXCEPT ![x] = l]]
      /\ c.best = b.best
  BY <1>2 DEF Books
<1> HIDE DEF s, x, id, l
<1>7. TypedBook(c)
  BY <1>1, <1>2, <1>3, <1>4 DEF TypedBook, LaddersFinite, Books, l
<1> HIDE DEF c
<1>8. NoEmptyLevel(c)
  BY <1>1, <1>2, <1>3, <1>6 DEF LadderInv, NoEmptyLevel, At, Books
<1>9. \A r \in Sides \ {s} : CacheIsCurrentOn(c, r)
  BY <1>1, <1>2, <1>6 DEF LadderInv, CacheIsCurrent, CacheIsCurrentOn, Books
<1> QED BY <1>1, <1>5, <1>7, <1>8, <1>9, UpdateBestLadder

\* cancelOrder erases the level it empties, and refreshes the cache
\* (OrderBook.hpp:117-147).
LEMMA EraseLadder ==
  ASSUME NEW b, LadderInv(b), NEW o \in [Ptrs -> Orders], NEW id \in AnyId,
         b.order_map[id] # NoOrder
  PROVE  LadderInv(Erase(b, o, id))
<1> DEFINE s == o[b.order_map[id]].side
           x == o[b.order_map[id]].price
           l == LevelRemove(b.levels[s][x], id, o)
           m == IF l.orders = <<>> THEN EmptyLevel ELSE l
           k == IF l.orders = <<>> THEN b.keys[s] \ {x} ELSE b.keys[s]
           c == [b EXCEPT !.order_map[id] = IF HasId(b.levels[s][x], id, o) THEN NoOrder ELSE @,
                          !.keys[s] = IF l.orders = <<>> THEN @ \ {x} ELSE @,
                          !.levels[s][x] = IF l.orders = <<>> THEN EmptyLevel ELSE l]
<1>1. b \in Books /\ TypedBook(b)
  BY DEF LadderInv, TypedBook
<1>2. s \in Sides /\ x \in AnyPrice
  BY <1>1 DEF Books, Orders
<1>3. l \in Levels /\ m \in Levels
  <2>1. EmptyLevel \in Levels
    BY OrderBookAssumption, EmptySeq DEF EmptyLevel, Levels
  <2> QED BY <1>1, <1>2, <2>1, LevelRemoveType DEF Books
<1>4. m.orders = <<>> <=> l.orders = <<>>
  BY DEF EmptyLevel
<1>5. IsFiniteSet(k)
  BY <1>2, FS_RemoveElement DEF LadderInv, TypedBook, LaddersFinite
<1>6. Erase(b, o, id) = UpdateBest(c, s)
  BY DEF Erase
<1>7. l.orders # <<>> => x \in b.keys[s]
  <2>1. b.levels[s][x].orders = <<>> => l.orders = <<>>
    <3> DEFINE old == b.levels[s][x]
    <3>1. ASSUME old.orders = <<>> PROVE LevelRemove(old, id, o) = old
      <4> HIDE DEF old
      <4>1. Len(old.orders) = 0
        BY <3>1, EmptySeq
      <4>2. ~HasId(old, id, o)
        BY <4>1 DEF HasId
      <4> QED BY <4>2 DEF LevelRemove
    <3> QED BY <3>1 DEF l
  <2> QED BY <1>1, <1>2, <2>1 DEF LadderInv, NoEmptyLevel, At, Books
<1>8. /\ c.keys = [b.keys EXCEPT ![s] = k]
      /\ c.levels = [b.levels EXCEPT ![s] = [@ EXCEPT ![x] = m]]
      /\ c.best = b.best
  BY <1>1 DEF Books
<1>9. TypedBook(c)
  <2> HIDE DEF s, x, l
  <2> QED BY <1>1, <1>2, <1>3, <1>5 DEF TypedBook, LaddersFinite, Books
<1>10. k \in SUBSET AnyPrice /\ (x \in k <=> l.orders # <<>>)
       /\ \A y \in AnyPrice \ {x} : y \in k <=> y \in b.keys[s]
  BY <1>1, <1>2, <1>7 DEF Books
<1> HIDE DEF s, x, l, m, k, c
<1>11. NoEmptyLevel(c)
  BY <1>1, <1>2, <1>3, <1>4, <1>8, <1>10 DEF LadderInv, NoEmptyLevel, At, Books
<1>12. \A r \in Sides \ {s} : CacheIsCurrentOn(c, r)
  BY <1>1, <1>2, <1>8 DEF LadderInv, CacheIsCurrent, CacheIsCurrentOn, Books
<1> QED BY <1>2, <1>6, <1>9, <1>11, <1>12, UpdateBestLadder

\* cancelOrder as a whole: an unknown id changes nothing (OrderBook.hpp:117-123).
LEMMA CancelOrderLadder ==
  ASSUME NEW b, LadderInv(b), NEW o \in [Ptrs -> Orders], NEW id \in AnyId
  PROVE  LadderInv(CancelOrder(b, o, id))
BY EraseLadder DEF CancelOrder

\* addOrder as a whole: the stamp it may set does not touch the ladders.
LEMMA SubmitLadder ==
  ASSUME NEW b, LadderInv(b), NEW o \in [Ptrs -> Orders], NEW p \in Ptrs
  PROVE  LadderInv(Submit(b, o, p))
BY InsertLadder DEF Submit

\* The ladders of a new book are empty and its cache holds the two sentinels.
LEMMA InitLadder == Init => LadderInv(book)
<1> SUFFICES ASSUME Init PROVE LadderInv(book)
  OBVIOUS
<1>1. TypedBook(book)
  BY InitType DEF TypeInv, TypeOK, TypedBook
<1> QED BY <1>1 DEF Init, EmptyBook, EmptyLevel, LadderInv, NoEmptyLevel, CacheIsCurrent, At

\* One step per public operation of the book keeps the ladders and the cache right.
LEMMA NextLadder ==
  TypeInv /\ TypeInv' /\ LadderInv(book) /\ [BookNext]_bookVars => LadderInv(book)'
<1> SUFFICES ASSUME TypeInv, TypeInv', LadderInv(book), [BookNext]_bookVars
             PROVE  LadderInv(book')
  BY DEF LadderInv, TypedBook, LaddersFinite, NoEmptyLevel, CacheIsCurrent, At
<1>1. ord \in [Ptrs -> Orders] /\ ord' \in [Ptrs -> Orders]
  BY DEF TypeInv, TypeOK
<1>2. ASSUME NEW p \in Ptrs, NEW o \in NewOrders, AddOrder(p, o)
      PROVE  LadderInv(book')
  BY <1>1, <1>2, SubmitLadder DEF AddOrder
<1>3. ASSUME NEW id \in Ids, Cancel(id)
      PROVE  LadderInv(book')
  BY <1>1, <1>3, CancelOrderLadder DEF Cancel, AnyId
<1>4. ASSUME NEW id \in Ids, NEW x \in Prices, NEW q \in Sizes, ModifyOrder(id, x, q)
      PROVE  LadderInv(book')
  <2>1. LadderInv(CancelOrder(book, ord, id))
    BY <1>1, CancelOrderLadder DEF AnyId
  <2>2. book.order_map[id] \in Ptrs
    BY <1>4 DEF ModifyOrder, LadderInv, TypedBook, Books, AnyId
  <2> QED BY <1>1, <1>4, <2>1, <2>2, SubmitLadder DEF ModifyOrder
<1>5. CASE UNCHANGED bookVars
  BY <1>5 DEF bookVars
<1> QED BY <1>2, <1>3, <1>4, <1>5 DEF BookNext

\* Whatever its callers do, no ladder keeps an empty level, and the cached best
\* prices are the tops of the ladders (OrderBook.hpp:94-147,233-251).
THEOREM BookBestPricesCurrent == BookSpec => []BestPricesAreCurrent
<1> DEFINE I == TypeInv /\ LadderInv(book)
<1>1. Init => I
  BY InitType, InitLadder
<1>2. I /\ [BookNext]_bookVars => I'
  BY NextType, NextLadder
<1>3. I => BestPricesAreCurrent
  BY DEF LadderInv, BestPricesAreCurrent
<1> QED BY <1>1, <1>2, <1>3, PTL DEF BookSpec


-----------------------------------------------------------------------------
(* The id index and the ladders hold the same orders, as long as no caller adds *)
(* an order under an id that the book already holds.                           *)

Holds(b, p) ==
  \E s \in Sides, x \in AnyPrice : \E i \in 1 .. Len(At(b, s, x)) : At(b, s, x)[i] = p

Index(b, o) == LevelsAreIndexed(b, o) /\ IndexIsInLevels(b, o) /\ NoOrderTwice(b)

\* What lies in a level is an order of a queue, reached by its position.
LEMMA LevelSeq ==
  ASSUME NEW b, TypedBook(b), NEW s \in Sides, NEW x \in AnyPrice
  PROVE  /\ At(b, s, x) \in Seq(Ptrs)
         /\ Len(At(b, s, x)) \in Nat
         /\ \A i \in 1 .. Len(At(b, s, x)) : At(b, s, x)[i] \in Ptrs
<1>1. At(b, s, x) \in Seq(Ptrs)
  BY DEF TypedBook, Books, Levels, At
<1> QED BY <1>1, ElementOfSeq, LenProperties

\* An order rests in the book when some level of some side holds it.
LEMMA RestingIsHeld ==
  ASSUME NEW b, TypedBook(b), NEW p, Holds(b, p)
  PROVE  p \in Resting(b)
<1>1. PICK s \in Sides, x \in AnyPrice :
        \E i \in 1 .. Len(At(b, s, x)) : At(b, s, x)[i] = p
  BY DEF Holds
<1>2. PICK i \in 1 .. Len(At(b, s, x)) : At(b, s, x)[i] = p
  BY <1>1
<1>3. DOMAIN At(b, s, x) = 1 .. Len(At(b, s, x))
  BY LevelSeq, LenProperties
<1>4. p \in ToSet(At(b, s, x))
  BY <1>2, <1>3 DEF ToSet
<1> QED BY <1>4 DEF Resting, RestingOn, Sides, At

\* The index only looks at the ladders and the map, and at what names an order
\* and puts it in a ladder: quantities and stamps may change.
LEMMA IndexFrame ==
  ASSUME NEW b, TypedBook(b), NEW o \in [Ptrs -> Orders], Index(b, o),
         NEW c, c.levels = b.levels, c.order_map = b.order_map,
         NEW o2 \in [Ptrs -> Orders],
         \A p \in Ptrs : Holds(b, p) => /\ o2[p].id = o[p].id
                                        /\ o2[p].side = o[p].side
                                        /\ o2[p].price = o[p].price
  PROVE  Index(c, o2)
<1>1. \A s \in Sides, x \in AnyPrice : At(c, s, x) = At(b, s, x)
  BY DEF At
<1>2. LevelsAreIndexed(c, o2)
  BY <1>1, LevelSeq DEF Index, LevelsAreIndexed, Holds
<1>3. IndexIsInLevels(c, o2)
  <2> SUFFICES ASSUME NEW id \in AnyId, c.order_map[id] # NoOrder
               PROVE  LET p == c.order_map[id]
                      IN  o2[p].id = id /\ \E i \in 1 .. Len(At(c, o2[p].side, o2[p].price)) :
                                             At(c, o2[p].side, o2[p].price)[i] = p
    BY DEF IndexIsInLevels
  <2> DEFINE p == b.order_map[id]
  <2>1. p \in Ptrs /\ o[p].side \in Sides /\ o[p].price \in AnyPrice
    BY DEF TypedBook, Books, Orders
  <2>2. o[p].id = id /\ \E i \in 1 .. Len(At(b, o[p].side, o[p].price)) :
                          At(b, o[p].side, o[p].price)[i] = p
    BY DEF Index, IndexIsInLevels
  <2>3. Holds(b, p)
    BY <2>1, <2>2 DEF Holds
  <2>4. o2[p].id = id /\ o2[p].side = o[p].side /\ o2[p].price = o[p].price
    BY <2>1, <2>2, <2>3
  <2>5. At(c, o2[p].side, o2[p].price) = At(b, o[p].side, o[p].price)
    BY <1>1, <2>1, <2>4
  <2>6. c.order_map[id] = p
    OBVIOUS
  <2> HIDE DEF p
  <2> QED BY <2>2, <2>4, <2>5, <2>6
<1>4. NoOrderTwice(c)
  BY <1>1 DEF Index, NoOrderTwice
<1> QED BY <1>2, <1>3, <1>4 DEF Index

\* updateBestPrices touches neither the ladders nor the map (OrderBook.hpp:233-251).
LEMMA UpdateBestFrame ==
  ASSUME NEW b, TypedBook(b), NEW s
  PROVE  UpdateBest(b, s).levels = b.levels /\ UpdateBest(b, s).order_map = b.order_map
BY DEF UpdateBest, TypedBook, Books

\* addOrder of an order that is not in the book, under a free id.
LEMMA InsertIndex ==
  ASSUME NEW b, TypedBook(b), NEW o \in [Ptrs -> Orders], Index(b, o),
         NEW p \in Ptrs, ~Holds(b, p), b.order_map[o[p].id] = NoOrder
  PROVE  Index(Insert(b, o, p), o)
<1> DEFINE s == o[p].side
           x == o[p].price
           id == o[p].id
           l == LevelAdd(b.levels[s][x], p, o)
           c == Insert(b, o, p)
           n == Len(At(b, s, x))
<1>1. s \in Sides /\ x \in AnyPrice /\ id \in AnyId
  BY DEF Orders
<1>2. /\ c.levels = [b.levels EXCEPT ![s] = [@ EXCEPT ![x] = l]]
      /\ c.order_map = [b.order_map EXCEPT ![id] = p]
  BY DEF Insert, UpdateBest, TypedBook, Books
<1>3. l.orders = Append(At(b, s, x), p)
  BY DEF LevelAdd, At
<1>4. b.levels \in [Sides -> [AnyPrice -> Levels]] /\ b.order_map \in [AnyId -> Ptrs \cup {NoOrder}]
  BY DEF TypedBook, Books
<1> HIDE DEF s, x, id, l, c
<1>5. /\ At(c, s, x) = Append(At(b, s, x), p)
      /\ \A r \in Sides, y \in AnyPrice : r # s \/ y # x => At(c, r, y) = At(b, r, y)
  <2>1. \A r \in Sides, y \in AnyPrice :
          c.levels[r][y] = IF r = s /\ y = x THEN l ELSE b.levels[r][y]
    BY <1>1, <1>2, <1>4
  <2> QED BY <1>1, <1>3, <2>1 DEF At
<1>6. /\ n \in Nat
      /\ Len(At(c, s, x)) = n + 1
      /\ \A i \in 1 .. n : At(c, s, x)[i] = At(b, s, x)[i]
      /\ At(c, s, x)[n + 1] = p
  BY <1>1, <1>5, LevelSeq, AppendProperties
<1> HIDE DEF n
<1>7. \A r \in Sides, y \in AnyPrice : \A i \in 1 .. Len(At(b, r, y)) :
        /\ At(b, r, y)[i] \in Ptrs /\ At(b, r, y)[i] # p
        /\ o[At(b, r, y)[i]].id # id
  <2> SUFFICES ASSUME NEW r \in Sides, NEW y \in AnyPrice, NEW i \in 1 .. Len(At(b, r, y))
               PROVE  /\ At(b, r, y)[i] \in Ptrs /\ At(b, r, y)[i] # p
                      /\ o[At(b, r, y)[i]].id # id
    OBVIOUS
  <2>1. At(b, r, y)[i] \in Ptrs /\ At(b, r, y)[i] # p
    BY LevelSeq DEF Holds
  <2>2. b.order_map[o[At(b, r, y)[i]].id] = At(b, r, y)[i]
    BY DEF Index, LevelsAreIndexed
  <2> QED BY <2>1, <2>2, OrderBookAssumption DEF id
<1>8. LevelsAreIndexed(c, o)
  <2> SUFFICES ASSUME NEW r \in Sides, NEW y \in AnyPrice, NEW i \in 1 .. Len(At(c, r, y))
               PROVE  LET q == At(c, r, y)[i]
                      IN  o[q].side = r /\ o[q].price = y /\ c.order_map[o[q].id] = q
    BY DEF LevelsAreIndexed
  <2>1. CASE r = s /\ y = x /\ i = n + 1
    BY <1>1, <1>2, <1>4, <1>6, <2>1 DEF s, x, id
  <2>2. CASE ~(r = s /\ y = x /\ i = n + 1)
    <3>1. i \in 1 .. Len(At(b, r, y)) /\ At(c, r, y)[i] = At(b, r, y)[i]
      BY <1>5, <1>6, <2>2 DEF n
    <3>2. LET q == At(b, r, y)[i]
          IN  o[q].side = r /\ o[q].price = y /\ b.order_map[o[q].id] = q
      BY <3>1 DEF Index, LevelsAreIndexed
    <3>3. o[At(b, r, y)[i]].id \in AnyId /\ o[At(b, r, y)[i]].id # id
      BY <1>7, <3>1 DEF Orders
    <3> QED BY <1>1, <1>2, <1>4, <3>1, <3>2, <3>3
  <2> QED BY <2>1, <2>2
<1>9. IndexIsInLevels(c, o)
  <2> SUFFICES ASSUME NEW k \in AnyId, c.order_map[k] # NoOrder
               PROVE  LET q == c.order_map[k]
                      IN  o[q].id = k /\ \E i \in 1 .. Len(At(c, o[q].side, o[q].price)) :
                                           At(c, o[q].side, o[q].price)[i] = q
    BY DEF IndexIsInLevels
  <2>1. CASE k = id
    <3>1. c.order_map[k] = p
      BY <1>1, <1>2, <1>4, <2>1
    <3>2. n + 1 \in 1 .. Len(At(c, s, x))
      BY <1>6
    <3> QED BY <1>6, <2>1, <3>1, <3>2 DEF s, x, id
  <2>2. CASE k # id
    <3> DEFINE q == b.order_map[k]
    <3>1. c.order_map[k] = q
      BY <1>1, <1>2, <1>4, <2>2
    <3>2. q \in Ptrs /\ o[q].side \in Sides /\ o[q].price \in AnyPrice
      BY <1>4, <3>1 DEF Orders
    <3>3. o[q].id = k /\ \E i \in 1 .. Len(At(b, o[q].side, o[q].price)) :
                           At(b, o[q].side, o[q].price)[i] = q
      BY <3>1 DEF Index, IndexIsInLevels
    <3>4. \A i \in 1 .. Len(At(b, o[q].side, o[q].price)) :
            /\ i \in 1 .. Len(At(c, o[q].side, o[q].price))
            /\ At(c, o[q].side, o[q].price)[i] = At(b, o[q].side, o[q].price)[i]
      BY <1>5, <1>6, <3>2 DEF n
    <3> QED BY <3>1, <3>3, <3>4
  <2> QED BY <2>1, <2>2
<1>10. NoOrderTwice(c)
  <2> SUFFICES ASSUME NEW r \in Sides, NEW y \in AnyPrice,
                      NEW i \in 1 .. Len(At(c, r, y)), NEW j \in 1 .. Len(At(c, r, y)),
                      At(c, r, y)[i] = At(c, r, y)[j]
               PROVE  i = j
    BY DEF NoOrderTwice
  <2>1. CASE r = s /\ y = x
    BY <1>6, <1>7, <2>1 DEF Index, NoOrderTwice, n
  <2>2. CASE r # s \/ y # x
    BY <1>5, <2>2 DEF Index, NoOrderTwice
  <2> QED BY <2>1, <2>2
<1> QED BY <1>8, <1>9, <1>10 DEF Index, c

\* cancelOrder of a known id: the order is found in its level and is gone from
\* the book, from the ladders as from the map.
LEMMA CancelOrderIndex ==
  ASSUME NEW b, LadderInv(b), NEW o \in [Ptrs -> Orders], Index(b, o),
         NEW id \in AnyId, b.order_map[id] # NoOrder
  PROVE  /\ Index(CancelOrder(b, o, id), o)
         /\ CancelOrder(b, o, id).order_map[id] = NoOrder
         /\ ~Holds(CancelOrder(b, o, id), b.order_map[id])
<1> DEFINE p == b.order_map[id]
           s == o[p].side
           x == o[p].price
           l == b.levels[s][x]
           k == IndexOf(l, id, o)
           m == LevelRemove(l, id, o)
           c == CancelOrder(b, o, id)
           n == Len(At(b, s, x))
<1>1. /\ b \in Books /\ TypedBook(b)
      /\ b.levels \in [Sides -> [AnyPrice -> Levels]]
      /\ b.order_map \in [AnyId -> Ptrs \cup {NoOrder}]
  BY DEF LadderInv, TypedBook, Books
<1>2. p \in Ptrs /\ s \in Sides /\ x \in AnyPrice /\ l \in Levels
  BY <1>1 DEF Orders
<1>3. o[p].id = id /\ \E i \in 1 .. n : At(b, s, x)[i] = p
  BY DEF Index, IndexIsInLevels
<1>4. HasId(l, id, o) /\ At(b, s, x) = l.orders /\ n \in Nat /\ n # 0
  <2>1. At(b, s, x) = l.orders
    BY DEF At
  <2> HIDE DEF p, s, x, l
  <2>2. n \in Nat
    BY <1>1, <1>2, LevelSeq
  <2>3. n # 0
    BY <1>3, <2>2
  <2>4. HasId(l, id, o)
    BY <1>3, <2>1 DEF HasId
  <2> QED BY <2>1, <2>2, <2>3, <2>4
<1>5. k \in 1 .. n /\ At(b, s, x)[k] = p
  <2>1. k \in 1 .. n /\ o[At(b, s, x)[k]].id = id
    <3> HIDE DEF p, s, x, l
    <3> QED BY <1>2, <1>4, FirstWithId
  <2>2. b.order_map[o[At(b, s, x)[k]].id] = At(b, s, x)[k]
    <3>1. LevelsAreIndexed(b, o)
      BY DEF Index
    <3> HIDE DEF p, s, x, l
    <3> QED BY <1>2, <2>1, <3>1 DEF LevelsAreIndexed
  <2> QED BY <2>1, <2>2
<1>6. m.orders = RemoveAt(At(b, s, x), k)
  BY <1>4 DEF LevelRemove, At
<1>7. c = Erase(b, o, id)
  <2>1. At(b, s, x) # <<>>
    BY <1>3, <1>4, EmptySeq
  <2>2. x \in b.keys[s]
    BY <1>2, <2>1 DEF LadderInv, NoEmptyLevel
  <2> QED BY <2>2 DEF CancelOrder
<1>8. /\ c.levels = [b.levels EXCEPT ![s] = [@ EXCEPT ![x] = IF m.orders = <<>> THEN EmptyLevel ELSE m]]
      /\ c.order_map = [b.order_map EXCEPT ![id] = NoOrder]
  BY <1>1, <1>4, <1>7 DEF Erase, UpdateBest, Books
<1> HIDE DEF p, s, x, l, k, m, c
<1>9. /\ At(c, s, x) = RemoveAt(At(b, s, x), k)
      /\ \A r \in Sides, y \in AnyPrice : r # s \/ y # x => At(c, r, y) = At(b, r, y)
  BY <1>1, <1>2, <1>6, <1>8 DEF At, EmptyLevel
<1>10. /\ Len(At(c, s, x)) = n - 1
       /\ \A i \in 1 .. n - 1 :
            At(c, s, x)[i] = IF i < k THEN At(b, s, x)[i] ELSE At(b, s, x)[i + 1]
  <2>1. At(b, s, x) \in Seq(Ptrs)
    BY <1>1, <1>2, LevelSeq
  <2> QED BY <1>5, <1>9, <2>1, RemoveAtProperties
<1>11. \A i \in 1 .. n - 1 : \E j \in 1 .. n : j # k /\ At(c, s, x)[i] = At(b, s, x)[j]
  <2> SUFFICES ASSUME NEW i \in 1 .. n - 1
               PROVE  \E j \in 1 .. n : j # k /\ At(c, s, x)[i] = At(b, s, x)[j]
    OBVIOUS
  <2> HIDE DEF n
  <2>1. CASE i < k
    BY <1>4, <1>5, <1>10, <2>1
  <2>2. CASE ~(i < k)
    <3>1. i + 1 \in 1 .. n /\ i + 1 # k /\ At(c, s, x)[i] = At(b, s, x)[i + 1]
      BY <1>4, <1>5, <1>10, <2>2
    <3> QED BY <3>1
  <2> QED BY <2>1, <2>2
<1>12. \A j \in 1 .. n : j # k => \E i \in 1 .. n - 1 : At(c, s, x)[i] = At(b, s, x)[j]
  <2> SUFFICES ASSUME NEW j \in 1 .. n, j # k
               PROVE  \E i \in 1 .. n - 1 : At(c, s, x)[i] = At(b, s, x)[j]
    OBVIOUS
  <2> HIDE DEF n
  <2>1. CASE j < k
    BY <1>4, <1>5, <1>10, <2>1
  <2>2. CASE ~(j < k)
    <3>1. j - 1 \in 1 .. n - 1 /\ At(c, s, x)[j - 1] = At(b, s, x)[j]
      BY <1>4, <1>5, <1>10, <2>2
    <3> QED BY <3>1
  <2> QED BY <2>1, <2>2
<1>13. \A r \in Sides, y \in AnyPrice : \A i \in 1 .. Len(At(c, r, y)) :
         At(c, r, y)[i] # p /\ \E j \in 1 .. Len(At(b, r, y)) : At(c, r, y)[i] = At(b, r, y)[j]
  <2> SUFFICES ASSUME NEW r \in Sides, NEW y \in AnyPrice, NEW i \in 1 .. Len(At(c, r, y))
               PROVE  /\ At(c, r, y)[i] # p
                      /\ \E j \in 1 .. Len(At(b, r, y)) : At(c, r, y)[i] = At(b, r, y)[j]
    OBVIOUS
  <2>1. CASE r = s /\ y = x
    <3>1. PICK j \in 1 .. n : j # k /\ At(c, s, x)[i] = At(b, s, x)[j]
      BY <1>10, <1>11, <2>1
    <3>2. At(b, s, x)[j] # p
      BY <1>2, <1>5, <3>1 DEF Index, NoOrderTwice
    <3> QED BY <2>1, <3>1, <3>2
  <2>2. CASE r # s \/ y # x
    <3>1. At(c, r, y) = At(b, r, y)
      BY <1>9, <2>2
    <3>2. At(b, r, y)[i] # p
      BY <2>2, <3>1 DEF Index, LevelsAreIndexed, s, x
    <3> QED BY <3>1, <3>2
  <2> QED BY <2>1, <2>2
<1>14. ~Holds(c, p)
  BY <1>13 DEF Holds
<1>15. LevelsAreIndexed(c, o)
  <2> SUFFICES ASSUME NEW r \in Sides, NEW y \in AnyPrice, NEW i \in 1 .. Len(At(c, r, y))
               PROVE  LET q == At(c, r, y)[i]
                      IN  o[q].side = r /\ o[q].price = y /\ c.order_map[o[q].id] = q
    BY DEF LevelsAreIndexed
  <2> DEFINE q == At(c, r, y)[i]
  <2>1. q \in Ptrs /\ q # p /\ o[q].side = r /\ o[q].price = y /\ b.order_map[o[q].id] = q
    BY <1>1, <1>13, LevelSeq DEF Index, LevelsAreIndexed
  <2>2. o[q].id \in AnyId /\ o[q].id # id
    BY <2>1 DEF Orders, p
  <2> QED BY <1>1, <1>8, <2>1, <2>2
<1>16. IndexIsInLevels(c, o)
  <2> SUFFICES ASSUME NEW h \in AnyId, c.order_map[h] # NoOrder
               PROVE  LET q == c.order_map[h]
                      IN  o[q].id = h /\ \E i \in 1 .. Len(At(c, o[q].side, o[q].price)) :
                                           At(c, o[q].side, o[q].price)[i] = q
    BY DEF IndexIsInLevels
  <2> DEFINE q == b.order_map[h]
  <2>1. h # id /\ c.order_map[h] = q
    BY <1>1, <1>8
  <2>2. q \in Ptrs /\ o[q].side \in Sides /\ o[q].price \in AnyPrice
    BY <1>1, <2>1 DEF Orders
  <2>3. o[q].id = h /\ \E i \in 1 .. Len(At(b, o[q].side, o[q].price)) :
                         At(b, o[q].side, o[q].price)[i] = q
    BY <2>1 DEF Index, IndexIsInLevels
  <2>4. PICK j \in 1 .. Len(At(b, o[q].side, o[q].price)) : At(b, o[q].side, o[q].price)[j] = q
    BY <2>3
  <2>5. \E i \in 1 .. Len(At(c, o[q].side, o[q].price)) : At(c, o[q].side, o[q].price)[i] = q
    <3>1. CASE o[q].side = s /\ o[q].price = x
      <4>1. j # k
        BY <1>3, <1>5, <2>1, <2>3, <2>4, <3>1 DEF p
      <4> QED BY <1>10, <1>12, <2>4, <3>1, <4>1
    <3>2. CASE ~(o[q].side = s /\ o[q].price = x)
      BY <1>9, <2>2, <2>4, <3>2
    <3> QED BY <3>1, <3>2
  <2> QED BY <2>1, <2>3, <2>5
<1>17. NoOrderTwice(c)
  <2> SUFFICES ASSUME NEW r \in Sides, NEW y \in AnyPrice,
                      NEW i \in 1 .. Len(At(c, r, y)), NEW j \in 1 .. Len(At(c, r, y)),
                      At(c, r, y)[i] = At(c, r, y)[j]
               PROVE  i = j
    BY DEF NoOrderTwice
  <2>1. CASE r = s /\ y = x
    <3>1. \A e, f \in 1 .. n : At(b, s, x)[e] = At(b, s, x)[f] => e = f
      BY <1>2 DEF Index, NoOrderTwice
    <3>2. i \in 1 .. n - 1 /\ j \in 1 .. n - 1
      BY <1>10, <2>1
    <3> HIDE DEF n
    <3> QED BY <1>4, <1>5, <1>10, <2>1, <3>1, <3>2
  <2>2. CASE r # s \/ y # x
    BY <1>9, <2>2 DEF Index, NoOrderTwice
  <2> QED BY <2>1, <2>2
<1>18. c.order_map[id] = NoOrder
  BY <1>1, <1>8
<1> QED BY <1>14, <1>15, <1>16, <1>17, <1>18 DEF Index, c, p

-----------------------------------------------------------------------------

IndexInv == TypeInv /\ LadderInv(book) /\ Index(book, ord)

\* In a new book both the ladders and the map are empty.
LEMMA InitIndex == Init => Index(book, ord)
BY EmptySeq DEF Init, EmptyBook, EmptyLevel, Index, LevelsAreIndexed, IndexIsInLevels,
   NoOrderTwice, At

\* One step per public operation keeps the map and the ladders in agreement, when
\* the callers never reuse a live id.
LEMMA NextIndex ==
  ASSUME ReuseIds = FALSE, IndexInv, TypeInv', [BookNext]_bookVars
  PROVE  Index(book', ord')
<1>1. /\ TypedBook(book) /\ LadderInv(book) /\ Index(book, ord)
      /\ ord \in [Ptrs -> Orders] /\ ord' \in [Ptrs -> Orders]
  BY DEF IndexInv, LadderInv, TypeInv, TypeOK
<1>2. ASSUME NEW p \in Ptrs, NEW o \in NewOrders, AddOrder(p, o)
      PROVE  Index(book', ord')
  <2>1. /\ ~Holds(book, p)
        /\ book' = Submit(book, ord', p)
        /\ \A q \in Ptrs \ {p} : ord'[q] = ord[q]
    BY <1>1, <1>2, RestingIsHeld DEF AddOrder
  <2>2. Index(book, ord')
    BY <1>1, <2>1, IndexFrame
  <2>3. book.order_map[ord'[p].id] = NoOrder
    BY <1>1, <1>2 DEF AddOrder, NewOrders
  <2> QED BY <1>1, <2>1, <2>2, <2>3, InsertIndex DEF Submit
<1>3. ASSUME NEW id \in Ids, Cancel(id)
      PROVE  Index(book', ord')
  BY <1>1, <1>3, CancelOrderIndex DEF Cancel, AnyId
<1>4. ASSUME NEW id \in Ids, NEW x \in Prices, NEW q \in Sizes, ModifyOrder(id, x, q)
      PROVE  Index(book', ord')
  <2> DEFINE p == book.order_map[id]
             c == CancelOrder(book, ord, id)
  <2>1. /\ p # NoOrder /\ p \in Ptrs
        /\ book' = Submit(c, ord', p)
        /\ ord'[p].id = ord[p].id
        /\ \A r \in Ptrs \ {p} : ord'[r] = ord[r]
    BY <1>1, <1>4 DEF ModifyOrder, TypedBook, Books, AnyId, Orders
  <2>2. Index(c, ord) /\ c.order_map[id] = NoOrder /\ ~Holds(c, p)
    BY <1>1, <2>1, CancelOrderIndex DEF AnyId
  <2>3. TypedBook(c)
    BY <1>1, CancelOrderType DEF AnyId
  <2>4. Index(c, ord')
    BY <1>1, <2>1, <2>2, <2>3, IndexFrame
  <2>5. ord[p].id = id
    BY <1>1, <2>1 DEF Index, IndexIsInLevels, AnyId
  <2> HIDE DEF c
  <2> QED BY <1>1, <2>1, <2>2, <2>3, <2>4, <2>5, InsertIndex DEF Submit
<1>5. CASE UNCHANGED bookVars
  BY <1>1, <1>5 DEF bookVars
<1> QED BY <1>2, <1>3, <1>4, <1>5 DEF BookNext

\* When no id is reused while it is in the book, order_map_ and the two ladders
\* hold the same orders, each once, in the level of its own side and price
\* (OrderBook.hpp:94-169).
THEOREM BookIndexMatchesLadders ==
  ASSUME ReuseIds = FALSE
  PROVE  BookSpec => []IndexMatchesLadders
<1>1. Init => IndexInv
  BY InitType, InitLadder, InitIndex DEF IndexInv
<1>2. IndexInv /\ [BookNext]_bookVars => IndexInv'
  <2> SUFFICES ASSUME IndexInv, [BookNext]_bookVars PROVE IndexInv'
    OBVIOUS
  <2>1. TypeInv' /\ LadderInv(book)'
    BY NextType, NextLadder DEF IndexInv
  <2>2. Index(book', ord')
    BY <2>1, NextIndex
  <2> QED BY <2>1, <2>2 DEF IndexInv, Index, LevelsAreIndexed, IndexIsInLevels, NoOrderTwice, At
<1>3. IndexInv => IndexMatchesLadders
  BY DEF IndexInv, Index, IndexMatchesLadders
<1> QED BY <1>1, <1>2, <1>3, PTL DEF BookSpec

-----------------------------------------------------------------------------
(* Price-time priority, for a clock that never steps back and orders that are   *)
(* stamped as they are added.                                                  *)

\* Every level is in the order of its time stamps, none of which is ahead of the
\* clock.
Fifo(b, o, now) ==
  \A s \in Sides, x \in AnyPrice : \A i \in 1 .. Len(At(b, s, x)) :
    /\ o[At(b, s, x)[i]].timestamp <= now
    /\ \A j \in 1 .. i : o[At(b, s, x)[j]].timestamp <= o[At(b, s, x)[i]].timestamp

PriorityInv == IndexInv /\ Fifo(book, ord, clock)

\* Time goes on, and what does not rest may be rewritten.
LEMMA FifoFrame ==
  ASSUME NEW b, TypedBook(b), NEW o \in [Ptrs -> Orders], NEW o2 \in [Ptrs -> Orders],
         NEW now \in Nat, NEW later \in Nat, now <= later, Fifo(b, o, now),
         \A p \in Ptrs : Holds(b, p) => o2[p].timestamp = o[p].timestamp
  PROVE  Fifo(b, o2, later)
<1> SUFFICES ASSUME NEW s \in Sides, NEW x \in AnyPrice, NEW i \in 1 .. Len(At(b, s, x))
             PROVE  /\ o2[At(b, s, x)[i]].timestamp <= later
                    /\ \A j \in 1 .. i :
                         o2[At(b, s, x)[j]].timestamp <= o2[At(b, s, x)[i]].timestamp
  BY DEF Fifo
<1>1. \A j \in 1 .. Len(At(b, s, x)) :
        /\ o2[At(b, s, x)[j]].timestamp = o[At(b, s, x)[j]].timestamp
        /\ o[At(b, s, x)[j]].timestamp \in Nat
  BY LevelSeq DEF Holds, Orders
<1>2. Len(At(b, s, x)) \in Nat
  BY LevelSeq
<1>3. \A j \in 1 .. i : j \in 1 .. Len(At(b, s, x))
  BY <1>2
<1> QED BY <1>1, <1>3 DEF Fifo

\* addOrder puts the order last in the level of its price, and touches no other
\* (OrderBook.hpp:94-115).
LEMMA InsertLevels ==
  ASSUME NEW b, TypedBook(b), NEW o \in [Ptrs -> Orders], NEW p \in Ptrs,
         NEW s \in Sides, NEW x \in AnyPrice
  PROVE  At(Insert(b, o, p), s, x) =
           IF s = o[p].side /\ x = o[p].price THEN Append(At(b, s, x), p) ELSE At(b, s, x)
<1> DEFINE l == LevelAdd(b.levels[o[p].side][o[p].price], p, o)
<1>1. o[p].side \in Sides /\ o[p].price \in AnyPrice
  BY DEF Orders
<1>2. Insert(b, o, p).levels = [b.levels EXCEPT ![o[p].side] = [@ EXCEPT ![o[p].price] = l]]
  BY DEF Insert, UpdateBest, TypedBook, Books
<1>3. b.levels \in [Sides -> [AnyPrice -> Levels]]
  BY DEF TypedBook, Books
<1>4. l.orders = Append(At(b, o[p].side, o[p].price), p)
  BY DEF LevelAdd, At
<1> HIDE DEF l
<1>5. CASE s = o[p].side /\ x = o[p].price
  <2>1. Insert(b, o, p).levels[s][x] = l
    BY <1>1, <1>2, <1>3, <1>5
  <2> QED BY <1>4, <1>5, <2>1 DEF At
<1>6. CASE ~(s = o[p].side /\ x = o[p].price)
  <2>1. Insert(b, o, p).levels[s][x] = b.levels[s][x]
    BY <1>1, <1>2, <1>3, <1>6
  <2> QED BY <1>6, <2>1 DEF At
<1> QED BY <1>5, <1>6

\* An order that is stamped now goes behind the orders of its level.
LEMMA InsertFifo ==
  ASSUME NEW b, TypedBook(b), NEW o \in [Ptrs -> Orders], NEW p \in Ptrs,
         NEW now \in Nat, Fifo(b, o, now), o[p].timestamp = now
  PROVE  Fifo(Insert(b, o, p), o, now)
<1> DEFINE c == Insert(b, o, p)
<1> SUFFICES ASSUME NEW s \in Sides, NEW x \in AnyPrice, NEW i \in 1 .. Len(At(c, s, x))
             PROVE  /\ o[At(c, s, x)[i]].timestamp <= now
                    /\ \A j \in 1 .. i :
                         o[At(c, s, x)[j]].timestamp <= o[At(c, s, x)[i]].timestamp
  BY DEF Fifo
<1> DEFINE n == Len(At(b, s, x))
<1>1. /\ At(b, s, x) \in Seq(Ptrs) /\ n \in Nat
      /\ \A j \in 1 .. n : o[At(b, s, x)[j]].timestamp <= now
      /\ \A k \in 1 .. n : \A j \in 1 .. k :
           o[At(b, s, x)[j]].timestamp <= o[At(b, s, x)[k]].timestamp
  BY LevelSeq DEF Fifo
<1>2. CASE s = o[p].side /\ x = o[p].price
  <2>1. /\ Len(At(c, s, x)) = n + 1 /\ At(c, s, x)[n + 1] = p
        /\ \A j \in 1 .. n : At(c, s, x)[j] = At(b, s, x)[j]
    <3>1. At(c, s, x) = Append(At(b, s, x), p)
      BY <1>2, InsertLevels
    <3> HIDE DEF c
    <3> QED BY <1>1, <3>1, AppendProperties
  <2> HIDE DEF n, c
  <2>2. \A j \in 1 .. n + 1 : o[At(c, s, x)[j]].timestamp <= now
    BY <1>1, <2>1
  <2>3. CASE i = n + 1
    BY <1>1, <2>1, <2>2, <2>3
  <2>4. CASE i # n + 1
    <3>1. i \in 1 .. n /\ \A j \in 1 .. i : j \in 1 .. n
      BY <1>1, <2>1, <2>4
    <3> QED BY <1>1, <2>1, <2>2, <3>1
  <2> QED BY <2>3, <2>4
<1>3. CASE ~(s = o[p].side /\ x = o[p].price)
  BY <1>1, <1>3, InsertLevels
<1> QED BY <1>2, <1>3

\* cancelOrder takes at most one order out of a level (OrderBook.hpp:117-147).
LEMMA CancelOrderLevels ==
  ASSUME NEW b, TypedBook(b), NEW o \in [Ptrs -> Orders], NEW id \in AnyId,
         NEW s \in Sides, NEW x \in AnyPrice
  PROVE  \/ At(CancelOrder(b, o, id), s, x) = At(b, s, x)
         \/ \E k \in 1 .. Len(At(b, s, x)) :
              At(CancelOrder(b, o, id), s, x) = RemoveAt(At(b, s, x), k)
<1> DEFINE p == b.order_map[id]
           l == b.levels[o[p].side][o[p].price]
           m == LevelRemove(l, id, o)
<1>1. CASE p = NoOrder \/ o[p].price \notin b.keys[o[p].side]
  BY <1>1 DEF CancelOrder
<1>2. CASE p # NoOrder /\ o[p].price \in b.keys[o[p].side]
  <2>1. b.levels \in [Sides -> [AnyPrice -> Levels]] /\ p \in Ptrs
    BY <1>2 DEF TypedBook, Books
  <2>2. o[p].side \in Sides /\ o[p].price \in AnyPrice
    BY <2>1 DEF Orders
  <2>3. CancelOrder(b, o, id).levels =
          [b.levels EXCEPT ![o[p].side] =
             [@ EXCEPT ![o[p].price] = IF m.orders = <<>> THEN EmptyLevel ELSE m]]
    BY <1>2 DEF CancelOrder, Erase, UpdateBest, TypedBook, Books
  <2>4. \/ m.orders = l.orders
        \/ \E k \in 1 .. Len(l.orders) : m.orders = RemoveAt(l.orders, k)
    <3>1. l \in Levels
      BY <2>1, <2>2
    <3>2. HasId(l, id, o) => IndexOf(l, id, o) \in 1 .. Len(l.orders)
      BY <3>1, FirstWithId
    <3> QED BY <3>2 DEF LevelRemove
  <2>5. At(CancelOrder(b, o, id), s, x) =
          IF s = o[p].side /\ x = o[p].price THEN m.orders ELSE At(b, s, x)
    <3> HIDE DEF m, p
    <3> QED BY <2>1, <2>2, <2>3 DEF At, EmptyLevel
  <2> QED BY <2>4, <2>5 DEF At
<1> QED BY <1>1, <1>2

\* Those that stay keep their order.
LEMMA CancelOrderFifo ==
  ASSUME NEW b, TypedBook(b), NEW o \in [Ptrs -> Orders], NEW id \in AnyId,
         NEW now, Fifo(b, o, now)
  PROVE  Fifo(CancelOrder(b, o, id), o, now)
<1> DEFINE c == CancelOrder(b, o, id)
<1> SUFFICES ASSUME NEW s \in Sides, NEW x \in AnyPrice, NEW i \in 1 .. Len(At(c, s, x))
             PROVE  /\ o[At(c, s, x)[i]].timestamp <= now
                    /\ \A j \in 1 .. i :
                         o[At(c, s, x)[j]].timestamp <= o[At(c, s, x)[i]].timestamp
  BY DEF Fifo
<1> DEFINE n == Len(At(b, s, x))
<1>1. /\ At(b, s, x) \in Seq(Ptrs) /\ n \in Nat
      /\ \A k \in 1 .. n : o[At(b, s, x)[k]].timestamp <= now
      /\ \A k \in 1 .. n : \A j \in 1 .. k :
           o[At(b, s, x)[j]].timestamp <= o[At(b, s, x)[k]].timestamp
  BY LevelSeq DEF Fifo
<1>2. CASE At(c, s, x) = At(b, s, x)
  BY <1>1, <1>2
<1>3. ASSUME NEW k \in 1 .. n, At(c, s, x) = RemoveAt(At(b, s, x), k)
      PROVE  /\ o[At(c, s, x)[i]].timestamp <= now
             /\ \A j \in 1 .. i :
                  o[At(c, s, x)[j]].timestamp <= o[At(c, s, x)[i]].timestamp
  <2>1. /\ Len(At(c, s, x)) = n - 1
        /\ \A j \in 1 .. n - 1 :
             At(c, s, x)[j] = IF j < k THEN At(b, s, x)[j] ELSE At(b, s, x)[j + 1]
    BY <1>1, <1>3, RemoveAtProperties
  <2> DEFINE was(j) == IF j < k THEN j ELSE j + 1
  <2> HIDE DEF n, c
  <2>2. \A j \in 1 .. i : /\ was(j) \in 1 .. was(i) /\ was(i) \in 1 .. n
                          /\ At(c, s, x)[j] = At(b, s, x)[was(j)]
    BY <1>1, <2>1
  <2>3. i \in 1 .. i
    BY <1>1, <2>1
  <2> HIDE DEF was
  <2> QED BY <1>1, <2>2, <2>3
<1> QED BY <1>2, <1>3, CancelOrderLevels

-----------------------------------------------------------------------------

\* A new book has no orders out of turn.
LEMMA InitFifo == Init => Fifo(book, ord, clock)
BY EmptySeq DEF Init, EmptyBook, EmptyLevel, Fifo, At

\* One step per public operation keeps the levels in the order of their stamps,
\* if the book stamps the orders and its clock does not step back.
LEMMA NextFifo ==
  ASSUME ReuseIds = FALSE, CallerStamps = FALSE, ClockSteps \subseteq Nat,
         PriorityInv, TypeInv', [BookNext]_bookVars
  PROVE  Fifo(book', ord', clock')
<1>1. /\ TypedBook(book) /\ LadderInv(book) /\ Index(book, ord)
      /\ Fifo(book, ord, clock)
      /\ ord \in [Ptrs -> Orders] /\ ord' \in [Ptrs -> Orders]
      /\ clock \in Nat /\ clock' \in Nat
  BY DEF PriorityInv, IndexInv, LadderInv, TypeInv, TypeOK
<1>2. ReadClock => clock <= clock'
  BY <1>1 DEF ReadClock
<1>3. ASSUME NEW p \in Ptrs, NEW o \in NewOrders, AddOrder(p, o)
      PROVE  Fifo(book', ord', clock')
  <2>1. /\ ~Holds(book, p)
        /\ book' = Submit(book, ord', p)
        /\ \A q \in Ptrs \ {p} : ord'[q] = ord[q]
        /\ clock <= clock'
    BY <1>1, <1>2, <1>3, RestingIsHeld DEF AddOrder
  <2>2. Fifo(book, ord', clock')
    BY <1>1, <2>1, FifoFrame
  <2>3. ord'[p].quantity # 0 => ord'[p].timestamp = clock'
    <3>1. o.timestamp = 0 /\ o \in Orders
      BY <1>3, NewOrderType DEF NewOrders, Stamps, PriorityInv, IndexInv
    <3>2. ord'[p] = IF o.quantity = 0 THEN o ELSE [o EXCEPT !.timestamp = clock']
      BY <1>1, <1>3, <3>1 DEF AddOrder
    <3> QED BY <3>1, <3>2 DEF Orders
  <2> QED BY <1>1, <2>1, <2>2, <2>3, InsertFifo DEF Submit
<1>4. ASSUME NEW id \in Ids, Cancel(id)
      PROVE  Fifo(book', ord', clock')
  BY <1>1, <1>4, CancelOrderFifo DEF Cancel, AnyId
<1>5. ASSUME NEW id \in Ids, NEW x \in Prices, NEW q \in Sizes, ModifyOrder(id, x, q)
      PROVE  Fifo(book', ord', clock')
  <2> DEFINE p == book.order_map[id]
             c == CancelOrder(book, ord, id)
  <2>1. /\ p # NoOrder /\ p \in Ptrs
        /\ book' = Submit(c, ord', p)
        /\ ord'[p].timestamp = clock'
        /\ \A r \in Ptrs \ {p} : ord'[r] = ord[r]
        /\ clock <= clock'
    BY <1>1, <1>2, <1>5 DEF ModifyOrder, TypedBook, Books, AnyId, Orders
  <2>2. ~Holds(c, p)
    BY <1>1, <2>1, CancelOrderIndex DEF AnyId
  <2>3. TypedBook(c) /\ Fifo(c, ord, clock)
    BY <1>1, CancelOrderType, CancelOrderFifo DEF AnyId
  <2> HIDE DEF c, p
  <2>4. Fifo(c, ord', clock')
    BY <1>1, <2>1, <2>2, <2>3, FifoFrame
  <2> QED BY <1>1, <2>1, <2>3, <2>4, InsertFifo DEF Submit
<1>6. CASE UNCHANGED bookVars
  BY <1>1, <1>6 DEF bookVars
<1> QED BY <1>3, <1>4, <1>5, <1>6 DEF BookNext

\* The front of the top level is beaten neither in price, for it is at the top,
\* nor in time, for it is in front (OrderBook.hpp:172-187).
LEMMA FrontIsBest == PriorityInv => PriceTimePriority
<1> SUFFICES ASSUME PriorityInv, NEW s \in Sides, NEW p \in RestingOn(book, s)
             PROVE  BestOrder(book, s) # NoOrder /\ ~Beats(ord[p], ord[BestOrder(book, s)])
  BY DEF PriceTimePriority
<1> DEFINE top == TopPrice(s, book.keys[s])
           best == At(book, s, top)[1]
<1>1. /\ LadderInv(book) /\ TypedBook(book) /\ Index(book, ord)
      /\ Fifo(book, ord, clock) /\ ord \in [Ptrs -> Orders]
      /\ book.keys[s] \subseteq AnyPrice /\ IsFiniteSet(book.keys[s])
      /\ AnyPrice \subseteq Int
  BY PricesAreIntegers
     DEF PriorityInv, IndexInv, TypeInv, TypeOK, LadderInv, TypedBook, LaddersFinite, Books
<1>2. PICK x \in AnyPrice : p \in ToSet(At(book, s, x))
  BY DEF RestingOn, At
<1>3. PICK i \in 1 .. Len(At(book, s, x)) : At(book, s, x)[i] = p
  BY <1>1, <1>2, LevelSeq, LenProperties DEF ToSet
<1>4. ord[p].side = s /\ ord[p].price = x /\ p \in Ptrs
  BY <1>1, <1>3, LevelSeq DEF Index, LevelsAreIndexed
<1>5. x \in book.keys[s]
  <2>1. At(book, s, x) # <<>>
    BY <1>3, EmptySeq
  <2> QED BY <1>1, <2>1 DEF LadderInv, NoEmptyLevel
<1>6. /\ top \in book.keys[s] /\ top \in AnyPrice
      /\ s = "buy" => top >= x
      /\ s = "sell" => top =< x
  BY <1>1, <1>5, TopPriceIsTop
<1> HIDE DEF top
<1>7. 1 \in 1 .. Len(At(book, s, top))
  <2>1. At(book, s, top) # <<>>
    BY <1>1, <1>6 DEF LadderInv, NoEmptyLevel
  <2>2. At(book, s, top) \in Seq(Ptrs)
    BY <1>1, <1>6, LevelSeq
  <2> QED BY <2>1, <2>2, EmptySeq, LenProperties
<1>8. best \in Ptrs /\ ord[best].side = s /\ ord[best].price = top
  BY <1>1, <1>6, <1>7, LevelSeq DEF Index, LevelsAreIndexed
<1>9. BestOrder(book, s) = best
  BY <1>5, <1>6, <1>7, EmptySeq DEF BestOrder, At, top
<1>10. x = top => ord[best].timestamp <= ord[p].timestamp
  <2>1. x = top => 1 \in 1 .. i
    BY <1>3
  <2> QED BY <1>1, <1>3, <1>6, <2>1 DEF Fifo
<1> HIDE DEF best
<1>11. ord[p].timestamp \in Nat /\ ord[best].timestamp \in Nat /\ x \in Int /\ top \in Int
  BY <1>1, <1>4, <1>6, <1>8 DEF Orders
<1>12. ~Beats(ord[p], ord[best])
  BY <1>4, <1>6, <1>8, <1>10, <1>11 DEF Beats, Sides
<1> QED BY <1>8, <1>9, <1>12, OrderBookAssumption

\* While the book stamps the orders itself, from a clock that never steps back,
\* and no live id is reused, no order of a side beats the one that the matcher
\* is given first, in price or in time (Order.hpp:56-69, OrderBook.hpp:94-187).
THEOREM BookPriority ==
  ASSUME ReuseIds = FALSE, CallerStamps = FALSE, ClockSteps \subseteq Nat
  PROVE  BookSpec => []PriceTimePriority
<1>1. Init => PriorityInv
  BY InitType, InitLadder, InitIndex, InitFifo DEF PriorityInv, IndexInv
<1>2. PriorityInv /\ [BookNext]_bookVars => PriorityInv'
  <2> SUFFICES ASSUME PriorityInv, [BookNext]_bookVars PROVE PriorityInv'
    OBVIOUS
  <2>1. TypeInv' /\ LadderInv(book)'
    BY NextType, NextLadder DEF PriorityInv, IndexInv
  <2>2. Index(book', ord')
    BY <2>1, NextIndex DEF PriorityInv
  <2>3. Fifo(book', ord', clock')
    BY <2>1, NextFifo
  <2>4. IndexInv'
    BY <2>1, <2>2 DEF IndexInv, Index, LevelsAreIndexed, IndexIsInLevels, NoOrderTwice, At
  <2> QED BY <2>3, <2>4 DEF PriorityInv, Fifo, At
<1> QED BY <1>1, <1>2, FrontIsBest, PTL DEF BookSpec

-----------------------------------------------------------------------------
(* Totals of levels *)

\* A set of numbers that is not empty has a least one.
LEMMA LeastNumber ==
  ASSUME NEW A \in SUBSET Nat, A # {}
  PROVE  \E m \in A : \A k \in A : m <= k
<1> DEFINE R == OpToRel(<, Nat)
<1>1. \A k, m \in Nat : <<k, m>> \in R <=> k < m
  BY DEF OpToRel
<1>2. IsWellFoundedOn(R, Nat)
  BY NatLessThanWellFounded
<1> HIDE DEF R
<1>3. PICK m \in A : \A k \in A : ~(<<k, m>> \in R)
  BY <1>2, WFMin
<1>4. ASSUME NEW k \in A PROVE m <= k
  <2>1. k \in Nat /\ m \in Nat /\ ~(k < m)
    BY <1>1, <1>3
  <2> QED BY <2>1
<1> QED BY <1>4

\* g[n] is what the first n of the N numbers v add up to.
Adds(g, v, N) == g[0] = 0 /\ \A n \in 1 .. N : g[n] = g[n - 1] + v[n]
RunningSum(g, v, N) == g \in [0 .. N -> Nat] /\ Adds(g, v, N)

\* The sums of SumOfQuantities exist: the shortest list without them would have
\* those of the list less its last number, and so its own.
LEMMA RunningSumExists ==
  ASSUME NEW N \in Nat, NEW v \in [1 .. N -> Nat]
  PROVE  \E g : RunningSum(g, v, N)
<1> DEFINE A == {m \in 0 .. N : ~ \E g : RunningSum(g, v, m)}
<1> SUFFICES ASSUME A # {} PROVE FALSE
  <2>1. N \in 0 .. N
    OBVIOUS
  <2> QED BY <2>1
<1>1. PICK m \in A : \A k \in A : m <= k
  <2>1. 0 .. N \subseteq Nat
    OBVIOUS
  <2>2. A \subseteq 0 .. N
    OBVIOUS
  <2> HIDE DEF A
  <2> QED BY <2>1, <2>2, LeastNumber
<1>2. CASE m = 0
  <2>1. RunningSum([n \in 0 .. 0 |-> 0], v, 0)
    BY DEF RunningSum, Adds
  <2> QED BY <1>1, <1>2, <2>1
<1>3. CASE m # 0
  <2>1. m - 1 \in 0 .. N /\ m \in 1 .. N /\ ~(m <= m - 1) /\ m \in Nat /\ m - 1 \in Nat
    BY <1>3
  <2>2. PICK g : RunningSum(g, v, m - 1)
    BY <1>1, <2>1
  <2>3. g \in [0 .. m - 1 -> Nat] /\ g[m - 1] \in Nat /\ v[m] \in Nat
    BY <2>1, <2>2 DEF RunningSum, Adds
  <2> DEFINE h == [n \in 0 .. m |-> IF n = m THEN g[m - 1] + v[m] ELSE g[n]]
  <2>4. h[m] = g[m - 1] + v[m] /\ \A n \in 0 .. m - 1 : h[n] = g[n]
    BY <2>1
  <2>5. \A n \in 0 .. m : n = m \/ n \in 0 .. m - 1
    BY <2>1
  <2>6. h \in [0 .. m -> Nat]
    <3>1. \A n \in 0 .. m : (IF n = m THEN g[m - 1] + v[m] ELSE g[n]) \in Nat
      BY <2>3, <2>5
    <3> QED BY <3>1
  <2> HIDE DEF h
  <2>7. h[0] = 0
    BY <2>1, <2>2, <2>4 DEF RunningSum, Adds
  <2>8. ASSUME NEW n \in 1 .. m PROVE h[n] = h[n - 1] + v[n]
    <3>1. h[n - 1] = g[n - 1]
      BY <2>1, <2>4
    <3>2. CASE n = m
      BY <2>4, <3>1, <3>2
    <3>3. CASE n # m
      <4>1. n \in 1 .. m - 1 /\ n \in 0 .. m - 1
        BY <2>1, <3>3
      <4>2. g[n] = g[n - 1] + v[n]
        BY <2>2, <4>1 DEF RunningSum, Adds
      <4>3. h[n] = g[n]
        BY <2>4, <4>1
      <4> QED BY <3>1, <4>2, <4>3
    <3> QED BY <3>2, <3>3
  <2>9. RunningSum(h, v, m)
    BY <2>6, <2>7, <2>8 DEF RunningSum, Adds
  <2> QED BY <1>1, <2>9
<1> QED BY <1>2, <1>3

\* The quantities that a level's list of pointers stands for.
Quantities(orders, o) == [n \in 1 .. Len(orders) |-> o[orders[n]].quantity]

\* They are numbers: Quantity is unsigned (Order.hpp:15).
LEMMA QuantitiesType ==
  ASSUME NEW orders \in Seq(Ptrs), NEW o \in [Ptrs -> Orders]
  PROVE  /\ Len(orders) \in Nat
         /\ \A n \in 1 .. Len(orders) : orders[n] \in Ptrs /\ o[orders[n]].quantity \in Nat
         /\ Quantities(orders, o) \in [1 .. Len(orders) -> Nat]
<1>1. Len(orders) \in Nat /\ \A n \in 1 .. Len(orders) : orders[n] \in Ptrs
  BY LenProperties, ElementOfSeq
<1>2. \A p \in Ptrs : o[p].quantity \in Nat
  BY OrderBookAssumption DEF Orders
<1> QED BY <1>1, <1>2 DEF Quantities

\* SumOfQuantities is the last of the running sums.
LEMMA SumUnfolds ==
  ASSUME NEW orders \in Seq(Ptrs), NEW o \in [Ptrs -> Orders]
  PROVE  \E g : /\ RunningSum(g, Quantities(orders, o), Len(orders))
                /\ SumOfQuantities(orders, o) = g[Len(orders)]
<1> DEFINE N == Len(orders)
           v == Quantities(orders, o)
           Defined(g) == g = [n \in 0 .. N |->
                                IF n = 0 THEN 0 ELSE g[n - 1] + o[orders[n]].quantity]
           sum == CHOOSE g : Defined(g)
<1>1. N \in Nat /\ v \in [1 .. N -> Nat]
  BY QuantitiesType
<1>2. \A n \in 1 .. N : v[n] = o[orders[n]].quantity
  BY DEF Quantities
<1>3. \E g : Defined(g)
  <2>1. PICK g : RunningSum(g, v, N)
    <3> HIDE DEF N, v
    <3> QED BY <1>1, RunningSumExists
  <2>2. g = [n \in 0 .. N |-> g[n]]
    BY <2>1 DEF RunningSum, Adds
  <2>3. \A n \in 0 .. N : g[n] = IF n = 0 THEN 0 ELSE g[n - 1] + o[orders[n]].quantity
    <3>1. \A n \in 0 .. N : n # 0 => n \in 1 .. N
      BY <1>1
    <3> HIDE DEF N, v
    <3> QED BY <1>2, <2>1, <3>1 DEF RunningSum, Adds
  <2>4. Defined(g)
    BY <2>2, <2>3
  <2> QED BY <2>4
<1>4. Defined(sum)
  BY <1>3
<1>5. SumOfQuantities(orders, o) = sum[N]
  BY DEF SumOfQuantities
<1> HIDE DEF sum
<1>6. \A n \in 0 .. N : sum[n] = IF n = 0 THEN 0 ELSE sum[n - 1] + o[orders[n]].quantity
  BY <1>4
<1>7. sum = [n \in 0 .. N |-> sum[n]]
  BY <1>4
<1> HIDE DEF N, v, Defined
<1>8. \A n \in 0 .. N : sum[n] \in Nat
  <2> DEFINE A == {n \in 0 .. N : sum[n] \notin Nat}
  <2> SUFFICES ASSUME A # {} PROVE FALSE
    OBVIOUS
  <2>1. PICK m \in A : \A n \in A : m <= n
    <3>1. A \in SUBSET Nat
      BY <1>1
    <3> HIDE DEF A
    <3> QED BY <3>1, LeastNumber
  <2>2. m # 0 /\ m \in 0 .. N
    BY <1>6, <2>1
  <2>3. m - 1 \in 0 .. N /\ ~(m <= m - 1) /\ m \in 1 .. N
    BY <1>1, <2>2
  <2>4. sum[m - 1] \in Nat
    BY <2>1, <2>3
  <2>5. v[m] \in Nat /\ sum[m] = sum[m - 1] + v[m]
    BY <1>1, <1>2, <1>6, <2>2, <2>3
  <2> QED BY <2>1, <2>4, <2>5
<1>9. RunningSum(sum, v, N)
  <2>1. sum \in [0 .. N -> Nat]
    BY <1>7, <1>8
  <2>2. sum[0] = 0
    BY <1>1, <1>6
  <2>3. \A n \in 1 .. N : sum[n] = sum[n - 1] + v[n]
    <3>1. \A n \in 1 .. N : n \in 0 .. N /\ n # 0
      BY <1>1
    <3> QED BY <1>2, <1>6, <3>1
  <2> QED BY <2>1, <2>2, <2>3 DEF RunningSum, Adds
<1> QED BY <1>5, <1>9 DEF N, v

\* Lists that begin alike have the same running sums so far.
LEMMA SameSum ==
  ASSUME NEW k \in Nat, NEW g, NEW h, NEW v, Adds(g, v, k), Adds(h, v, k)
  PROVE  g[k] = h[k]
<1> DEFINE A == {n \in 0 .. k : g[n] # h[n]}
<1> SUFFICES ASSUME A # {} PROVE FALSE
  <2>1. k \in 0 .. k
    OBVIOUS
  <2> QED BY <2>1
<1>1. PICK m \in A : \A n \in A : m <= n
  <2>1. 0 .. k \subseteq Nat
    OBVIOUS
  <2>2. A \subseteq 0 .. k
    OBVIOUS
  <2> HIDE DEF A
  <2> QED BY <2>1, <2>2, LeastNumber
<1>2. m # 0 /\ m \in 0 .. k
  BY <1>1 DEF Adds
<1>3. m - 1 \in 0 .. k /\ ~(m <= m - 1) /\ m \in 1 .. k
  BY <1>2
<1>4. g[m - 1] = h[m - 1]
  BY <1>1, <1>3
<1>5. g[m] = g[m - 1] + v[m] /\ h[m] = h[m - 1] + v[m]
  BY <1>3 DEF Adds
<1> QED BY <1>1, <1>4, <1>5

Without(w, v, i, N) == \A n \in 1 .. N - 1 : w[n] = IF n < i THEN v[n] ELSE v[n + 1]

\* A list without its i-th number adds up to that much less.
LEMMA SumWithout ==
  ASSUME NEW N \in Nat, NEW v, NEW g, RunningSum(g, v, N), v \in [1 .. N -> Nat],
         NEW w, NEW h, RunningSum(h, w, N - 1), NEW i \in 1 .. N, Without(w, v, i, N)
  PROVE  g[N] = h[N - 1] + v[i]
<1> DEFINE A == {n \in i .. N : g[n] # h[n - 1] + v[i]}
<1> SUFFICES ASSUME A # {} PROVE FALSE
  <2>1. N \in i .. N
    OBVIOUS
  <2> QED BY <2>1
<1>1. PICK m \in A : \A n \in A : m <= n
  <2>1. i .. N \subseteq Nat
    OBVIOUS
  <2>2. A \subseteq i .. N
    OBVIOUS
  <2> HIDE DEF A
  <2> QED BY <2>1, <2>2, LeastNumber
<1>2. m \in i .. N /\ m \in 1 .. N /\ m \in Nat /\ g[m] # h[m - 1] + v[i]
  BY <1>1
<1>3. g[m] = g[m - 1] + v[m] /\ g[m - 1] \in Nat /\ v[m] \in Nat /\ v[i] \in Nat
  <2>1. m - 1 \in 0 .. N
    BY <1>2
  <2> QED BY <1>2, <2>1 DEF RunningSum, Adds
<1>4. h[m - 1] \in Nat
  <2>1. m - 1 \in 0 .. N - 1
    BY <1>2
  <2> QED BY <2>1 DEF RunningSum, Adds
<1>5. CASE m = i
  <2> USE DEF Without
  <2>1. i - 1 \in Nat /\ \A n \in 1 .. i - 1 : n \in 1 .. N /\ n \in 1 .. N - 1 /\ n < i
    OBVIOUS
  <2> DEFINE k == i - 1
  <2>2. Adds(g, v, k) /\ Adds(h, v, k)
    BY <2>1 DEF RunningSum, Adds
  <2>3. k \in Nat
    BY <2>1
  <2> HIDE DEF k
  <2>4. g[k] = h[k]
    BY <2>2, <2>3, SameSum
  <2>5. g[i - 1] = h[i - 1]
    BY <2>4 DEF k
  <2> QED BY <1>2, <1>3, <1>4, <1>5, <2>5
<1>6. CASE m # i
  <2>1. m - 1 \in i .. N /\ ~(m <= m - 1) /\ m - 1 \in 1 .. N - 1 /\ ~(m - 1 < i)
    BY <1>2, <1>6
  <2>2. g[m - 1] = h[(m - 1) - 1] + v[i]
    BY <1>1, <2>1
  <2>3. h[m - 1] = h[(m - 1) - 1] + w[m - 1]
    BY <2>1 DEF RunningSum, Adds
  <2>4. w[m - 1] = v[m]
    <3>1. (m - 1) + 1 = m
      BY <1>2
    <3> QED BY <2>1, <3>1 DEF Without
  <2>5. h[(m - 1) - 1] \in Nat
    <3>1. (m - 1) - 1 \in 0 .. N - 1
      BY <2>1
    <3> QED BY <3>1 DEF RunningSum, Adds
  <2> QED BY <1>2, <1>3, <2>2, <2>3, <2>4, <2>5
<1> QED BY <1>5, <1>6

\* Whatever adds the quantities up comes to SumOfQuantities.
LEMMA SumIs ==
  ASSUME NEW orders \in Seq(Ptrs), NEW o \in [Ptrs -> Orders],
         NEW g, Adds(g, Quantities(orders, o), Len(orders))
  PROVE  SumOfQuantities(orders, o) = g[Len(orders)]
<1>1. PICK h : /\ RunningSum(h, Quantities(orders, o), Len(orders))
               /\ SumOfQuantities(orders, o) = h[Len(orders)]
  BY SumUnfolds
<1>2. Len(orders) \in Nat
  BY LenProperties
<1>3. g[Len(orders)] = h[Len(orders)]
  BY <1>1, <1>2, SameSum DEF RunningSum
<1> QED BY <1>1, <1>3

\* A sum of quantities is a number.
LEMMA SumType ==
  ASSUME NEW orders \in Seq(Ptrs), NEW o \in [Ptrs -> Orders]
  PROVE  SumOfQuantities(orders, o) \in Nat
<1>1. PICK h : /\ RunningSum(h, Quantities(orders, o), Len(orders))
               /\ SumOfQuantities(orders, o) = h[Len(orders)]
  BY SumUnfolds
<1>2. Len(orders) \in Nat /\ Len(orders) \in 0 .. Len(orders)
  BY LenProperties
<1> QED BY <1>1, <1>2 DEF RunningSum

\* Nothing adds up to nothing.
LEMMA SumEmpty ==
  ASSUME NEW o \in [Ptrs -> Orders]
  PROVE  SumOfQuantities(<<>>, o) = 0
<1>1. <<>> \in Seq(Ptrs) /\ Len(<<>>) = 0
  OBVIOUS
<1>2. PICK h : RunningSum(h, Quantities(<<>>, o), 0) /\ SumOfQuantities(<<>>, o) = h[0]
  <2> DEFINE e == <<>>
  <2>1. e \in Seq(Ptrs) /\ Len(e) = 0
    BY <1>1
  <2> HIDE DEF e
  <2>2. PICK h : RunningSum(h, Quantities(e, o), Len(e)) /\ SumOfQuantities(e, o) = h[Len(e)]
    BY <2>1, SumUnfolds
  <2> QED BY <2>1, <2>2 DEF e
<1> QED BY <1>2 DEF RunningSum, Adds

\* Orders whose quantities are not written add up to what they did.
LEMMA SumFrame ==
  ASSUME NEW orders \in Seq(Ptrs), NEW o \in [Ptrs -> Orders], NEW o2 \in [Ptrs -> Orders],
         \A n \in 1 .. Len(orders) : o2[orders[n]].quantity = o[orders[n]].quantity
  PROVE  SumOfQuantities(orders, o2) = SumOfQuantities(orders, o)
<1>1. Quantities(orders, o2) = Quantities(orders, o)
  BY DEF Quantities
<1>2. PICK h : /\ RunningSum(h, Quantities(orders, o), Len(orders))
               /\ SumOfQuantities(orders, o) = h[Len(orders)]
  BY SumUnfolds
<1>3. SumOfQuantities(orders, o2) = h[Len(orders)]
  BY <1>1, <1>2, SumIs DEF RunningSum
<1> QED BY <1>2, <1>3

\* An order at the end adds its quantity (OrderBook.hpp:32-36).
LEMMA SumAppend ==
  ASSUME NEW orders \in Seq(Ptrs), NEW o \in [Ptrs -> Orders], NEW p \in Ptrs
  PROVE  SumOfQuantities(Append(orders, p), o) = SumOfQuantities(orders, o) + o[p].quantity
<1> DEFINE N == Len(orders)
           longer == Append(orders, p)
<1>1. /\ N \in Nat /\ longer \in Seq(Ptrs) /\ Len(longer) = N + 1
      /\ longer[N + 1] = p /\ \A n \in 1 .. N : longer[n] = orders[n]
  BY AppendProperties, LenProperties
<1>2. PICK h : RunningSum(h, Quantities(longer, o), N + 1) /\ SumOfQuantities(longer, o) = h[N + 1]
  <2> HIDE DEF longer, N
  <2>1. PICK h : /\ RunningSum(h, Quantities(longer, o), Len(longer))
                 /\ SumOfQuantities(longer, o) = h[Len(longer)]
    BY <1>1, SumUnfolds
  <2> QED BY <1>1, <2>1
<1> HIDE DEF longer
<1>3. \A n \in 1 .. N : Quantities(longer, o)[n] = Quantities(orders, o)[n]
  <2> SUFFICES ASSUME NEW n \in 1 .. N
               PROVE  Quantities(longer, o)[n] = Quantities(orders, o)[n]
    OBVIOUS
  <2>1. n \in 1 .. N + 1
    BY <1>1
  <2> QED BY <1>1, <2>1 DEF Quantities
<1>4. Quantities(longer, o)[N + 1] = o[p].quantity
  <2>1. N + 1 \in 1 .. N + 1
    BY <1>1
  <2> QED BY <1>1, <2>1 DEF Quantities
<1>5. Adds(h, Quantities(orders, o), N)
  <2>1. \A n \in 1 .. N : n \in 1 .. N + 1
    BY <1>1
  <2> QED BY <1>2, <1>3, <2>1 DEF RunningSum, Adds
<1>6. SumOfQuantities(orders, o) = h[N]
  BY <1>5, SumIs
<1>7. h[N + 1] = h[N] + o[p].quantity
  <2>1. N + 1 \in 1 .. N + 1 /\ (N + 1) - 1 = N
    BY <1>1
  <2>2. h[N + 1] = h[(N + 1) - 1] + Quantities(longer, o)[N + 1]
    BY <1>2, <2>1 DEF RunningSum, Adds
  <2> QED BY <1>4, <2>1, <2>2
<1> QED BY <1>2, <1>6, <1>7 DEF longer

\* An order that is taken out leaves the sum less by its quantity
\* (OrderBook.hpp:38-44).
LEMMA SumRemoveAt ==
  ASSUME NEW orders \in Seq(Ptrs), NEW o \in [Ptrs -> Orders], NEW i \in 1 .. Len(orders)
  PROVE  /\ RemoveAt(orders, i) \in Seq(Ptrs)
         /\ SumOfQuantities(orders, o)
              = SumOfQuantities(RemoveAt(orders, i), o) + o[orders[i]].quantity
<1> DEFINE N == Len(orders)
           rest == RemoveAt(orders, i)
           v == Quantities(orders, o)
           w == Quantities(rest, o)
<1>1. /\ N \in Nat /\ rest \in Seq(Ptrs) /\ Len(rest) = N - 1
      /\ \A n \in 1 .. N - 1 : rest[n] = IF n < i THEN orders[n] ELSE orders[n + 1]
  BY RemoveAtProperties, LenProperties
<1> HIDE DEF rest
<1>2. v \in [1 .. N -> Nat] /\ w \in [1 .. N - 1 -> Nat]
  <2>1. v \in [1 .. N -> Nat]
    BY QuantitiesType
  <2>2. w \in [1 .. Len(rest) -> Nat]
    BY <1>1, QuantitiesType
  <2> QED BY <1>1, <2>1, <2>2
<1>3. PICK g : RunningSum(g, v, N) /\ SumOfQuantities(orders, o) = g[N]
  BY SumUnfolds
<1>4. PICK h : RunningSum(h, w, N - 1) /\ SumOfQuantities(rest, o) = h[N - 1]
  <2>1. PICK h : RunningSum(h, w, Len(rest)) /\ SumOfQuantities(rest, o) = h[Len(rest)]
    BY <1>1, SumUnfolds
  <2> QED BY <1>1, <2>1
<1>5. Without(w, v, i, N)
  <2> SUFFICES ASSUME NEW n \in 1 .. N - 1
               PROVE  w[n] = IF n < i THEN v[n] ELSE v[n + 1]
    BY DEF Without
  <2>1. w[n] = o[rest[n]].quantity
    BY <1>1 DEF Quantities
  <2>2. n \in 1 .. N /\ n + 1 \in 1 .. N
    BY <1>1
  <2>3. v[n] = o[orders[n]].quantity /\ v[n + 1] = o[orders[n + 1]].quantity
    BY <2>2 DEF Quantities
  <2> QED BY <1>1, <2>1, <2>3
<1>6. v[i] = o[orders[i]].quantity
  BY DEF Quantities
<1> HIDE DEF v, w, N
<1>7. i \in 1 .. N
  BY DEF N
<1>8. N \in Nat /\ RunningSum(g, v, N) /\ RunningSum(h, w, N - 1) /\ v \in [1 .. N -> Nat]
  BY <1>1, <1>2, <1>3, <1>4
<1>9. g[N] = h[N - 1] + v[i]
  BY <1>5, <1>7, <1>8, SumWithout
<1> QED BY <1>1, <1>3, <1>4, <1>6, <1>9 DEF rest

\* A number is a multiple of the width and a remainder, in one way only.
LEMMA WidthRemainder ==
  ASSUME NEW n \in Int, NEW k \in Int, NEW r \in 0 .. QMod - 1, n = (QMod * k) + r
  PROVE  n % QMod = r
<1> DEFINE j == n \div QMod
           u == n % QMod
<1>1. j \in Int /\ u \in 0 .. QMod - 1 /\ n = (QMod * j) + u /\ QMod \in Nat \ {0}
  BY OrderBookAssumption
<1> HIDE DEF j, u
<1>2. CASE k = j
  BY <1>1, <1>2 DEF u
<1>3. CASE j < k
  <2>1. QMod * (k - j) >= QMod
    BY <1>1, <1>3
  <2> QED BY <1>1, <2>1
<1>4. CASE j > k
  <2>1. QMod * (j - k) >= QMod
    BY <1>1, <1>4
  <2> QED BY <1>1, <2>1
<1> QED BY <1>1, <1>2, <1>3, <1>4

\* Adding to a number that has wrapped, and taking away from it, comes to what the
\* number itself would have come to (Quantity is unsigned).
LEMMA WrapsAlike ==
  ASSUME NEW n \in Nat, NEW d \in Int
  PROVE  ((n % QMod) + d) % QMod = (n + d) % QMod
<1> DEFINE q == n \div QMod
           r == n % QMod
           k == (r + d) \div QMod
           u == (r + d) % QMod
<1>0. QMod \in Nat \ {0}
  BY OrderBookAssumption
<1>1. q \in Int /\ r \in Nat /\ n = (QMod * q) + r
  BY <1>0
<1> HIDE DEF q, r
<1>2. k \in Int /\ u \in 0 .. QMod - 1 /\ r + d = (QMod * k) + u
  <2>1. r + d \in Int
    BY <1>1
  <2> QED BY <1>0, <2>1
<1> HIDE DEF k, u
<1> DEFINE m == q + k
           t == n + d
<1>3. t = (QMod * m) + u /\ m \in Int /\ t \in Int
  BY <1>0, <1>1, <1>2
<1> HIDE DEF m, t
<1>4. t % QMod = u
  BY <1>2, <1>3, WidthRemainder
<1> QED BY <1>4 DEF u, r, t

\* A level's total is the quantity of its orders, as far as it is counted.
Totals(b, o) ==
  \A s \in Sides, x \in AnyPrice :
    b.levels[s][x].total = SumOfQuantities(At(b, s, x), o) % QMod

\* PriceLevel::addOrder keeps the total (OrderBook.hpp:20-25).
LEMMA LevelAddTotal ==
  ASSUME NEW l \in Levels, NEW o \in [Ptrs -> Orders], NEW p \in Ptrs,
         l.total = SumOfQuantities(l.orders, o) % QMod
  PROVE  LevelAdd(l, p, o).total = SumOfQuantities(LevelAdd(l, p, o).orders, o) % QMod
<1>1. l.orders \in Seq(Ptrs) /\ o[p].quantity \in Int
  BY OrderBookAssumption DEF Levels, Orders
<1>2. SumOfQuantities(l.orders, o) \in Nat
  BY <1>1, SumType
<1>3. SumOfQuantities(Append(l.orders, p), o) = SumOfQuantities(l.orders, o) + o[p].quantity
  BY <1>1, SumAppend
<1>4. (l.total + o[p].quantity) % QMod = (SumOfQuantities(l.orders, o) + o[p].quantity) % QMod
  BY <1>1, <1>2, WrapsAlike
<1> QED BY <1>3, <1>4 DEF LevelAdd

\* PriceLevel::removeOrder keeps the total, also where it has wrapped
\* (OrderBook.hpp:27-43).
LEMMA LevelRemoveTotal ==
  ASSUME NEW l \in Levels, NEW o \in [Ptrs -> Orders], NEW id,
         l.total = SumOfQuantities(l.orders, o) % QMod
  PROVE  LevelRemove(l, id, o).total = SumOfQuantities(LevelRemove(l, id, o).orders, o) % QMod
<1> DEFINE i == IndexOf(l, id, o)
           rest == RemoveAt(l.orders, i)
<1>1. CASE ~HasId(l, id, o)
  BY <1>1 DEF LevelRemove
<1>2. CASE HasId(l, id, o)
  <2>1. l.orders \in Seq(Ptrs) /\ i \in 1 .. Len(l.orders)
    <3>1. i \in 1 .. Len(l.orders)
      BY <1>2, FirstWithId
    <3> QED BY <3>1 DEF Levels
  <2> HIDE DEF i
  <2> DEFINE d == o[l.orders[i]].quantity
  <2>2. d \in Nat
    BY <2>1, QuantitiesType
  <2>3. /\ rest \in Seq(Ptrs)
        /\ SumOfQuantities(l.orders, o) = SumOfQuantities(rest, o) + d
    BY <2>1, SumRemoveAt
  <2>4. SumOfQuantities(rest, o) \in Nat /\ SumOfQuantities(l.orders, o) \in Nat
    BY <2>1, <2>3, SumType
  <2>5. /\ LevelRemove(l, id, o).orders = rest
        /\ LevelRemove(l, id, o).total = (l.total - d) % QMod
    BY <1>2 DEF LevelRemove, i
  <2> HIDE DEF d, rest
  <2>6. (l.total - d) % QMod = SumOfQuantities(rest, o) % QMod
    <3> DEFINE n == SumOfQuantities(l.orders, o)
               e == -d
    <3>1. n \in Nat /\ e \in Int /\ l.total = n % QMod
      BY <2>2, <2>4
    <3>2. n + e = SumOfQuantities(rest, o)
      BY <2>2, <2>3, <2>4
    <3>3. l.total - d = (n % QMod) + e
      <4>1. n % QMod \in Int
        BY <3>1, OrderBookAssumption
      <4> HIDE DEF n
      <4> QED BY <2>2, <3>1, <4>1
    <3> HIDE DEF n, e
    <3>4. ((n % QMod) + e) % QMod = (n + e) % QMod
      BY <3>1, WrapsAlike
    <3> QED BY <3>2, <3>3, <3>4
  <2> QED BY <2>5, <2>6
<1> QED BY <1>1, <1>2

\* Where no quantity of an order in the book is written, and no ladder, the totals
\* stay exact.
LEMMA TotalsFrame ==
  ASSUME NEW b, TypedBook(b), NEW o \in [Ptrs -> Orders], Totals(b, o),
         NEW o2 \in [Ptrs -> Orders],
         \A p \in Ptrs : Holds(b, p) => o2[p].quantity = o[p].quantity
  PROVE  Totals(b, o2)
<1> SUFFICES ASSUME NEW s \in Sides, NEW x \in AnyPrice
             PROVE  b.levels[s][x].total = SumOfQuantities(At(b, s, x), o2) % QMod
  BY DEF Totals
<1>1. At(b, s, x) \in Seq(Ptrs)
  BY LevelSeq
<1>2. \A n \in 1 .. Len(At(b, s, x)) : o2[At(b, s, x)[n]].quantity = o[At(b, s, x)[n]].quantity
  BY LevelSeq DEF Holds
<1>3. SumOfQuantities(At(b, s, x), o2) = SumOfQuantities(At(b, s, x), o)
  BY <1>1, <1>2, SumFrame
<1> QED BY <1>3 DEF Totals

\* addOrder writes the total of one level, with the order it adds to it
\* (OrderBook.hpp:94-115).
LEMMA InsertTotals ==
  ASSUME NEW b, TypedBook(b), NEW o \in [Ptrs -> Orders], Totals(b, o), NEW p \in Ptrs
  PROVE  Totals(Insert(b, o, p), o)
<1> DEFINE s == o[p].side
           x == o[p].price
           l == LevelAdd(b.levels[s][x], p, o)
           c == Insert(b, o, p)
<1>1. s \in Sides /\ x \in AnyPrice
  BY DEF Orders
<1>2. c.levels = [b.levels EXCEPT ![s] = [@ EXCEPT ![x] = l]]
  BY DEF Insert, UpdateBest, TypedBook, Books
<1>3. b.levels \in [Sides -> [AnyPrice -> Levels]]
  BY DEF TypedBook, Books
<1>4. l.total = SumOfQuantities(l.orders, o) % QMod
  <2>1. b.levels[s][x] \in Levels
    BY <1>1, <1>3
  <2>2. b.levels[s][x].total = SumOfQuantities(b.levels[s][x].orders, o) % QMod
    BY <1>1 DEF Totals, At
  <2> HIDE DEF s, x
  <2> QED BY <2>1, <2>2, LevelAddTotal
<1> HIDE DEF s, x, l, c
<1> SUFFICES ASSUME NEW r \in Sides, NEW y \in AnyPrice
             PROVE  c.levels[r][y].total = SumOfQuantities(At(c, r, y), o) % QMod
  BY DEF Totals, c
<1>5. CASE r = s /\ y = x
  <2>1. c.levels[r][y] = l
    BY <1>1, <1>2, <1>3, <1>5
  <2> QED BY <1>4, <2>1 DEF At
<1>6. CASE r # s \/ y # x
  <2>1. c.levels[r][y] = b.levels[r][y]
    BY <1>1, <1>2, <1>3, <1>6
  <2> QED BY <2>1 DEF At, Totals
<1> QED BY <1>5, <1>6

\* cancelOrder takes an order and its quantity out of one level, and an empty level
\* out of the ladder (OrderBook.hpp:117-136).
LEMMA CancelOrderTotals ==
  ASSUME NEW b, TypedBook(b), NEW o \in [Ptrs -> Orders], Totals(b, o), NEW id \in AnyId
  PROVE  Totals(CancelOrder(b, o, id), o)
<1> DEFINE p == b.order_map[id]
           s == o[p].side
           x == o[p].price
           m == LevelRemove(b.levels[s][x], id, o)
           l == IF m.orders = <<>> THEN EmptyLevel ELSE m
           c == CancelOrder(b, o, id)
<1>1. CASE p = NoOrder \/ x \notin b.keys[s]
  BY <1>1 DEF CancelOrder
<1>2. CASE p # NoOrder /\ x \in b.keys[s]
  <2>1. b.levels \in [Sides -> [AnyPrice -> Levels]] /\ p \in Ptrs
    BY <1>2 DEF TypedBook, Books
  <2>2. s \in Sides /\ x \in AnyPrice
    BY <2>1 DEF Orders
  <2>3. c.levels = [b.levels EXCEPT ![s] = [@ EXCEPT ![x] = l]]
    BY <1>2 DEF CancelOrder, Erase, UpdateBest, TypedBook, Books
  <2>4. l.total = SumOfQuantities(l.orders, o) % QMod
    <3>1. b.levels[s][x] \in Levels
      BY <2>1, <2>2
    <3>2. b.levels[s][x].total = SumOfQuantities(b.levels[s][x].orders, o) % QMod
      BY <2>2 DEF Totals, At
    <3>3. m.total = SumOfQuantities(m.orders, o) % QMod
      <4> HIDE DEF s, x
      <4> QED BY <3>1, <3>2, LevelRemoveTotal
    <3>4. EmptyLevel.total = SumOfQuantities(EmptyLevel.orders, o) % QMod
      <4>1. SumOfQuantities(<<>>, o) = 0
        BY SumEmpty
      <4>2. 0 % QMod = 0
        BY OrderBookAssumption
      <4> QED BY <4>1, <4>2 DEF EmptyLevel
    <3> HIDE DEF m
    <3> QED BY <3>3, <3>4
  <2> HIDE DEF s, x, l, c, m, p
  <2> SUFFICES ASSUME NEW r \in Sides, NEW y \in AnyPrice
               PROVE  c.levels[r][y].total = SumOfQuantities(At(c, r, y), o) % QMod
    BY DEF Totals, c
  <2>5. CASE r = s /\ y = x
    <3>1. c.levels[r][y] = l
      BY <2>1, <2>2, <2>3, <2>5
    <3> QED BY <2>4, <3>1 DEF At
  <2>6. CASE r # s \/ y # x
    <3>1. c.levels[r][y] = b.levels[r][y]
      BY <2>1, <2>2, <2>3, <2>6
    <3> QED BY <3>1 DEF At, Totals
  <2> QED BY <2>5, <2>6
<1> QED BY <1>1, <1>2

\* A new book has no orders and totals of 0.
LEMMA InitTotals == Init => Totals(book, ord)
<1> SUFFICES ASSUME Init PROVE Totals(book, ord)
  OBVIOUS
<1>1. ord \in [Ptrs -> Orders]
  BY InitType DEF TypeInv, TypeOK
<1>2. SumOfQuantities(<<>>, ord) = 0
  BY <1>1, SumEmpty
<1>3. 0 % QMod = 0
  BY OrderBookAssumption
<1>4. \A s \in Sides, x \in AnyPrice : book.levels[s][x] = EmptyLevel
  BY DEF Init, EmptyBook
<1> QED BY <1>2, <1>3, <1>4 DEF Totals, At, EmptyLevel

\* Every call keeps the totals.  modifyOrder writes the quantity of an order that
\* cancelOrder has taken out before: it rests in no level then, by the index.
LEMMA NextTotals ==
  ASSUME ReuseIds = FALSE, IndexInv, Totals(book, ord), TypeInv', [BookNext]_bookVars
  PROVE  Totals(book', ord')
<1>1. /\ TypedBook(book) /\ LadderInv(book) /\ Index(book, ord)
      /\ ord \in [Ptrs -> Orders] /\ ord' \in [Ptrs -> Orders]
  BY DEF IndexInv, LadderInv, TypeInv, TypeOK
<1>2. ASSUME NEW p \in Ptrs, NEW o \in NewOrders, AddOrder(p, o)
      PROVE  Totals(book', ord')
  <2>1. /\ ~Holds(book, p)
        /\ book' = Submit(book, ord', p)
        /\ \A q \in Ptrs \ {p} : ord'[q] = ord[q]
    BY <1>1, <1>2, RestingIsHeld DEF AddOrder
  <2>2. Totals(book, ord')
    BY <1>1, <2>1, TotalsFrame
  <2> QED BY <1>1, <2>1, <2>2, InsertTotals DEF Submit
<1>3. ASSUME NEW id \in Ids, Cancel(id)
      PROVE  Totals(book', ord')
  BY <1>1, <1>3, CancelOrderTotals DEF Cancel, AnyId
<1>4. ASSUME NEW id \in Ids, NEW x \in Prices, NEW q \in Sizes, ModifyOrder(id, x, q)
      PROVE  Totals(book', ord')
  <2> DEFINE p == book.order_map[id]
             c == CancelOrder(book, ord, id)
  <2>1. /\ p # NoOrder /\ p \in Ptrs
        /\ book' = Submit(c, ord', p)
        /\ \A r \in Ptrs \ {p} : ord'[r] = ord[r]
    BY <1>1, <1>4 DEF ModifyOrder, TypedBook, Books, AnyId, Orders
  <2>2. ~Holds(c, p)
    BY <1>1, <2>1, CancelOrderIndex DEF AnyId
  <2>3. TypedBook(c) /\ Totals(c, ord)
    BY <1>1, CancelOrderType, CancelOrderTotals DEF AnyId
  <2> HIDE DEF c
  <2>4. Totals(c, ord')
    BY <1>1, <2>1, <2>2, <2>3, TotalsFrame
  <2> QED BY <1>1, <2>1, <2>3, <2>4, InsertTotals DEF Submit
<1>5. CASE UNCHANGED bookVars
  BY <1>5 DEF bookVars
<1> QED BY <1>2, <1>3, <1>4, <1>5 DEF BookNext

\* A level's total is what its orders add up to, modulo the width of Quantity,
\* however often it has wrapped, through adds, cancels and amends, when no live id
\* is reused (OrderBook.hpp:20-46).  It says nothing of trades, which write quantities
\* in place and break it (Matcher.hpp:85).
THEOREM BookTotalsAreExact ==
  ASSUME ReuseIds = FALSE
  PROVE  BookSpec => []LevelTotalsAreExact
<1> DEFINE TotalsInv == IndexInv /\ Totals(book, ord)
<1>1. Init => TotalsInv
  BY InitType, InitLadder, InitIndex, InitTotals DEF IndexInv
<1>2. TotalsInv /\ [BookNext]_bookVars => TotalsInv'
  <2> SUFFICES ASSUME TotalsInv, [BookNext]_bookVars PROVE TotalsInv'
    OBVIOUS
  <2>1. TypeInv' /\ LadderInv(book)'
    BY NextType, NextLadder DEF IndexInv
  <2>2. Index(book', ord')
    BY <2>1, NextIndex
  <2>3. IndexInv'
    BY <2>1, <2>2 DEF IndexInv, Index, LevelsAreIndexed, IndexIsInLevels, NoOrderTwice, At
  <2>4. Totals(book', ord')
    BY <2>1, NextTotals
  <2> QED BY <2>3, <2>4 DEF Totals, At, SumOfQuantities
<1>3. TotalsInv => LevelTotalsAreExact
  BY DEF Totals, LevelTotalsAreExact
<1> QED BY <1>1, <1>2, <1>3, PTL DEF BookSpec

-----------------------------------------------------------------------------
(* What a trade is made from *)

\* getBestBid and getBestAsk return nullptr or an order (OrderBook.hpp:172-194).
LEMMA BestOrderType ==
  ASSUME NEW b, LadderInv(b), NEW s \in Sides
  PROVE  /\ BestOrder(b, s) \in Ptrs \cup {NoOrder}
         /\ b.keys[s] = {} => BestOrder(b, s) = NoOrder
         /\ b.keys[s] # {} => /\ BestOrder(b, s) \in Ptrs
                              /\ Len(At(b, s, TopPrice(s, b.keys[s]))) > 0
                              /\ BestOrder(b, s) = At(b, s, TopPrice(s, b.keys[s]))[1]
<1> DEFINE x == TopPrice(s, b.keys[s])
<1>1. TypedBook(b) /\ b.keys[s] \subseteq AnyPrice /\ IsFiniteSet(b.keys[s])
  BY DEF LadderInv, TypedBook, LaddersFinite, Books
<1>2. CASE b.keys[s] = {}
  BY <1>2 DEF BestOrder
<1>3. CASE b.keys[s] # {}
  <2>1. x \in b.keys[s] /\ x \in AnyPrice
    BY <1>1, <1>3, TopPriceIsTop, PricesAreIntegers
  <2>2. At(b, s, x) # <<>> /\ At(b, s, x) \in Seq(Ptrs)
    BY <1>1, <2>1, LevelSeq DEF LadderInv, NoEmptyLevel
  <2>3. Len(At(b, s, x)) > 0 /\ At(b, s, x)[1] \in Ptrs
    BY <2>2, EmptySeq, LenProperties, ElementOfSeq
  <2>4. BestOrder(b, s) = At(b, s, x)[1]
    BY <1>3, <2>2 DEF BestOrder, At
  <2> QED BY <1>3, <2>3, <2>4
<1> QED BY <1>2, <1>3

\* match_qty is the quantity of one of the two orders, and no more than either
\* (Matcher.hpp:50).
LEMMA MatchQtyBounds ==
  ASSUME NEW bid \in Orders, NEW ask \in Orders
  PROVE  /\ MatchQty(bid, ask) \in 0 .. QMod - 1
         /\ MatchQty(bid, ask) =< bid.quantity
         /\ MatchQty(bid, ask) =< ask.quantity
<1>1. bid.quantity \in Int /\ ask.quantity \in Int
  BY OrderBookAssumption DEF Orders
<1>2. \E m \in {bid.quantity, ask.quantity} : \A q \in {bid.quantity, ask.quantity} : m =< q
  BY <1>1
<1>3. /\ MatchQty(bid, ask) \in {bid.quantity, ask.quantity}
      /\ \A q \in {bid.quantity, ask.quantity} : MatchQty(bid, ask) =< q
  BY <1>2 DEF MatchQty, Min
<1> QED BY <1>3, OrderBookAssumption DEF Orders

\* A trade takes shares off an order and nothing else (Matcher.hpp:83-86).
LEMMA ReduceType ==
  ASSUME NEW o \in [Ptrs -> Orders], NEW p \in Ptrs, NEW qty \in 0 .. QMod - 1
  PROVE  /\ Reduce(o, p, qty) \in [Ptrs -> Orders]
         /\ \A q \in Ptrs : /\ Reduce(o, p, qty)[q].id = o[q].id
                            /\ Reduce(o, p, qty)[q].side = o[q].side
                            /\ Reduce(o, p, qty)[q].price = o[q].price
         /\ \A q \in Ptrs \ {p} : Reduce(o, p, qty)[q] = o[q]
<1> DEFINE n == (o[p].quantity - qty) % QMod
<1>1. n \in 0 .. QMod - 1
  BY OrderBookAssumption DEF Orders
<1>2. Reduce(o, p, qty) = [o EXCEPT ![p] = [o[p] EXCEPT !.quantity = n]]
  BY DEF Reduce
<1> HIDE DEF n
<1>3. o[p] \in Orders
  OBVIOUS
<1>4. [o[p] EXCEPT !.quantity = n] \in Orders
  BY <1>1, <1>3 DEF Orders
<1>5. /\ [o[p] EXCEPT !.quantity = n].id = o[p].id
      /\ [o[p] EXCEPT !.quantity = n].side = o[p].side
      /\ [o[p] EXCEPT !.quantity = n].price = o[p].price
  BY <1>3 DEF Orders
<1> QED BY <1>2, <1>4, <1>5

\* Removing a filled order keeps the book typed, its ladders and its caches
\* (Matcher.hpp:88-94).
LEMMA RemoveIfFilledLadder ==
  ASSUME NEW b, LadderInv(b), NEW o \in [Ptrs -> Orders], NEW p \in Ptrs
  PROVE  LadderInv(RemoveIfFilled(b, o, p))
<1>1. o[p].id \in AnyId
  BY DEF Orders
<1> QED BY <1>1, CancelOrderLadder DEF RemoveIfFilled

-----------------------------------------------------------------------------
(* Type correctness *)

MatcherTypeInv == TypeInv /\ LadderInv(book) /\ MatcherTypeOK

\* A turn of the loop is made from two orders of the book: what it changes of
\* the order memory, and what it leaves of the book (Matcher.hpp:63-94).
LEMMA MatchStepEffect ==
  ASSUME MatcherTypeInv, MatchStep
  PROVE  /\ Bid \in Ptrs /\ Ask \in Ptrs
         /\ ord' \in [Ptrs -> Orders]
         /\ \A q \in Ptrs : /\ ord'[q].id = ord[q].id
                            /\ ord'[q].side = ord[q].side
                            /\ ord'[q].price = ord[q].price
         /\ \A q \in Ptrs \ {Bid, Ask} : ord'[q] = ord[q]
         /\ book' = RemoveIfFilled(RemoveIfFilled(book, ord', Bid), ord', Ask)
         /\ last_trade' \in Trades
         /\ UNCHANGED <<clock, calls, entry, phase>>
<1> DEFINE price == MatchPrice(ord[Bid], ord[Ask])
           qty == MatchQty(ord[Bid], ord[Ask])
<1>1. ord \in [Ptrs -> Orders]
  BY DEF MatcherTypeInv, TypeInv, TypeOK
<1>2. Bid \in Ptrs /\ Ask \in Ptrs
  BY BestOrderType DEF MatcherTypeInv, MatchStep, Matchable, Bid, Ask, Sides
<1>3. ord[Bid] \in Orders /\ ord[Ask] \in Orders
  BY <1>1, <1>2
<1>4. qty \in 0 .. QMod - 1
  BY <1>3, MatchQtyBounds
<1>5. price \in AnyPrice
  BY <1>3 DEF MatchPrice, Orders
<1>6. ExecuteTrade(Bid, Ask, price, qty)
  BY DEF MatchStep
<1> HIDE DEF price, qty
<1>7. ord' = Reduce(Reduce(ord, Bid, qty), Ask, qty)
  BY <1>6 DEF ExecuteTrade
<1>8. last_trade' \in Trades
  BY <1>3, <1>4, <1>5, <1>6 DEF ExecuteTrade, Trades, Orders
<1>9. /\ book' = RemoveIfFilled(RemoveIfFilled(book, ord', Bid), ord', Ask)
      /\ UNCHANGED <<clock, calls, entry, phase>>
  BY <1>6 DEF ExecuteTrade
<1>10. Reduce(ord, Bid, qty) \in [Ptrs -> Orders]
  BY <1>1, <1>2, <1>4, ReduceType
<1> QED BY <1>1, <1>2, <1>4, <1>7, <1>8, <1>9, <1>10, ReduceType

\* Trades and calls alike keep the types, the ladders and the caches.
LEMMA MatcherNextType ==
  ASSUME MatcherTypeInv, [MatcherNext]_vars
  PROVE  MatcherTypeInv'
<1> USE DEF MatcherTypeInv
<1>1. CASE CallBook
  <2>1. TypeInv'
    BY <1>1, NextType DEF CallBook
  <2>2. LadderInv(book)'
    BY <1>1, <2>1, NextLadder DEF CallBook
  <2> QED BY <1>1, <2>1, <2>2 DEF CallBook, MatcherTypeOK, TypeInv, Trades
<1>2. CASE MatchStep
  <2>1. LadderInv(RemoveIfFilled(book, ord', Bid))
    BY <1>2, MatchStepEffect, RemoveIfFilledLadder
  <2>2. LadderInv(book')
    BY <1>2, <2>1, MatchStepEffect, RemoveIfFilledLadder
  <2>3. TypeInv'
    BY <1>2, <2>2, MatchStepEffect
       DEF LadderInv, TypedBook, LaddersFinite, TypeInv, TypeOK
  <2>4. LadderInv(book)'
    BY <2>2 DEF LadderInv, TypedBook, LaddersFinite, NoEmptyLevel, CacheIsCurrent, At
  <2> QED BY <1>2, <2>3, <2>4, MatchStepEffect DEF TypeInv, MatcherTypeOK, Trades
<1>3. ASSUME UNCHANGED bookVars PROVE TypeInv' /\ LadderInv(book)'
  BY <1>3 DEF bookVars, TypeInv, TypeOK, LadderInv, TypedBook, LaddersFinite,
     NoEmptyLevel, CacheIsCurrent, At
<1>4. CASE StartMatch
  BY <1>3, <1>4 DEF StartMatch, MatcherTypeOK, TypeInv, Trades
<1>5. CASE MatchReturn
  BY <1>3, <1>5 DEF MatchReturn, MatcherTypeOK, TypeInv, Trades
<1>6. CASE UNCHANGED vars
  BY <1>3, <1>6 DEF vars, MatcherTypeOK, TypeInv, Trades
<1> QED BY <1>1, <1>2, <1>4, <1>5, <1>6 DEF MatcherNext

\* A matcher just constructed is idle over an empty book.
LEMMA MatcherInitType == MatcherInit => MatcherTypeInv
BY InitType, InitLadder DEF MatcherInit, MatcherTypeInv, MatcherTypeOK, TypeInv

\* Trades keep the types of the book and of the orders, and make trades of the
\* type of Trade; calls and trades may come in any order (Matcher.hpp:29-94).
THEOREM MatcherTypeCorrect == MatcherSpec => []MatcherTypeOK
<1>1. MatcherTypeInv => MatcherTypeOK
  BY DEF MatcherTypeInv
<1> QED BY MatcherInitType, MatcherNextType, <1>1, PTL DEF MatcherSpec

-----------------------------------------------------------------------------
(* The pointers the levels hold *)

\* The two ways of saying that an order rests in the book.
LEMMA HeldIsResting ==
  ASSUME NEW b, TypedBook(b), NEW s \in Sides, NEW p \in RestingOn(b, s)
  PROVE  \E x \in AnyPrice : \E i \in 1 .. Len(At(b, s, x)) : At(b, s, x)[i] = p
<1>1. PICK x \in AnyPrice : p \in ToSet(At(b, s, x))
  BY DEF RestingOn, At
<1>2. DOMAIN At(b, s, x) = 1 .. Len(At(b, s, x))
  BY LevelSeq, LenProperties
<1> QED BY <1>1, <1>2 DEF ToSet

\* addOrder puts one order in the book (OrderBook.hpp:94-115).
LEMMA SubmitHolds ==
  ASSUME NEW b, TypedBook(b), NEW o \in [Ptrs -> Orders], NEW p \in Ptrs,
         NEW q, Holds(Submit(b, o, p), q)
  PROVE  Holds(b, q) \/ (q = p /\ o[p].quantity # 0)
<1> DEFINE s == o[p].side
           x == o[p].price
           l == LevelAdd(b.levels[s][x], p, o)
           c == Insert(b, o, p)
<1>1. CASE o[p].quantity = 0
  BY <1>1 DEF Submit
<1>2. CASE o[p].quantity # 0
  <2>1. s \in Sides /\ x \in AnyPrice
    BY DEF Orders
  <2>2. c.levels = [b.levels EXCEPT ![s] = [@ EXCEPT ![x] = l]]
    BY DEF Insert, UpdateBest, TypedBook, Books
  <2>3. l.orders = Append(At(b, s, x), p)
    BY DEF LevelAdd, At
  <2> HIDE DEF l, s, x, c
  <2>4. PICK r \in Sides, y \in AnyPrice : \E i \in 1 .. Len(At(c, r, y)) : At(c, r, y)[i] = q
    BY <1>2 DEF Holds, Submit, c
  <2>5. CASE r = s /\ y = x
    <3>1. At(c, r, y) = Append(At(b, s, x), p)
      BY <2>1, <2>2, <2>3, <2>5 DEF At, TypedBook, Books
    <3>2. At(b, s, x) \in Seq(Ptrs) /\ Len(At(b, s, x)) \in Nat
      BY <2>1, LevelSeq
    <3>3. PICK i \in 1 .. Len(Append(At(b, s, x), p)) : Append(At(b, s, x), p)[i] = q
      BY <2>4, <3>1
    <3>4. \/ i = Len(At(b, s, x)) + 1 /\ q = p
          \/ i \in 1 .. Len(At(b, s, x)) /\ q = At(b, s, x)[i]
      BY <3>2, <3>3, AppendProperties
    <3> QED BY <2>1, <3>4, <1>2 DEF Holds
  <2>6. CASE ~(r = s /\ y = x)
    <3>1. At(c, r, y) = At(b, r, y)
      BY <2>1, <2>2, <2>6 DEF At, TypedBook, Books
    <3> QED BY <2>4, <3>1 DEF Holds
  <2> QED BY <2>5, <2>6
<1> QED BY <1>1, <1>2

\* removeOrder leaves only orders of the level (OrderBook.hpp:26-38).
LEMMA LevelRemoveKeeps ==
  ASSUME NEW l \in Levels, NEW o \in [Ptrs -> Orders], NEW id,
         NEW i \in 1 .. Len(LevelRemove(l, id, o).orders)
  PROVE  \E j \in 1 .. Len(l.orders) : LevelRemove(l, id, o).orders[i] = l.orders[j]
<1> DEFINE k == IndexOf(l, id, o)
<1>1. l.orders \in Seq(Ptrs) /\ Len(l.orders) \in Nat
  BY LenProperties DEF Levels
<1>2. CASE ~HasId(l, id, o)
  BY <1>2 DEF LevelRemove
<1>3. CASE HasId(l, id, o)
  <2>1. LevelRemove(l, id, o).orders = RemoveAt(l.orders, k)
    BY <1>3 DEF LevelRemove
  <2>2. k \in 1 .. Len(l.orders)
    BY <1>3, FirstWithId
  <2> HIDE DEF k
  <2>3. /\ Len(RemoveAt(l.orders, k)) = Len(l.orders) - 1
        /\ \A j \in 1 .. Len(l.orders) - 1 :
             RemoveAt(l.orders, k)[j] = IF j < k THEN l.orders[j] ELSE l.orders[j + 1]
    BY <1>1, <2>2, RemoveAtProperties
  <2>4. i \in 1 .. Len(l.orders) - 1
    BY <2>1, <2>3
  <2>5. i \in 1 .. Len(l.orders) /\ i + 1 \in 1 .. Len(l.orders)
    BY <1>1, <2>4
  <2> QED BY <2>1, <2>3, <2>4, <2>5
<1> QED BY <1>2, <1>3

\* cancelOrder puts no order in the book (OrderBook.hpp:117-147).
LEMMA CancelOrderHolds ==
  ASSUME NEW b, TypedBook(b), NEW o \in [Ptrs -> Orders], NEW id \in AnyId,
         NEW q, Holds(CancelOrder(b, o, id), q)
  PROVE  Holds(b, q)
<1> DEFINE p == b.order_map[id]
           s == o[p].side
           x == o[p].price
           l == LevelRemove(b.levels[s][x], id, o)
           m == IF l.orders = <<>> THEN EmptyLevel ELSE l
           c == CancelOrder(b, o, id)
<1>1. CASE c = b
  BY <1>1
<1>2. CASE c # b
  <2>1. p # NoOrder /\ c = Erase(b, o, id)
    BY <1>2 DEF CancelOrder
  <2>2. p \in Ptrs /\ s \in Sides /\ x \in AnyPrice
    BY <2>1 DEF TypedBook, Books, Orders
  <2>3. c.levels = [b.levels EXCEPT ![s] = [@ EXCEPT ![x] = m]]
    BY <2>1 DEF Erase, UpdateBest, TypedBook, Books
  <2>4. \A i \in 1 .. Len(m.orders) :
          \E j \in 1 .. Len(At(b, s, x)) : m.orders[i] = At(b, s, x)[j]
    <3>1. b.levels[s][x] \in Levels
      BY <2>2 DEF TypedBook, Books
    <3>2. \A i \in 1 .. Len(l.orders) :
            \E j \in 1 .. Len(At(b, s, x)) : l.orders[i] = At(b, s, x)[j]
      <4> HIDE DEF s, x
      <4>1. \A i \in 1 .. Len(l.orders) :
              \E j \in 1 .. Len(b.levels[s][x].orders) : l.orders[i] = b.levels[s][x].orders[j]
        BY <3>1, LevelRemoveKeeps
      <4> QED BY <4>1 DEF At
    <3> HIDE DEF l, s, x
    <3>3. m.orders = l.orders
      BY DEF EmptyLevel
    <3> HIDE DEF m
    <3> QED BY <3>2, <3>3
  <2> HIDE DEF m, s, x, c
  <2>5. PICK r \in Sides, y \in AnyPrice : \E i \in 1 .. Len(At(c, r, y)) : At(c, r, y)[i] = q
    BY DEF Holds, c
  <2>6. CASE r = s /\ y = x
    <3>1. At(c, r, y) = m.orders
      BY <2>2, <2>3, <2>6 DEF At, TypedBook, Books
    <3> QED BY <2>2, <2>4, <2>5, <3>1 DEF Holds
  <2>7. CASE ~(r = s /\ y = x)
    <3>1. At(c, r, y) = At(b, r, y)
      BY <2>2, <2>3, <2>7 DEF At, TypedBook, Books
    <3> QED BY <2>5, <3>1 DEF Holds
  <2> QED BY <2>6, <2>7
<1> QED BY <1>1, <1>2

-----------------------------------------------------------------------------
(* The index, and what rests in the book, under calls and trades *)

\* An order that rests has shares left, and a price that a caller gave it.
Sound(b, o) == \A p \in Ptrs : Holds(b, p) => o[p].quantity # 0 /\ o[p].price \in Prices

MatcherInv == MatcherTypeInv /\ Index(book, ord) /\ Sound(book, ord)

\* order_map_ finds what the levels hold (OrderBook.hpp:100-115).
LEMMA HeldIsIndexed ==
  ASSUME NEW b, TypedBook(b), NEW o \in [Ptrs -> Orders], Index(b, o), NEW p, Holds(b, p)
  PROVE  p \in Ptrs /\ b.order_map[o[p].id] = p
BY LevelSeq DEF Holds, Index, LevelsAreIndexed

\* What executeTrade removes by its id is the order it means: the index names
\* it, and it is gone afterwards (Matcher.hpp:88-94).
LEMMA RemoveIfFilledIndex ==
  ASSUME NEW b, LadderInv(b), NEW o \in [Ptrs -> Orders], Index(b, o), NEW p \in Ptrs
  PROVE  /\ Index(RemoveIfFilled(b, o, p), o)
         /\ o[p].quantity = 0 => ~Holds(RemoveIfFilled(b, o, p), p)
         /\ \A q : Holds(RemoveIfFilled(b, o, p), q) => Holds(b, q)
<1> DEFINE id == o[p].id
           c == CancelOrder(b, o, id)
<1>1. id \in AnyId /\ TypedBook(b) /\ p # NoOrder
  BY OrderBookAssumption DEF Orders, LadderInv
<1>2. CASE o[p].quantity # 0
  BY <1>2 DEF RemoveIfFilled
<1>3. CASE o[p].quantity = 0
  <2>1. RemoveIfFilled(b, o, p) = c
    BY <1>3 DEF RemoveIfFilled
  <2>2. Holds(b, p) => b.order_map[id] = p
    BY <1>1, HeldIsIndexed
  <2>3. CASE b.order_map[id] = NoOrder
    <3>1. c = b
      BY <2>3 DEF CancelOrder
    <3> HIDE DEF id, c
    <3> QED BY <1>1, <2>1, <2>2, <2>3, <3>1
  <2>4. CASE b.order_map[id] # NoOrder
    <3> HIDE DEF id
    <3>1. Index(c, o) /\ ~Holds(c, b.order_map[id])
      BY <1>1, <2>4, CancelOrderIndex
    <3>2. \A q : Holds(c, q) => Holds(b, q)
      BY <1>1, CancelOrderHolds
    <3> HIDE DEF c
    <3> QED BY <2>1, <2>2, <3>1, <3>2
  <2> QED BY <2>3, <2>4
<1> QED BY <1>2, <1>3

\* A turn of the loop keeps the index, and removes the orders it fills.
LEMMA MatchStepInv ==
  ASSUME MatcherInv, MatchStep
  PROVE  Index(book', ord') /\ Sound(book', ord')
<1> DEFINE b == RemoveIfFilled(book, ord', Bid)
<1>1. /\ MatcherTypeInv /\ LadderInv(book) /\ TypedBook(book) /\ ord \in [Ptrs -> Orders]
      /\ Index(book, ord) /\ Sound(book, ord)
  BY DEF MatcherInv, MatcherTypeInv, LadderInv, TypeInv, TypeOK
<1>2. /\ Bid \in Ptrs /\ Ask \in Ptrs
      /\ ord' \in [Ptrs -> Orders]
      /\ \A q \in Ptrs : /\ ord'[q].id = ord[q].id
                         /\ ord'[q].side = ord[q].side
                         /\ ord'[q].price = ord[q].price
      /\ \A q \in Ptrs \ {Bid, Ask} : ord'[q] = ord[q]
      /\ book' = RemoveIfFilled(b, ord', Ask)
  BY <1>1, MatchStepEffect
<1>3. Index(book, ord')
  BY <1>1, <1>2, IndexFrame
<1>4. /\ LadderInv(b) /\ Index(b, ord')
      /\ ord'[Bid].quantity = 0 => ~Holds(b, Bid)
      /\ \A q : Holds(b, q) => Holds(book, q)
  BY <1>1, <1>2, <1>3, RemoveIfFilledLadder, RemoveIfFilledIndex
<1> HIDE DEF b
<1>5. /\ Index(book', ord')
      /\ ord'[Ask].quantity = 0 => ~Holds(book', Ask)
      /\ \A q : Holds(book', q) => Holds(b, q)
  BY <1>2, <1>4, RemoveIfFilledIndex
<1>6. ASSUME NEW q \in Ptrs, Holds(book', q)
      PROVE  ord'[q].quantity # 0 /\ ord'[q].price \in Prices
  <2>1. ord[q].quantity # 0 /\ ord[q].price \in Prices
    BY <1>1, <1>4, <1>5, <1>6 DEF Sound
  <2>2. ord'[q].price \in Prices
    BY <1>2, <2>1
  <2>3. CASE q \in {Bid, Ask}
    BY <1>4, <1>5, <1>6, <2>2, <2>3
  <2>4. CASE q \notin {Bid, Ask}
    BY <1>2, <2>1, <2>4
  <2> QED BY <2>3, <2>4
<1> QED BY <1>5, <1>6 DEF Sound

\* No call puts a filled order in the book: addOrder refuses it, modifyOrder
\* leaves it out (OrderBook.hpp:83-87,151-169).
LEMMA CallSound ==
  ASSUME MatcherInv, BookNext
  PROVE  Sound(book', ord')
<1>1. /\ LadderInv(book) /\ TypedBook(book) /\ TypeInv /\ TypeInv'
      /\ ord \in [Ptrs -> Orders] /\ ord' \in [Ptrs -> Orders]
      /\ Index(book, ord) /\ Sound(book, ord)
  <2>1. TypeInv /\ TypeInv'
    BY NextType DEF MatcherInv, MatcherTypeInv
  <2> QED BY <2>1 DEF MatcherInv, MatcherTypeInv, LadderInv, TypeInv, TypeOK
<1>2. ASSUME NEW p \in Ptrs, NEW o \in NewOrders, AddOrder(p, o)
      PROVE  Sound(book', ord')
  <2>1. /\ ~Holds(book, p)
        /\ book' = Submit(book, ord', p)
        /\ \A q \in Ptrs \ {p} : ord'[q] = ord[q]
        /\ ord'[p].price \in Prices
    BY <1>1, <1>2, RestingIsHeld DEF AddOrder, NewOrders
  <2>2. \A q : Holds(book', q) => Holds(book, q) \/ (q = p /\ ord'[p].quantity # 0)
    BY <1>1, <2>1, SubmitHolds
  <2> QED BY <1>1, <2>1, <2>2 DEF Sound
<1>3. ASSUME NEW id \in Ids, Cancel(id)
      PROVE  Sound(book', ord')
  <2>1. \A q : Holds(book', q) => Holds(book, q)
    BY <1>1, <1>3, CancelOrderHolds DEF Cancel, AnyId
  <2>2. ord' = ord
    BY <1>3 DEF Cancel
  <2> QED BY <1>1, <2>1, <2>2 DEF Sound
<1>4. ASSUME NEW id \in Ids, NEW x \in Prices, NEW qty \in Sizes, ModifyOrder(id, x, qty)
      PROVE  Sound(book', ord')
  <2> DEFINE p == book.order_map[id]
             c == CancelOrder(book, ord, id)
  <2>1. /\ p # NoOrder /\ p \in Ptrs
        /\ book' = Submit(c, ord', p)
        /\ ord'[p].price = x
        /\ \A r \in Ptrs \ {p} : ord'[r] = ord[r]
    BY <1>1, <1>4 DEF ModifyOrder, TypedBook, Books, AnyId, Orders
  <2>2. ~Holds(c, p)
    BY <1>1, <2>1, CancelOrderIndex DEF AnyId
  <2>3. TypedBook(c)
    BY <1>1, CancelOrderType DEF AnyId
  <2>4. \A q : Holds(c, q) => Holds(book, q)
    BY <1>1, CancelOrderHolds DEF AnyId
  <2> HIDE DEF c, p
  <2>5. \A q : Holds(book', q) => Holds(c, q) \/ (q = p /\ ord'[p].quantity # 0)
    BY <1>1, <2>1, <2>3, SubmitHolds
  <2> QED BY <1>1, <2>1, <2>2, <2>4, <2>5 DEF Sound
<1> QED BY <1>2, <1>3, <1>4 DEF BookNext

\* Calls and trades alike keep the invariant, when no live id is reused.
LEMMA MatcherNextInv ==
  ASSUME ReuseIds = FALSE, MatcherInv, [MatcherNext]_vars
  PROVE  MatcherInv'
<1>1. MatcherTypeInv'
  BY MatcherNextType DEF MatcherInv
<1>2. Index(book', ord') /\ Sound(book', ord')
  <2>1. CASE CallBook
    <3>1. IndexInv /\ TypeInv' /\ BookNext
      BY <1>1, <2>1 DEF IndexInv, MatcherInv, MatcherTypeInv, CallBook
    <3> QED BY <3>1, NextIndex, CallSound
  <2>2. CASE MatchStep
    BY <2>2, MatchStepInv
  <2>3. CASE UNCHANGED <<book, ord>>
    BY <2>3 DEF MatcherInv
  <2> QED BY <2>1, <2>2, <2>3
          DEF MatcherNext, StartMatch, MatchReturn, vars, bookVars
<1> QED BY <1>1, <1>2 DEF MatcherInv, Index, LevelsAreIndexed, IndexIsInLevels,
        NoOrderTwice, At, Sound, Holds

\* Nothing rests in the empty book a matcher starts from.
LEMMA MatcherInitInv == MatcherInit => MatcherInv
<1> SUFFICES ASSUME MatcherInit PROVE MatcherInv
  OBVIOUS
<1>1. MatcherTypeInv /\ Index(book, ord)
  BY MatcherInitType, InitIndex DEF MatcherInit
<1>2. \A p : ~Holds(book, p)
  BY EmptySeq DEF MatcherInit, Init, EmptyBook, EmptyLevel, Holds, At
<1> QED BY <1>1, <1>2 DEF MatcherInv, Sound

\* When no id is reused while it is in the book, a filled order never stays in
\* it: executeTrade removes the right order, by its id (Matcher.hpp:88-94).
THEOREM MatcherRemovesFilledOrders ==
  ASSUME ReuseIds = FALSE
  PROVE  MatcherSpec => []NoFilledOrderRests
<1>1. MatcherInv /\ [MatcherNext]_vars => MatcherInv'
  BY MatcherNextInv
<1>2. MatcherInv => NoFilledOrderRests
  <2> SUFFICES ASSUME MatcherInv, NEW p \in Resting(book)
               PROVE  ord[p].quantity > 0
    BY DEF NoFilledOrderRests
  <2>1. TypedBook(book) /\ ord \in [Ptrs -> Orders] /\ Index(book, ord)
    BY DEF MatcherInv, MatcherTypeInv, LadderInv, TypeInv, TypeOK
  <2>2. Holds(book, p)
    BY <2>1, HeldIsResting DEF Resting, Holds, Sides
  <2>3. p \in Ptrs /\ ord[p].quantity # 0
    BY <2>1, <2>2, HeldIsIndexed DEF MatcherInv, Sound
  <2>4. ord[p].quantity \in 0 .. QMod - 1
    BY <2>1, <2>3 DEF Orders
  <2> QED BY <2>3, <2>4, OrderBookAssumption
<1> QED BY MatcherInitInv, <1>1, <1>2, PTL DEF MatcherSpec

-----------------------------------------------------------------------------
(* The caches hasMatch reads, and the orders that rest *)

\* A side with a level: its front order is at the cached price, and the cached
\* price is a price some caller gave (OrderBook.hpp:172-209,233-251).
LEMMA BestOrderPrice ==
  ASSUME MatcherInv, NEW s \in Sides, book.keys[s] # {}
  PROVE  /\ BestOrder(book, s) \in Ptrs
         /\ ord[BestOrder(book, s)].price = book.best[s]
         /\ book.best[s] \in Prices
         /\ s = "buy" => \A x \in book.keys[s] : book.best[s] >= x
         /\ s = "sell" => \A x \in book.keys[s] : book.best[s] =< x
<1> DEFINE top == TopPrice(s, book.keys[s])
           p == BestOrder(book, s)
<1>1. /\ LadderInv(book) /\ TypedBook(book) /\ Index(book, ord) /\ Sound(book, ord)
      /\ book.keys[s] \subseteq AnyPrice /\ IsFiniteSet(book.keys[s])
      /\ AnyPrice \subseteq Int
  BY PricesAreIntegers
     DEF MatcherInv, MatcherTypeInv, LadderInv, TypedBook, LaddersFinite, Books
<1>2. /\ top \in book.keys[s]
      /\ s = "buy" => \A x \in book.keys[s] : top >= x
      /\ s = "sell" => \A x \in book.keys[s] : top =< x
  BY <1>1, TopPriceIsTop
<1>3. book.best[s] = top
  BY <1>1 DEF LadderInv, CacheIsCurrent
<1>4. p \in Ptrs /\ Len(At(book, s, top)) > 0 /\ p = At(book, s, top)[1]
  BY <1>1, BestOrderType
<1> HIDE DEF p, top
<1>5. top \in AnyPrice /\ 1 \in 1 .. Len(At(book, s, top))
  BY <1>1, <1>2, <1>4, LevelSeq
<1>6. ord[p].price = top /\ Holds(book, p)
  BY <1>1, <1>4, <1>5 DEF Index, LevelsAreIndexed, Holds
<1>7. top \in Prices
  BY <1>1, <1>4, <1>6 DEF Sound
<1> QED BY <1>2, <1>3, <1>4, <1>6, <1>7 DEF p

\* An order that rests is at a price of its ladder, so that its side has one.
LEMMA RestingPrice ==
  ASSUME MatcherInv, NEW s \in Sides, NEW p \in RestingOn(book, s)
  PROVE  ord[p].price \in book.keys[s] /\ book.keys[s] \subseteq Int
<1>1. /\ LadderInv(book) /\ TypedBook(book) /\ Index(book, ord)
      /\ book.keys[s] \subseteq Int
  BY PricesAreIntegers DEF MatcherInv, MatcherTypeInv, LadderInv, TypedBook, Books
<1>2. PICK x \in AnyPrice : \E i \in 1 .. Len(At(book, s, x)) : At(book, s, x)[i] = p
  BY <1>1, HeldIsResting
<1>3. ord[p].price = x
  BY <1>1, <1>2 DEF Index, LevelsAreIndexed
<1>4. At(book, s, x) # <<>>
  BY <1>2, EmptySeq
<1> QED BY <1>1, <1>3, <1>4 DEF LadderInv, NoEmptyLevel

\* With positive prices, the loop goes on exactly while its two front orders
\* cross: the 0 of an empty side's cache is no price (OrderBook.hpp:205-209).
LEMMA MatchableIffCrossed ==
  ASSUME Prices \subseteq Nat \ {0}, MatcherInv
  PROVE  /\ HasMatchIffCrossed
         /\ Matchable <=> /\ book.keys["buy"] # {} /\ book.keys["sell"] # {}
                          /\ book.best["buy"] >= book.best["sell"]
<1>1. LadderInv(book) /\ "buy" \in Sides /\ "sell" \in Sides
  BY DEF MatcherInv, MatcherTypeInv, Sides
<1>2. \A s \in Sides : book.keys[s] = {} => BestOrder(book, s) = NoOrder /\ book.best[s] = 0
  BY <1>1, BestOrderType DEF LadderInv, CacheIsCurrent
<1>3. ASSUME NEW s \in Sides, book.keys[s] # {}
      PROVE  /\ BestOrder(book, s) # NoOrder
             /\ ord[BestOrder(book, s)].price = book.best[s]
             /\ book.best[s] \in Nat /\ book.best[s] > 0
  <2>1. /\ BestOrder(book, s) \in Ptrs
        /\ ord[BestOrder(book, s)].price = book.best[s]
        /\ book.best[s] \in Prices
    BY <1>3, BestOrderPrice
  <2>2. book.best[s] \in Nat \ {0}
    BY <2>1
  <2> QED BY <2>1, <2>2, OrderBookAssumption
<1> QED BY <1>1, <1>2, <1>3 DEF HasMatchIffCrossed, HasMatch, Matchable, Bid, Ask

\* With positive prices and no live id reused, hasMatch answers what its comment
\* says, "bid >= ask", of the orders themselves (OrderBook.hpp:204-209).
THEOREM MatcherSeesEveryCross ==
  ASSUME ReuseIds = FALSE, Prices \subseteq Nat \ {0}
  PROVE  MatcherSpec => []HasMatchIffCrossed
<1>1. MatcherInv /\ [MatcherNext]_vars => MatcherInv'
  BY MatcherNextInv
<1>2. MatcherInv => HasMatchIffCrossed
  BY MatchableIffCrossed
<1> QED BY MatcherInitInv, <1>1, <1>2, PTL DEF MatcherSpec

\* With positive prices and no live id reused, matchOrders returns only when no
\* resting buy order would pay what a resting sell order asks (Matcher.hpp:29-61).
THEOREM MatcherUncrosses ==
  ASSUME ReuseIds = FALSE, Prices \subseteq Nat \ {0}
  PROVE  MatcherSpec => MatchLeavesBookUncrossed
<1> DEFINE Uncrossed == \A b \in RestingOn(book', "buy"), a \in RestingOn(book', "sell") :
                          ord'[b].price < ord'[a].price
<1>1. MatcherInv /\ [MatcherNext]_vars => MatcherInv'
  BY MatcherNextInv
<1>2. MatcherInv /\ [MatcherNext]_vars =>
        [phase = "matching" /\ phase' = "idle" => Uncrossed]_vars
  <2> SUFFICES ASSUME MatcherInv, MatcherNext, phase = "matching", phase' = "idle"
               PROVE  Uncrossed
    BY DEF vars
  <2>1. ~CallBook /\ ~StartMatch
    BY DEF CallBook, StartMatch
  <2>2. ~MatchStep
    BY MatchStepEffect DEF MatcherInv
  <2>3. ~Matchable /\ book' = book /\ ord' = ord
    BY <2>1, <2>2 DEF MatcherNext, MatchReturn, bookVars
  <2> SUFFICES ASSUME NEW b \in RestingOn(book, "buy"), NEW a \in RestingOn(book, "sell")
               PROVE  ord[b].price < ord[a].price
    BY <2>3
  <2>4. /\ ord[b].price \in book.keys["buy"] /\ ord[b].price \in Int
        /\ ord[a].price \in book.keys["sell"] /\ ord[a].price \in Int
    BY RestingPrice DEF Sides
  <2>5. /\ book.best["buy"] \in Nat /\ ord[b].price =< book.best["buy"]
        /\ book.best["sell"] \in Nat /\ book.best["sell"] =< ord[a].price
    BY <2>4, BestOrderPrice DEF Sides
  <2>6. book.best["buy"] < book.best["sell"]
    BY <2>3, <2>4, <2>5, MatchableIffCrossed
  <2> QED BY <2>4, <2>5, <2>6
<1> QED BY MatcherInitInv, <1>1, <1>2, PTL DEF MatcherSpec, MatchLeavesBookUncrossed

\* Trades do to the book what its callers may do: the index, the ladders and the
\* caches agree between any two of them, when no live id is reused
\* (OrderBook.hpp:94-147, Matcher.hpp:63-94).
THEOREM MatcherKeepsBook ==
  ASSUME ReuseIds = FALSE
  PROVE  MatcherSpec => [](IndexMatchesLadders /\ BestPricesAreCurrent)
<1>1. MatcherInv /\ [MatcherNext]_vars => MatcherInv'
  BY MatcherNextInv
<1>2. MatcherInv => IndexMatchesLadders /\ BestPricesAreCurrent
  BY DEF MatcherInv, MatcherTypeInv, LadderInv, Index, IndexMatchesLadders, BestPricesAreCurrent
<1> QED BY MatcherInitInv, <1>1, <1>2, PTL DEF MatcherSpec

-----------------------------------------------------------------------------
(* What rests in the book, exactly, after a call or a trade *)

\* What rests in the book is what order_map_ finds (OrderBook.hpp:94-147).
LEMMA RestingIffIndexed ==
  ASSUME NEW b, TypedBook(b), NEW o \in [Ptrs -> Orders], Index(b, o), NEW p
  PROVE  p \in Resting(b) <=> p \in Ptrs /\ b.order_map[o[p].id] = p
<1>1. p \in Resting(b) => Holds(b, p)
  BY HeldIsResting DEF Resting, Holds, Sides
<1>2. Holds(b, p) => p \in Ptrs /\ b.order_map[o[p].id] = p
  BY HeldIsIndexed
<1>3. ASSUME p \in Ptrs, b.order_map[o[p].id] = p
      PROVE  p \in Resting(b)
  <2>1. o[p].id \in AnyId /\ o[p].side \in Sides /\ o[p].price \in AnyPrice /\ p # NoOrder
    BY <1>3, OrderBookAssumption DEF Orders
  <2>2. \E i \in 1 .. Len(At(b, o[p].side, o[p].price)) : At(b, o[p].side, o[p].price)[i] = p
    BY <1>3, <2>1 DEF Index, IndexIsInLevels
  <2> QED BY <2>1, <2>2, RestingIsHeld DEF Holds
<1> QED BY <1>1, <1>2, <1>3

\* addOrder indexes one order (OrderBook.hpp:103).
LEMMA InsertMap ==
  ASSUME NEW b, TypedBook(b), NEW o \in [Ptrs -> Orders], NEW p \in Ptrs
  PROVE  Insert(b, o, p).order_map = [b.order_map EXCEPT ![o[p].id] = p]
BY DEF Insert, UpdateBest, TypedBook, Books

\* cancelOrder takes one id out of the index, or none (OrderBook.hpp:120-147).
LEMMA CancelOrderMap ==
  ASSUME NEW b, LadderInv(b), NEW o \in [Ptrs -> Orders], Index(b, o), NEW id \in AnyId
  PROVE  CancelOrder(b, o, id).order_map = [b.order_map EXCEPT ![id] = NoOrder]
<1> DEFINE c == CancelOrder(b, o, id)
<1>1. b.order_map \in [AnyId -> Ptrs \cup {NoOrder}]
  BY DEF LadderInv, TypedBook, Books
<1>2. CASE b.order_map[id] = NoOrder
  BY <1>1, <1>2 DEF CancelOrder
<1>3. CASE b.order_map[id] # NoOrder
  <2>1. c.order_map[id] = NoOrder
    BY <1>3, CancelOrderIndex
  <2>2. \E v : c.order_map = [b.order_map EXCEPT ![id] = v]
    <3>1. CASE c = b
      <4>1. b.order_map = [b.order_map EXCEPT ![id] = b.order_map[id]]
        BY <1>1
      <4> HIDE DEF c
      <4> QED BY <3>1, <4>1
    <3>2. CASE c # b
      <4>1. c = Erase(b, o, id)
        BY <3>2 DEF CancelOrder
      <4> HIDE DEF c
      <4>2. Erase(b, o, id).order_map =
              [b.order_map EXCEPT ![id] = IF HasId(b.levels[o[b.order_map[id]].side][o[b.order_map[id]].price], id, o)
                                          THEN NoOrder ELSE @]
        BY DEF Erase, UpdateBest, LadderInv, TypedBook, Books
      <4> QED BY <4>1, <4>2
    <3> QED BY <3>1, <3>2
  <2> HIDE DEF c
  <2>3. PICK v : c.order_map = [b.order_map EXCEPT ![id] = v]
    BY <2>2
  <2>4. v = NoOrder
    BY <1>1, <2>1, <2>3
  <2> QED BY <2>3, <2>4 DEF c
<1> QED BY <1>2, <1>3

\* addOrder puts one order in the book and takes none out.
LEMMA InsertResting ==
  ASSUME NEW b, TypedBook(b), NEW o \in [Ptrs -> Orders], Index(b, o), NEW p \in Ptrs,
         ~Holds(b, p), b.order_map[o[p].id] = NoOrder
  PROVE  Resting(Insert(b, o, p)) = Resting(b) \cup {p}
<1> DEFINE c == Insert(b, o, p)
           id == o[p].id
<1>1. Index(c, o) /\ TypedBook(c)
  BY InsertIndex, InsertType
<1>2. /\ c.order_map = [b.order_map EXCEPT ![id] = p]
      /\ b.order_map \in [AnyId -> Ptrs \cup {NoOrder}]
      /\ id \in AnyId
  BY InsertMap DEF TypedBook, Books, Orders
<1>3. \A q : q \in Resting(c) <=> q \in Ptrs /\ c.order_map[o[q].id] = q
  BY <1>1, RestingIffIndexed
<1>4. \A q : q \in Resting(b) <=> q \in Ptrs /\ b.order_map[o[q].id] = q
  BY RestingIffIndexed
<1>5. \A q \in Ptrs : o[q].id \in AnyId /\ q # NoOrder
  BY OrderBookAssumption DEF Orders
<1> HIDE DEF c
<1>6. ASSUME NEW q \in Ptrs
      PROVE  c.order_map[o[q].id] = q <=> b.order_map[o[q].id] = q \/ q = p
  <2>1. CASE o[q].id = id
    <3>1. c.order_map[o[q].id] = p
      BY <1>2, <2>1
    <3>2. b.order_map[o[q].id] # q
      BY <1>5, <2>1
    <3> QED BY <3>1, <3>2
  <2>2. CASE o[q].id # id
    <3>1. c.order_map[o[q].id] = b.order_map[o[q].id] /\ q # p
      BY <1>2, <1>5, <2>2
    <3> QED BY <3>1
  <2> QED BY <2>1, <2>2
<1>7. \A q : q \in Resting(c) <=> q \in Resting(b) \cup {p}
  BY <1>3, <1>4, <1>6
<1> QED BY <1>7 DEF c

\* cancelOrder takes the order it is asked for out of the book, and no other.
LEMMA CancelOrderResting ==
  ASSUME NEW b, LadderInv(b), NEW o \in [Ptrs -> Orders], Index(b, o), NEW id \in AnyId
  PROVE  Resting(CancelOrder(b, o, id)) = Resting(b) \ {b.order_map[id]}
<1> DEFINE c == CancelOrder(b, o, id)
           p == b.order_map[id]
<1>1. TypedBook(b) /\ TypedBook(c) /\ Index(c, o)
  <2>1. TypedBook(b) /\ TypedBook(c)
    BY CancelOrderType DEF LadderInv
  <2>2. CASE p = NoOrder
    BY <2>1, <2>2 DEF CancelOrder
  <2>3. CASE p # NoOrder
    BY <2>1, <2>3, CancelOrderIndex
  <2> QED BY <2>2, <2>3
<1>2. /\ c.order_map = [b.order_map EXCEPT ![id] = NoOrder]
      /\ b.order_map \in [AnyId -> Ptrs \cup {NoOrder}]
  BY CancelOrderMap DEF LadderInv, TypedBook, Books
<1>3. \A q : q \in Resting(c) <=> q \in Ptrs /\ c.order_map[o[q].id] = q
  BY <1>1, RestingIffIndexed
<1>4. \A q : q \in Resting(b) <=> q \in Ptrs /\ b.order_map[o[q].id] = q
  BY <1>1, RestingIffIndexed
<1>5. \A q \in Ptrs : o[q].id \in AnyId /\ q # NoOrder
  BY OrderBookAssumption DEF Orders
<1>6. p # NoOrder => o[p].id = id
  BY DEF Index, IndexIsInLevels
<1> HIDE DEF c
<1>7. ASSUME NEW q \in Ptrs
      PROVE  c.order_map[o[q].id] = q <=> b.order_map[o[q].id] = q /\ q # p
  <2>1. CASE o[q].id = id
    <3>1. c.order_map[o[q].id] # q
      BY <1>2, <1>5, <2>1
    <3> QED BY <2>1, <3>1
  <2>2. CASE o[q].id # id
    <3>1. c.order_map[o[q].id] = b.order_map[o[q].id]
      BY <1>2, <1>5, <2>2
    <3>2. q # p
      BY <1>5, <1>6, <2>2
    <3> QED BY <3>1, <3>2
  <2> QED BY <2>1, <2>2
<1>8. \A q : q \in Resting(c) <=> q \in Resting(b) \ {p}
  BY <1>3, <1>4, <1>7
<1> QED BY <1>8 DEF c

\* executeTrade takes an order out of the book if it is filled, and no other.
LEMMA RemoveIfFilledResting ==
  ASSUME NEW b, LadderInv(b), NEW o \in [Ptrs -> Orders], Index(b, o), NEW p \in Resting(b)
  PROVE  Resting(RemoveIfFilled(b, o, p)) =
           IF o[p].quantity = 0 THEN Resting(b) \ {p} ELSE Resting(b)
<1>1. TypedBook(b)
  BY DEF LadderInv
<1>2. p \in Ptrs /\ b.order_map[o[p].id] = p
  BY <1>1, RestingIffIndexed
<1>3. o[p].id \in AnyId
  BY <1>2 DEF Orders
<1> QED BY <1>2, <1>3, CancelOrderResting DEF RemoveIfFilled

-----------------------------------------------------------------------------
(* The order in which the resting orders came *)

\* Orders that rest entered the book at different calls, and their time stamps
\* say which of them came first.
Ranked(b, o, e, n, now) ==
  \A p, q \in Resting(b) :
    /\ e[p] \in 1 .. n
    /\ o[p].timestamp =< now
    /\ p # q => e[p] # e[q]
    /\ e[p] < e[q] <=> o[p].timestamp < o[q].timestamp

\* MatcherInv, with each level in the order of its stamps, and these in the order
\* of the calls.
RefinementInv ==
  MatcherInv /\ Fifo(book, ord, clock) /\ Ranked(book, ord, entry, calls, clock)

\* Fewer orders are still ranked, as are orders that keep their stamps.
LEMMA RankedFrame ==
  ASSUME NEW b, NEW c, Resting(c) \subseteq Resting(b), NEW o, NEW o2, NEW e, NEW n, NEW now,
         Ranked(b, o, e, n, now),
         \A p \in Resting(c) : o2[p].timestamp = o[p].timestamp
  PROVE  Ranked(c, o2, e, n, now)
<1>1. \A p, q \in Resting(c) : p \in Resting(b) /\ q \in Resting(b)
  OBVIOUS
<1> QED BY <1>1 DEF Ranked

\* An order that joins those of book b, later and with a later stamp, goes
\* behind all of them.
LEMMA RankedInsert ==
  ASSUME NEW b, Ranked(b, ord, entry, calls, clock),
         NEW p, p \notin Resting(b), Resting(book') \subseteq Resting(b) \cup {p},
         calls \in Nat, calls' = calls + 1,
         clock \in Nat, clock' \in Nat, clock < clock',
         \A q \in Resting(b) : /\ ord[q].timestamp \in Nat
                               /\ ord'[q] = ord[q] /\ entry'[q] = entry[q],
         ord'[p].timestamp = clock', entry'[p] = calls'
  PROVE  Ranked(book', ord', entry', calls', clock')
<1>1. \A q \in Resting(b) : /\ entry'[q] \in 1 .. calls
                            /\ ord'[q].timestamp \in Nat /\ ord'[q].timestamp =< clock
  BY DEF Ranked
<1> SUFFICES ASSUME NEW q \in Resting(book'), NEW r \in Resting(book')
             PROVE  /\ entry'[q] \in 1 .. calls'
                    /\ ord'[q].timestamp =< clock'
                    /\ q # r => entry'[q] # entry'[r]
                    /\ entry'[q] < entry'[r] <=> ord'[q].timestamp < ord'[r].timestamp
  BY DEF Ranked
<1>2. q \in Resting(b) \/ q = p
  OBVIOUS
<1>3. r \in Resting(b) \/ r = p
  OBVIOUS
<1>4. CASE q \in Resting(b) /\ r \in Resting(b)
  <2>1. /\ q # r => entry'[q] # entry'[r]
        /\ entry'[q] < entry'[r] <=> ord'[q].timestamp < ord'[r].timestamp
    BY <1>4 DEF Ranked
  <2> QED BY <1>1, <1>4, <2>1
<1>5. CASE q \in Resting(b) /\ r = p
  <2>1. /\ entry'[q] \in 1 .. calls
        /\ ord'[q].timestamp \in Nat /\ ord'[q].timestamp =< clock
        /\ entry'[r] = calls + 1 /\ ord'[r].timestamp = clock'
    BY <1>1, <1>5
  <2> QED BY <2>1
<1>6. CASE q = p /\ r \in Resting(b)
  <2>1. /\ entry'[r] \in 1 .. calls
        /\ ord'[r].timestamp \in Nat /\ ord'[r].timestamp =< clock
        /\ entry'[q] = calls + 1 /\ ord'[q].timestamp = clock'
    BY <1>1, <1>6
  <2> QED BY <2>1
<1>7. CASE q = p /\ r = p
  BY <1>7
<1> QED BY <1>2, <1>3, <1>4, <1>5, <1>6, <1>7

\* Nothing rests at first.
LEMMA RefinementInit == MatcherInit => RefinementInv /\ Resting(book) = {}
<1> SUFFICES ASSUME MatcherInit PROVE RefinementInv /\ Resting(book) = {}
  OBVIOUS
<1>1. MatcherInv /\ Fifo(book, ord, clock)
  BY MatcherInitInv, InitFifo DEF MatcherInit
<1>2. \A p : ~Holds(book, p)
  BY EmptySeq DEF MatcherInit, Init, EmptyBook, EmptyLevel, Holds, At
<1>3. TypedBook(book)
  BY <1>1 DEF MatcherInv, MatcherTypeInv, LadderInv
<1>4. \A p : p \notin Resting(book)
  BY <1>2, <1>3, HeldIsResting DEF Resting, Holds, Sides
<1> QED BY <1>1, <1>4 DEF RefinementInv, Ranked

\* What a state of the invariant gives, in the terms of its parts.
LEMMA RefinementParts ==
  ASSUME RefinementInv
  PROVE  /\ MatcherInv /\ MatcherTypeInv /\ TypeInv /\ IndexInv /\ PriorityInv
         /\ LadderInv(book) /\ TypedBook(book) /\ Index(book, ord) /\ Sound(book, ord)
         /\ Fifo(book, ord, clock) /\ Ranked(book, ord, entry, calls, clock)
         /\ ord \in [Ptrs -> Orders] /\ entry \in [Ptrs -> 0 .. MaxCalls]
         /\ clock \in Nat /\ calls \in Nat
         /\ book.order_map \in [AnyId -> Ptrs \cup {NoOrder}]
         /\ Resting(book) \subseteq Ptrs
         /\ \A p \in Resting(book) : ord[p] \in Orders /\ book.order_map[ord[p].id] = p
<1>1. /\ MatcherInv /\ MatcherTypeInv /\ TypeInv /\ IndexInv /\ PriorityInv
      /\ LadderInv(book) /\ TypedBook(book) /\ Index(book, ord) /\ Sound(book, ord)
      /\ Fifo(book, ord, clock) /\ Ranked(book, ord, entry, calls, clock)
  BY DEF RefinementInv, MatcherInv, MatcherTypeInv, IndexInv, PriorityInv, LadderInv
<1>2. /\ ord \in [Ptrs -> Orders] /\ entry \in [Ptrs -> 0 .. MaxCalls]
      /\ clock \in Nat /\ calls \in Nat
  BY <1>1, OrderBookAssumption DEF TypeInv, TypeOK
<1>3. book.order_map \in [AnyId -> Ptrs \cup {NoOrder}]
  BY <1>1 DEF TypedBook, Books
<1>4. \A p \in Resting(book) : p \in Ptrs /\ book.order_map[ord[p].id] = p
  BY <1>1, <1>2, RestingIffIndexed
<1>5. \A p \in Resting(book) : ord[p] \in Orders
  BY <1>2, <1>4
<1> QED BY <1>1, <1>2, <1>3, <1>4, <1>5

-----------------------------------------------------------------------------
(* What each step does to the resting orders *)

\* The book stamps the orders, from a clock that goes forward at each read, and
\* no id is used for two orders of the book at once.
StampsAreDistinct == ReuseIds = FALSE /\ CallerStamps = FALSE /\ ClockSteps \subseteq Nat \ {0}

\* addOrder of an order without quantity changes nothing that rests; any other
\* order joins the book, behind all that rest (OrderBook.hpp:83-115).
LEMMA AddOrderEffect ==
  ASSUME StampsAreDistinct, RefinementInv, NEW p \in Ptrs, NEW o \in NewOrders, AddOrder(p, o)
  PROVE  /\ p \notin Resting(book)
         /\ \A q \in Resting(book) : ord[q].id # o.id
         /\ Resting(book') = IF o.quantity = 0 THEN Resting(book) ELSE Resting(book) \cup {p}
         /\ \A q \in Ptrs \ {p} : ord'[q] = ord[q] /\ entry'[q] = entry[q]
         /\ ord'[p].id = o.id /\ ord'[p].side = o.side
         /\ ord'[p].price = o.price /\ ord'[p].quantity = o.quantity
         /\ o.quantity # 0 => ord'[p].timestamp = clock'
         /\ entry'[p] = calls + 1 /\ calls' = calls + 1
         /\ clock' \in Nat /\ clock < clock'
<1>1. /\ MatcherTypeInv /\ TypeInv /\ IndexInv /\ LadderInv(book) /\ TypedBook(book)
      /\ Index(book, ord) /\ ord \in [Ptrs -> Orders] /\ entry \in [Ptrs -> 0 .. MaxCalls]
      /\ clock \in Nat
      /\ \A q \in Resting(book) : ord[q] \in Orders /\ book.order_map[ord[q].id] = q
      /\ Resting(book) \subseteq Ptrs
  BY RefinementParts
<1>2. o \in Orders /\ o.timestamp = 0 /\ o.id \in Ids
  BY <1>1, NewOrderType DEF NewOrders, Stamps, StampsAreDistinct
<1>3. /\ p \notin Resting(book) /\ book.order_map[o.id] = NoOrder
      /\ calls' = calls + 1 /\ ReadClock
      /\ book' = Submit(book, ord', p)
      /\ entry' = [entry EXCEPT ![p] = calls']
      /\ ord' = [ord EXCEPT ![p] = IF o.quantity = 0 THEN o ELSE [o EXCEPT !.timestamp = clock']]
  BY <1>2 DEF AddOrder, Count, StampsAreDistinct
<1>4. clock' \in Nat /\ clock < clock'
  <2>1. PICK d \in ClockSteps : clock' = clock + d
    BY <1>3 DEF ReadClock
  <2>2. d \in Nat \ {0}
    BY <2>1 DEF StampsAreDistinct
  <2> QED BY <1>1, <2>1, <2>2
<1>5. ord'[p] = IF o.quantity = 0 THEN o ELSE [o EXCEPT !.timestamp = clock']
  BY <1>1, <1>3
<1>6. /\ ord'[p].id = o.id /\ ord'[p].side = o.side
      /\ ord'[p].price = o.price /\ ord'[p].quantity = o.quantity
      /\ o.quantity # 0 => ord'[p].timestamp = clock'
      /\ ord'[p] \in Orders
  BY <1>2, <1>4, <1>5 DEF Orders
<1>7. /\ \A q \in Ptrs \ {p} : ord'[q] = ord[q] /\ entry'[q] = entry[q]
      /\ entry'[p] = calls + 1
      /\ ord' \in [Ptrs -> Orders]
  BY <1>1, <1>3, <1>6
<1>8. \A q \in Resting(book) : ord[q].id # o.id
  BY <1>1, <1>3, OrderBookAssumption
<1>9. CASE o.quantity = 0
  BY <1>3, <1>4, <1>6, <1>7, <1>8, <1>9 DEF Submit
<1>10. CASE o.quantity # 0
  <2>1. ~Holds(book, p)
    BY <1>1, <1>3, RestingIsHeld
  <2>2. Index(book, ord')
    BY <1>1, <1>7, <2>1, IndexFrame
  <2>3. book' = Insert(book, ord', p) /\ book.order_map[ord'[p].id] = NoOrder
    BY <1>3, <1>6, <1>10 DEF Submit
  <2>4. Resting(book') = Resting(book) \cup {p}
    BY <1>1, <1>7, <2>1, <2>2, <2>3, InsertResting
  <2> QED BY <1>3, <1>4, <1>6, <1>7, <1>8, <1>10, <2>4
<1> QED BY <1>9, <1>10

\* cancelOrder of a known id takes the order of that id out of the book.
LEMMA CancelEffect ==
  ASSUME RefinementInv, NEW id \in Ids, Cancel(id)
  PROVE  /\ book.order_map[id] \in Resting(book)
         /\ ord[book.order_map[id]].id = id
         /\ Resting(book') = Resting(book) \ {book.order_map[id]}
<1>1. /\ LadderInv(book) /\ TypedBook(book) /\ Index(book, ord) /\ ord \in [Ptrs -> Orders]
      /\ book.order_map \in [AnyId -> Ptrs \cup {NoOrder}]
  BY RefinementParts
<1>2. id \in AnyId /\ book.order_map[id] # NoOrder /\ book' = CancelOrder(book, ord, id)
  BY DEF Cancel, AnyId
<1>3. book.order_map[id] \in Ptrs /\ ord[book.order_map[id]].id = id
  BY <1>1, <1>2 DEF Index, IndexIsInLevels
<1> QED BY <1>1, <1>2, <1>3, RestingIffIndexed, CancelOrderResting

\* modifyOrder leaves an order without quantity out of the book, and puts any
\* other behind all that rest (OrderBook.hpp:150-169).
LEMMA ModifyOrderEffect ==
  ASSUME StampsAreDistinct, RefinementInv, NEW id \in Ids, NEW x \in Prices, NEW n \in Sizes,
         ModifyOrder(id, x, n), NEW p, p = book.order_map[id]
  PROVE  /\ p \in Resting(book)
         /\ Resting(book') = IF n = 0 THEN Resting(book) \ {p} ELSE Resting(book)
         /\ \A q \in Ptrs \ {p} : ord'[q] = ord[q] /\ entry'[q] = entry[q]
         /\ ord'[p] = [ord[p] EXCEPT !.price = x, !.quantity = n, !.timestamp = clock']
         /\ entry'[p] = calls + 1 /\ calls' = calls + 1
         /\ clock' \in Nat /\ clock < clock'
<1> DEFINE c == CancelOrder(book, ord, id)
<1>1. /\ MatcherTypeInv /\ TypeInv /\ LadderInv(book) /\ TypedBook(book)
      /\ Index(book, ord) /\ ord \in [Ptrs -> Orders] /\ entry \in [Ptrs -> 0 .. MaxCalls]
      /\ clock \in Nat
      /\ book.order_map \in [AnyId -> Ptrs \cup {NoOrder}]
  BY RefinementParts
<1>2. /\ id \in AnyId /\ p # NoOrder /\ calls' = calls + 1 /\ ReadClock
      /\ book' = Submit(c, ord', p)
      /\ entry' = [entry EXCEPT ![p] = calls']
      /\ ord' = [ord EXCEPT ![p].price = x, ![p].quantity = n, ![p].timestamp = clock']
  BY DEF ModifyOrder, Count, AnyId
<1>3. p \in Ptrs /\ ord[p].id = id /\ p \in Resting(book)
  <2>1. p \in Ptrs /\ ord[p].id = id
    BY <1>1, <1>2 DEF Index, IndexIsInLevels
  <2> QED BY <1>1, <2>1, RestingIffIndexed
<1>4. clock' \in Nat /\ clock < clock'
  <2>1. PICK d \in ClockSteps : clock' = clock + d
    BY <1>2 DEF ReadClock
  <2>2. d \in Nat \ {0}
    BY <2>1 DEF StampsAreDistinct
  <2> QED BY <1>1, <2>1, <2>2
<1>5. /\ ord'[p] = [ord[p] EXCEPT !.price = x, !.quantity = n, !.timestamp = clock']
      /\ \A q \in Ptrs \ {p} : ord'[q] = ord[q] /\ entry'[q] = entry[q]
      /\ entry'[p] = calls + 1
  BY <1>1, <1>2, <1>3
<1>6. ord'[p] \in Orders /\ ord'[p].id = id /\ ord'[p].quantity = n
  <2>1. x \in AnyPrice /\ n \in 0 .. QMod - 1 /\ ord[p] \in Orders
    BY <1>1, <1>3, OrderBookAssumption DEF AnyPrice
  <2> QED BY <1>3, <1>4, <1>5, <2>1 DEF Orders
<1>7. ord' \in [Ptrs -> Orders]
  BY <1>1, <1>2, <1>3, <1>5, <1>6
<1>8. /\ Index(c, ord) /\ c.order_map[id] = NoOrder /\ ~Holds(c, p)
      /\ TypedBook(c)
      /\ Resting(c) = Resting(book) \ {p}
  BY <1>1, <1>2, CancelOrderIndex, CancelOrderType, CancelOrderResting
<1> HIDE DEF c
<1>9. CASE n = 0
  BY <1>2, <1>3, <1>4, <1>5, <1>6, <1>8, <1>9 DEF Submit
<1>10. CASE n # 0
  <2>1. Index(c, ord')
    BY <1>1, <1>5, <1>7, <1>8, IndexFrame
  <2>2. book' = Insert(c, ord', p) /\ c.order_map[ord'[p].id] = NoOrder
    BY <1>2, <1>6, <1>8, <1>10 DEF Submit
  <2>3. Resting(book') = Resting(c) \cup {p}
    BY <1>3, <1>7, <1>8, <2>1, <2>2, InsertResting
  <2>4. Resting(book') = Resting(book)
    BY <1>3, <1>8, <2>3
  <2> QED BY <1>2, <1>3, <1>4, <1>5, <1>10, <2>4
<1> QED BY <1>9, <1>10

\* The shares a trade takes off an order are no more than the order has, so that
\* the subtraction does not wrap (Matcher.hpp:50,84).
LEMMA ReduceQuantity ==
  ASSUME NEW o \in [Ptrs -> Orders], NEW p \in Ptrs, NEW n \in 0 .. QMod - 1, n =< o[p].quantity
  PROVE  Reduce(o, p, n)[p] = [o[p] EXCEPT !.quantity = @ - n]
<1>1. o[p].quantity \in 0 .. QMod - 1 /\ QMod \in Nat \ {0}
  BY OrderBookAssumption DEF Orders
<1>2. (o[p].quantity - n) % QMod = o[p].quantity - n
  <2>1. o[p].quantity - n \in 0 .. QMod - 1
    BY <1>1
  <2> QED BY <1>1, <2>1
<1> QED BY <1>2 DEF Reduce

\* The two front orders rest in the book, one on each side of it.
LEMMA BestRests ==
  ASSUME RefinementInv, NEW s \in Sides, BestOrder(book, s) # NoOrder
  PROVE  /\ BestOrder(book, s) \in Resting(book) /\ BestOrder(book, s) \in Ptrs
         /\ ord[BestOrder(book, s)] \in Orders
         /\ ord[BestOrder(book, s)].side = s
         /\ book.keys[s] # {}
<1> DEFINE p == BestOrder(book, s)
           x == TopPrice(s, book.keys[s])
<1>1. /\ LadderInv(book) /\ TypedBook(book) /\ Index(book, ord) /\ ord \in [Ptrs -> Orders]
      /\ book.keys[s] \subseteq AnyPrice /\ IsFiniteSet(book.keys[s])
  <2>1. LadderInv(book) /\ TypedBook(book) /\ Index(book, ord) /\ ord \in [Ptrs -> Orders]
    BY RefinementParts
  <2> QED BY <2>1 DEF LadderInv, TypedBook, LaddersFinite, Books
<1>2. /\ book.keys[s] # {} /\ p \in Ptrs
      /\ Len(At(book, s, x)) > 0 /\ p = At(book, s, x)[1]
  BY <1>1, BestOrderType
<1>3. x \in AnyPrice
  BY <1>1, <1>2, TopPriceIsTop, PricesAreIntegers
<1> HIDE DEF p, x
<1>4. 1 \in 1 .. Len(At(book, s, x))
  BY <1>1, <1>2, <1>3, LevelSeq
<1>5. ord[p].side = s /\ book.order_map[ord[p].id] = p
  BY <1>1, <1>2, <1>3, <1>4 DEF Index, LevelsAreIndexed
<1>6. p \in Resting(book)
  BY <1>1, <1>2, <1>5, RestingIffIndexed
<1> QED BY <1>1, <1>2, <1>5, <1>6 DEF p

\* A turn of matchOrders: what it takes off the two front orders, and which of
\* them leave the book (Matcher.hpp:63-94).
LEMMA TradeEffect ==
  ASSUME RefinementInv, MatchStep, NEW n, n = MatchQty(ord[Bid], ord[Ask])
  PROVE  /\ Bid \in Resting(book) /\ Ask \in Resting(book) /\ Bid # Ask
         /\ ord[Bid] \in Orders /\ ord[Ask] \in Orders
         /\ ord[Bid].side = "buy" /\ ord[Ask].side = "sell"
         /\ n \in 0 .. QMod - 1 /\ n =< ord[Bid].quantity /\ n =< ord[Ask].quantity
         /\ ord'[Bid] = [ord[Bid] EXCEPT !.quantity = @ - n]
         /\ ord'[Ask] = [ord[Ask] EXCEPT !.quantity = @ - n]
         /\ \A q \in Ptrs \ {Bid, Ask} : ord'[q] = ord[q]
         /\ Resting(book') = Resting(book) \ {p \in {Bid, Ask} : ord[p].quantity = n}
         /\ last_trade' = [buy_id |-> ord[Bid].id, sell_id |-> ord[Ask].id, quantity |-> n,
                           price |-> MatchPrice(ord[Bid], ord[Ask])]
         /\ UNCHANGED <<clock, calls, entry, phase>>
<1> DEFINE o1 == Reduce(ord, Bid, n)
           b1 == RemoveIfFilled(book, ord', Bid)
<1>1. /\ MatcherInv /\ MatcherTypeInv /\ LadderInv(book) /\ TypedBook(book) /\ Index(book, ord)
      /\ ord \in [Ptrs -> Orders]
  BY RefinementParts
<1>2. /\ Bid \in Resting(book) /\ Ask \in Resting(book) /\ Bid \in Ptrs /\ Ask \in Ptrs
      /\ ord[Bid] \in Orders /\ ord[Ask] \in Orders
      /\ ord[Bid].side = "buy" /\ ord[Ask].side = "sell"
  BY BestRests DEF MatchStep, Matchable, Bid, Ask, Sides
<1>3. Bid # Ask
  BY <1>2
<1>4. n \in 0 .. QMod - 1 /\ n =< ord[Bid].quantity /\ n =< ord[Ask].quantity
  BY <1>2, MatchQtyBounds
<1>5. /\ \A q \in Ptrs : /\ ord'[q].id = ord[q].id
                         /\ ord'[q].side = ord[q].side
                         /\ ord'[q].price = ord[q].price
      /\ \A q \in Ptrs \ {Bid, Ask} : ord'[q] = ord[q]
      /\ ord' \in [Ptrs -> Orders]
      /\ book' = RemoveIfFilled(b1, ord', Ask)
      /\ UNCHANGED <<clock, calls, entry, phase>>
  BY <1>1, MatchStepEffect
<1>6. ord' = Reduce(o1, Ask, n)
      /\ last_trade' = [buy_id |-> ord[Bid].id, sell_id |-> ord[Ask].id, quantity |-> n,
                        price |-> MatchPrice(ord[Bid], ord[Ask])]
  BY DEF MatchStep, ExecuteTrade
<1>7. /\ o1 \in [Ptrs -> Orders] /\ o1[Ask] = ord[Ask]
      /\ o1[Bid] = [ord[Bid] EXCEPT !.quantity = @ - n]
  BY <1>1, <1>2, <1>3, <1>4, ReduceType, ReduceQuantity
<1> HIDE DEF o1
<1>8. /\ ord'[Ask] = [ord[Ask] EXCEPT !.quantity = @ - n]
      /\ ord'[Bid] = [ord[Bid] EXCEPT !.quantity = @ - n]
  <2>1. ord'[Bid] = o1[Bid]
    <3>1. \A q \in Ptrs \ {Ask} : Reduce(o1, Ask, n)[q] = o1[q]
      BY <1>2, <1>4, <1>7, ReduceType
    <3> QED BY <1>2, <1>3, <1>6, <3>1
  <2>2. ord'[Ask] = [o1[Ask] EXCEPT !.quantity = @ - n]
    BY <1>2, <1>4, <1>6, <1>7, ReduceQuantity
  <2> QED BY <1>7, <2>1, <2>2
<1>9. /\ ord'[Ask].quantity = 0 <=> ord[Ask].quantity = n
      /\ ord'[Bid].quantity = 0 <=> ord[Bid].quantity = n
  <2>1. ord'[Ask].quantity = ord[Ask].quantity - n /\ ord'[Bid].quantity = ord[Bid].quantity - n
    BY <1>2, <1>8 DEF Orders
  <2>2. ord[Ask].quantity \in 0 .. QMod - 1 /\ ord[Bid].quantity \in 0 .. QMod - 1
    BY <1>2 DEF Orders
  <2> QED BY <1>4, <2>1, <2>2, OrderBookAssumption
<1>10. Index(book, ord')
  BY <1>1, <1>5, IndexFrame
<1>11. /\ LadderInv(b1) /\ Index(b1, ord')
       /\ Resting(b1) = IF ord[Bid].quantity = n THEN Resting(book) \ {Bid} ELSE Resting(book)
  BY <1>1, <1>2, <1>5, <1>9, <1>10, RemoveIfFilledLadder, RemoveIfFilledIndex, RemoveIfFilledResting
<1> HIDE DEF b1
<1>12. Resting(book') = IF ord[Ask].quantity = n THEN Resting(b1) \ {Ask} ELSE Resting(b1)
  <2>1. Ask \in Resting(b1)
    BY <1>2, <1>3, <1>11
  <2> QED BY <1>5, <1>9, <1>11, <2>1, RemoveIfFilledResting
<1>13. Resting(book') = Resting(book) \ {p \in {Bid, Ask} : ord[p].quantity = n}
  BY <1>11, <1>12
<1> QED BY <1>2, <1>3, <1>4, <1>5, <1>6, <1>8, <1>13

\* Calls and trades keep the order in which the resting orders came.
LEMMA RefinementNext ==
  ASSUME StampsAreDistinct, RefinementInv, [MatcherNext]_vars
  PROVE  RefinementInv'
<1>1. /\ MatcherInv /\ MatcherTypeInv /\ TypeInv /\ IndexInv /\ PriorityInv
      /\ LadderInv(book) /\ TypedBook(book) /\ Index(book, ord)
      /\ Fifo(book, ord, clock) /\ Ranked(book, ord, entry, calls, clock)
      /\ ord \in [Ptrs -> Orders] /\ clock \in Nat /\ calls \in Nat
      /\ Resting(book) \subseteq Ptrs
      /\ \A q \in Resting(book) : ord[q] \in Orders
  BY RefinementParts
<1>2. /\ MatcherInv' /\ TypeInv'
  BY <1>1, MatcherNextInv DEF StampsAreDistinct, MatcherInv, MatcherTypeInv
<1>3. \A q \in Resting(book) : ord[q].timestamp \in Nat
  BY <1>1 DEF Orders
<1>4. CASE CallBook
  <2>1. BookNext
    BY <1>4 DEF CallBook
  <2>2. Fifo(book', ord', clock')
    <3>1. ClockSteps \subseteq Nat
      BY DEF StampsAreDistinct
    <3> QED BY <1>1, <1>2, <2>1, <3>1, NextFifo DEF StampsAreDistinct
  <2>3. ASSUME NEW p \in Ptrs, NEW o \in NewOrders, AddOrder(p, o)
        PROVE  Ranked(book', ord', entry', calls', clock')
    <3>1. CASE o.quantity = 0
      <4>1. /\ Resting(book') = Resting(book) /\ calls' = calls + 1
            /\ \A q \in Resting(book) : ord'[q] = ord[q] /\ entry'[q] = entry[q]
            /\ clock' \in Nat /\ clock < clock'
        BY <1>1, <2>3, <3>1, AddOrderEffect
      <4> QED BY <1>1, <1>3, <4>1 DEF Ranked
    <3>2. CASE o.quantity # 0
      <4>1. /\ Resting(book') \subseteq Resting(book) \cup {p} /\ p \notin Resting(book)
            /\ \A q \in Resting(book) : ord'[q] = ord[q] /\ entry'[q] = entry[q]
            /\ ord'[p].timestamp = clock' /\ entry'[p] = calls' /\ calls' = calls + 1
            /\ clock' \in Nat /\ clock < clock'
        BY <1>1, <2>3, <3>2, AddOrderEffect
      <4>2. \A q \in Resting(book) : /\ ord[q].timestamp \in Nat
                                     /\ ord'[q] = ord[q] /\ entry'[q] = entry[q]
        BY <1>3, <4>1
      <4>3. Ranked(book', ord', entry', calls', clock')
        BY <1>1, <4>1, <4>2, RankedInsert
      <4> QED BY <4>3
    <3> QED BY <3>1, <3>2
  <2>4. ASSUME NEW id \in Ids, Cancel(id)
        PROVE  Ranked(book', ord', entry', calls', clock')
    <3>1. Resting(book') \subseteq Resting(book) /\ UNCHANGED <<ord, clock, calls, entry>>
      BY <2>4, CancelEffect DEF Cancel
    <3> QED BY <1>1, <3>1, RankedFrame
  <2>5. ASSUME NEW id \in Ids, NEW x \in Prices, NEW n \in Sizes, ModifyOrder(id, x, n)
        PROVE  Ranked(book', ord', entry', calls', clock')
    <3> DEFINE p == book.order_map[id]
               c == CancelOrder(book, ord, id)
    <3>1. /\ p \in Resting(book) /\ Resting(book') \subseteq Resting(book)
          /\ \A q \in Ptrs \ {p} : ord'[q] = ord[q] /\ entry'[q] = entry[q]
          /\ ord'[p] = [ord[p] EXCEPT !.price = x, !.quantity = n, !.timestamp = clock']
          /\ entry'[p] = calls' /\ calls' = calls + 1
          /\ clock' \in Nat /\ clock < clock'
      <4> DEFINE r == book.order_map[id]
      <4>1. /\ r \in Resting(book)
            /\ Resting(book') = IF n = 0 THEN Resting(book) \ {r} ELSE Resting(book)
            /\ \A q \in Ptrs \ {r} : ord'[q] = ord[q] /\ entry'[q] = entry[q]
            /\ ord'[r] = [ord[r] EXCEPT !.price = x, !.quantity = n, !.timestamp = clock']
            /\ entry'[r] = calls + 1 /\ calls' = calls + 1
            /\ clock' \in Nat /\ clock < clock'
        BY <2>5, ModifyOrderEffect
      <4> HIDE DEF r
      <4>2. Resting(book') \subseteq Resting(book)
        BY <4>1
      <4> QED BY <4>1, <4>2 DEF r
    <3>2. Resting(c) = Resting(book) \ {p}
      BY <1>1, CancelOrderResting DEF AnyId
    <3> HIDE DEF c, p
    <3>3. ord'[p].timestamp = clock'
      BY <1>1, <3>1 DEF Orders
    <3>4. Ranked(c, ord, entry, calls, clock)
      BY <1>1, <3>2, RankedFrame
    <3>5. /\ Resting(book') \subseteq Resting(c) \cup {p} /\ p \notin Resting(c)
          /\ \A q \in Resting(c) : /\ ord[q].timestamp \in Nat
                                   /\ ord'[q] = ord[q] /\ entry'[q] = entry[q]
      BY <1>1, <1>3, <3>1, <3>2
    <3>6. Ranked(book', ord', entry', calls', clock')
      BY <1>1, <3>1, <3>3, <3>4, <3>5, RankedInsert
    <3> QED BY <3>6
  <2> QED BY <1>2, <2>1, <2>2, <2>3, <2>4, <2>5
       DEF BookNext, RefinementInv, Fifo, At, Ranked, Resting, RestingOn
<1>5. CASE MatchStep
  <2> DEFINE n == MatchQty(ord[Bid], ord[Ask])
             b1 == RemoveIfFilled(book, ord', Bid)
  <2>1. /\ Bid \in Resting(book) /\ Ask \in Resting(book) /\ Bid # Ask
        /\ ord[Bid] \in Orders /\ ord[Ask] \in Orders
        /\ ord'[Bid] = [ord[Bid] EXCEPT !.quantity = @ - n]
        /\ ord'[Ask] = [ord[Ask] EXCEPT !.quantity = @ - n]
        /\ \A q \in Ptrs \ {Bid, Ask} : ord'[q] = ord[q]
        /\ Resting(book') \subseteq Resting(book)
        /\ UNCHANGED <<clock, calls, entry, phase>>
    BY <1>5, TradeEffect
  <2>2. ord' \in [Ptrs -> Orders] /\ book' = RemoveIfFilled(b1, ord', Ask)
    BY <1>1, <1>5, MatchStepEffect
  <2>3. \A q \in Ptrs : ord'[q].timestamp = ord[q].timestamp
    <3> HIDE DEF n
    <3>1. ord'[Bid].timestamp = ord[Bid].timestamp /\ ord'[Ask].timestamp = ord[Ask].timestamp
      BY <2>1 DEF Orders
    <3> QED BY <2>1, <3>1
  <2>4. Fifo(book, ord', clock)
    BY <1>1, <2>2, <2>3, FifoFrame
  <2>5. ASSUME NEW b, TypedBook(b), Fifo(b, ord', clock), NEW p \in Ptrs
        PROVE  TypedBook(RemoveIfFilled(b, ord', p)) /\ Fifo(RemoveIfFilled(b, ord', p), ord', clock)
    <3>1. ord'[p].id \in AnyId
      BY <2>2 DEF Orders
    <3> QED BY <2>2, <2>5, <3>1, CancelOrderType, CancelOrderFifo DEF RemoveIfFilled
  <2>6. Fifo(book', ord', clock')
    <3>1. TypedBook(b1) /\ Fifo(b1, ord', clock)
      BY <1>1, <2>1, <2>4, <2>5
    <3> HIDE DEF b1
    <3> QED BY <1>1, <2>1, <2>2, <2>5, <3>1
  <2>7. Ranked(book', ord', entry', calls', clock')
    BY <1>1, <2>1, <2>3, RankedFrame
  <2> QED BY <1>2, <2>6, <2>7
       DEF RefinementInv, Fifo, At, Ranked, Resting, RestingOn
<1>6. CASE UNCHANGED bookVars
  BY <1>2, <1>6 DEF bookVars, RefinementInv, Fifo, At, Ranked, Resting, RestingOn
<1> QED BY <1>4, <1>5, <1>6 DEF MatcherNext, StartMatch, MatchReturn, vars

-----------------------------------------------------------------------------
(* The book and the matcher are a limit order book *)

\* An order of the book as the abstract book has it.
Live(p) == [id |-> ord[p].id, side |-> ord[p].side, price |-> ord[p].price,
            quantity |-> ord[p].quantity, rank |-> entry[p]]

\* The same order after the step.
LiveNext(p) == [id |-> ord'[p].id, side |-> ord'[p].side, price |-> ord'[p].price,
                quantity |-> ord'[p].quantity, rank |-> entry'[p]]

\* Two orders of the book are two live orders: their ids differ.
LEMMA LiveIsInjective ==
  ASSUME RefinementInv
  PROVE  /\ LiveOrders = {Live(p) : p \in Resting(book)}
         /\ \A p, q \in Resting(book) : Live(p) = Live(q) => p = q
<1>1. \A p \in Resting(book) : book.order_map[ord[p].id] = p
  BY RefinementParts
<1>2. \A p, q \in Resting(book) : Live(p) = Live(q) => ord[p].id = ord[q].id
  BY DEF Live
<1>3. LiveOrders = {Live(p) : p \in Resting(book)}
  BY DEF LiveOrders, Live
<1> QED BY <1>1, <1>2, <1>3

\* The types of a live order.
LEMMA LiveType ==
  ASSUME RefinementInv, NEW p \in Resting(book)
  PROVE  /\ Live(p).id = ord[p].id /\ Live(p).side = ord[p].side
         /\ Live(p).price = ord[p].price /\ Live(p).quantity = ord[p].quantity
         /\ Live(p).rank = entry[p]
         /\ entry[p] \in 1 .. calls /\ ord[p].timestamp \in Nat
         /\ ord[p].price \in Int /\ ord[p].side \in Sides
<1>1. entry[p] \in 1 .. calls /\ ord[p] \in Orders
  BY RefinementParts DEF Ranked
<1> QED BY <1>1, PricesAreIntegers DEF Live, Orders

\* An order rests on its own side of the book.
LEMMA RestsOnItsSide ==
  ASSUME NEW b, TypedBook(b), NEW o \in [Ptrs -> Orders], Index(b, o), NEW p \in Resting(b)
  PROVE  p \in RestingOn(b, o[p].side)
<1>1. PICK s \in Sides : p \in RestingOn(b, s)
  BY DEF Resting, Sides
<1>2. PICK x \in AnyPrice : \E i \in 1 .. Len(At(b, s, x)) : At(b, s, x)[i] = p
  BY <1>1, HeldIsResting
<1>3. s = o[p].side
  BY <1>2 DEF Index, LevelsAreIndexed
<1> QED BY <1>1, <1>3

\* The order the matcher is given first is the best of the abstract book: no
\* order of its side beats it, and none came at the same time.
LEMMA BestIsAbstractBest ==
  ASSUME RefinementInv, NEW s \in Sides, BestOrder(book, s) # NoOrder
  PROVE  Abstract!Best(s) = Live(BestOrder(book, s))
<1> DEFINE best == BestOrder(book, s)
           First(a) == \A b \in Abstract!Side(s) \ {a} : Abstract!Ahead(a, b)
<1>1. best \in Resting(book) /\ ord[best].side = s
  BY BestRests
<1>2. PriceTimePriority /\ Ranked(book, ord, entry, calls, clock)
  BY RefinementParts, FrontIsBest
<1>3. \A a : a \in Abstract!Side(s) <=>
               \E p \in Resting(book) : ord[p].side = s /\ a = Live(p)
  BY LiveIsInjective, LiveType DEF Abstract!Side
<1>4. \A p \in Resting(book) : ord[p].side = s => p \in RestingOn(book, s)
  BY RefinementParts, RestsOnItsSide
<1> HIDE DEF best
<1>5. ASSUME NEW p \in Resting(book), ord[p].side = s, p # best
      PROVE  /\ Abstract!Ahead(Live(best), Live(p))
             /\ ~Abstract!Ahead(Live(p), Live(best))
  <2>1. ~Beats(ord[p], ord[best])
    BY <1>2, <1>4, <1>5 DEF PriceTimePriority, best
  <2>2. /\ entry[p] # entry[best]
        /\ entry[p] < entry[best] <=> ord[p].timestamp < ord[best].timestamp
        /\ entry[best] < entry[p] <=> ord[best].timestamp < ord[p].timestamp
    BY <1>1, <1>2, <1>5 DEF Ranked
  <2>3. /\ entry[p] \in Nat /\ entry[best] \in Nat
        /\ ord[p].price \in Int /\ ord[best].price \in Int
        /\ ord[p].timestamp \in Nat /\ ord[best].timestamp \in Nat
    <3>1. calls \in Nat
      BY RefinementParts
    <3> QED BY <1>1, <3>1, LiveType
  <2>4. /\ Live(p).side = s /\ Live(best).side = s
        /\ Live(p).price = ord[p].price /\ Live(best).price = ord[best].price
        /\ Live(p).rank = entry[p] /\ Live(best).rank = entry[best]
    BY <1>1, <1>5, LiveType
  <2> QED BY <1>1, <1>5, <2>1, <2>2, <2>3, <2>4 DEF Beats, Abstract!Ahead, Sides
<1>6. Live(best) \in Abstract!Side(s) /\ First(Live(best))
  <2>1. Live(best) \in Abstract!Side(s)
    BY <1>1, <1>3
  <2>2. ASSUME NEW b \in Abstract!Side(s), b # Live(best)
        PROVE  Abstract!Ahead(Live(best), b)
    <3>1. PICK p \in Resting(book) : ord[p].side = s /\ b = Live(p)
      BY <1>3
    <3> QED BY <1>5, <2>2, <3>1
  <2> QED BY <2>1, <2>2
<1>7. ASSUME NEW a \in Abstract!Side(s), First(a)
      PROVE  a = Live(best)
  <2>1. PICK p \in Resting(book) : ord[p].side = s /\ a = Live(p)
    BY <1>3
  <2>2. p # best => Abstract!Ahead(Live(p), Live(best))
    BY <1>1, <1>6, <1>7, <2>1, LiveIsInjective
  <2> QED BY <1>5, <2>1, <2>2
<1> HIDE DEF First
<1>8. Abstract!Best(s) = CHOOSE a \in Abstract!Side(s) : First(a)
  BY DEF Abstract!Best, First
<1> QED BY <1>6, <1>7, <1>8 DEF best

\* The loop goes on exactly while the abstract book is crossed.
LEMMA MatchableIffAbstractCrossed ==
  ASSUME RefinementInv, Prices \subseteq Nat \ {0}
  PROVE  Matchable <=> Abstract!Crossed
<1>1. MatcherInv /\ TypedBook(book) /\ Index(book, ord)
  BY RefinementParts
<1>2. \A s, a : a \in Abstract!Side(s) <=>
                  \E p \in Resting(book) : ord[p].side = s /\ a = Live(p)
  BY LiveIsInjective, LiveType DEF Abstract!Side
<1>3. Matchable => Abstract!Crossed
  <2> SUFFICES ASSUME Matchable PROVE Abstract!Crossed
    OBVIOUS
  <2>1. /\ Bid \in Resting(book) /\ ord[Bid].side = "buy"
        /\ Ask \in Resting(book) /\ ord[Ask].side = "sell"
        /\ ord[Bid].price >= ord[Ask].price
    BY BestRests DEF Matchable, Bid, Ask, Sides
  <2>2. Live(Bid) \in Abstract!Side("buy") /\ Live(Ask) \in Abstract!Side("sell")
    BY <1>2, <2>1
  <2>3. Live(Bid).price >= Live(Ask).price
    BY <2>1, LiveType
  <2> QED BY <2>2, <2>3 DEF Abstract!Crossed
<1>4. Abstract!Crossed => Matchable
  <2> SUFFICES ASSUME Abstract!Crossed PROVE Matchable
    OBVIOUS
  <2>1. PICK b \in Abstract!Side("buy"), a \in Abstract!Side("sell") : b.price >= a.price
    BY DEF Abstract!Crossed
  <2>2. PICK p \in Resting(book) : ord[p].side = "buy" /\ b = Live(p)
    BY <1>2
  <2>3. PICK q \in Resting(book) : ord[q].side = "sell" /\ a = Live(q)
    BY <1>2
  <2>4. ord[p].price >= ord[q].price
    BY <2>1, <2>2, <2>3, LiveType
  <2>5. \A r \in Resting(book) : r \in RestingOn(book, ord[r].side)
    BY RefinementParts, RestsOnItsSide
  <2>6. /\ ord[p].price \in book.keys["buy"] /\ book.keys["buy"] \subseteq Int
        /\ ord[q].price \in book.keys["sell"] /\ book.keys["sell"] \subseteq Int
    BY <1>1, <2>2, <2>3, <2>5, RestingPrice DEF Sides
  <2>7. /\ book.best["buy"] \in Nat /\ book.best["buy"] >= ord[p].price
        /\ book.best["sell"] \in Nat /\ book.best["sell"] =< ord[q].price
    BY <1>1, <2>6, BestOrderPrice DEF Sides
  <2>8. book.best["buy"] >= book.best["sell"]
    BY <2>4, <2>6, <2>7
  <2> QED BY <1>1, <2>6, <2>8, MatchableIffCrossed
<1> QED BY <1>3, <1>4

\* A call of the book is a step of the abstract book, or none: addOrder enters an
\* order, cancelOrder lets one leave, modifyOrder amends one in place and in rank
\* (OrderBook.hpp:83-169).
LEMMA CallImplements ==
  ASSUME StampsAreDistinct, RefinementInv, CallBook
  PROVE  [Abstract!Next]_(Abstract!vars)
<1>1. /\ Resting(book) \subseteq Ptrs /\ calls \in Nat
      /\ Ranked(book, ord, entry, calls, clock)
      /\ \A q \in Resting(book) : ord[q] \in Orders
  BY RefinementParts
<1>2. /\ LiveOrders = {Live(q) : q \in Resting(book)}
      /\ \A q, r \in Resting(book) : Live(q) = Live(r) => q = r
  BY LiveIsInjective
<1>3. /\ BookNext
      /\ ~(phase = "matching") /\ ~(phase' = "matching")
      /\ UNCHANGED <<phase, last_trade>>
  BY DEF CallBook
<1>4. LiveOrders' = {LiveNext(q) : q \in Resting(book')}
  BY DEF LiveOrders, LiveNext, Resting, RestingOn
<1>5. \A q \in Ptrs : ord'[q] = ord[q] /\ entry'[q] = entry[q] => LiveNext(q) = Live(q)
  BY DEF Live, LiveNext
<1>6. calls < MaxCalls => calls + 1 \in 1 .. MaxCalls
  BY <1>1, OrderBookAssumption
<1>7. \A q \in Resting(book) : Live(q).rank < calls + 1
  BY <1>1, LiveType
<1>8. ASSUME NEW p \in Ptrs, NEW o \in NewOrders, AddOrder(p, o)
      PROVE  [Abstract!Next]_(Abstract!vars)
  <2>1. /\ p \notin Resting(book)
        /\ \A q \in Resting(book) : ord[q].id # o.id
        /\ \A q \in Ptrs \ {p} : ord'[q] = ord[q] /\ entry'[q] = entry[q]
        /\ ord'[p].id = o.id /\ ord'[p].side = o.side
        /\ ord'[p].price = o.price /\ ord'[p].quantity = o.quantity
        /\ entry'[p] = calls + 1
    BY <1>8, AddOrderEffect
  <2> calls < MaxCalls
    BY <1>8 DEF AddOrder, Count
  <2>2. \A q \in Resting(book) : LiveNext(q) = Live(q)
    BY <1>1, <1>5, <2>1
  <2>3. CASE o.quantity = 0
    <3>1. Resting(book') = Resting(book)
      BY <1>8, <2>3, AddOrderEffect
    <3>2. LiveOrders' = LiveOrders
      BY <1>2, <1>4, <2>2, <3>1
    <3> QED BY <1>3, <3>2 DEF Abstract!vars
  <2>4. CASE o.quantity # 0
    <3> DEFINE new == [id |-> o.id, side |-> o.side, price |-> o.price,
                       quantity |-> o.quantity, rank |-> calls + 1]
    <3>1. Resting(book') = Resting(book) \cup {p}
      BY <1>8, <2>4, AddOrderEffect
    <3>2. LiveNext(p) = new
      BY <2>1 DEF LiveNext
    <3>3. LiveOrders' = LiveOrders \cup {new}
      <4> HIDE DEF new
      <4> QED BY <1>2, <1>4, <2>2, <3>1, <3>2
    <3>4. \A x \in LiveOrders : x.id # o.id /\ x.rank < calls + 1
      BY <1>2, <1>7, <2>1, LiveType
    <3>5. /\ o.id \in Ids /\ o.side \in {"buy", "sell"} /\ o.price \in Prices
          /\ o.quantity \in Sizes /\ o.quantity > 0
      <4>1. /\ o.id \in Ids /\ o.side \in {"buy", "sell"} /\ o.price \in Prices
            /\ o.quantity \in Sizes
        BY DEF NewOrders, Sides
      <4>2. o.quantity \in 0 .. QMod - 1
        BY <4>1, OrderBookAssumption
      <4> QED BY <2>4, <4>1, <4>2
    <3>6. Abstract!Enter(o.id, o.side, o.price, o.quantity, calls + 1)
      BY <1>3, <3>3, <3>4, <3>5 DEF Abstract!Enter
    <3> QED BY <1>6, <2>1, <3>5, <3>6 DEF Abstract!Next
  <2> QED BY <2>3, <2>4
<1>9. ASSUME NEW id \in Ids, Cancel(id)
      PROVE  [Abstract!Next]_(Abstract!vars)
  <2> DEFINE p == book.order_map[id]
  <2>1. p \in Resting(book) /\ Resting(book') = Resting(book) \ {p} /\ UNCHANGED <<ord, entry>>
    BY <1>9, CancelEffect DEF Cancel
  <2> HIDE DEF p
  <2>2. \A q \in Resting(book) : LiveNext(q) = Live(q)
    BY <2>1 DEF Live, LiveNext
  <2>3. LiveOrders' = LiveOrders \ {Live(p)} /\ Live(p) \in LiveOrders
    BY <1>2, <1>4, <2>1, <2>2
  <2>4. Abstract!Leave(Live(p))
    BY <1>3, <2>3 DEF Abstract!Leave
  <2> QED BY <2>3, <2>4 DEF Abstract!Next
<1>10. ASSUME NEW id \in Ids, NEW x \in Prices, NEW n \in Sizes, ModifyOrder(id, x, n)
       PROVE  [Abstract!Next]_(Abstract!vars)
  <2> DEFINE p == book.order_map[id]
             amended == [Live(p) EXCEPT !.price = x, !.quantity = n, !.rank = calls + 1]
  <2>1. /\ p \in Resting(book)
        /\ Resting(book') = IF n = 0 THEN Resting(book) \ {p} ELSE Resting(book)
        /\ \A q \in Ptrs \ {p} : ord'[q] = ord[q] /\ entry'[q] = entry[q]
        /\ ord'[p] = [ord[p] EXCEPT !.price = x, !.quantity = n, !.timestamp = clock']
        /\ entry'[p] = calls + 1
    <3> HIDE DEF amended
    <3>1. /\ p \in Resting(book)
          /\ Resting(book') = IF n = 0 THEN Resting(book) \ {p} ELSE Resting(book)
          /\ \A q \in Ptrs \ {p} : ord'[q] = ord[q] /\ entry'[q] = entry[q]
          /\ ord'[p] = [ord[p] EXCEPT !.price = x, !.quantity = n, !.timestamp = clock']
          /\ entry'[p] = calls + 1 /\ calls' = calls + 1
          /\ clock' \in Nat /\ clock < clock'
      BY <1>10, ModifyOrderEffect
    <3> HIDE DEF p
    <3> QED BY <3>1
  <2> HIDE DEF p
  <2>2. \A q \in Resting(book) : q # p => LiveNext(q) = Live(q)
    BY <1>1, <1>5, <2>1
  <2>3. LiveNext(p) = amended
    <3>1. /\ ord'[p].id = ord[p].id /\ ord'[p].side = ord[p].side
          /\ ord'[p].price = x /\ ord'[p].quantity = n
      BY <1>1, <2>1 DEF Orders
    <3>2. amended = [id |-> ord[p].id, side |-> ord[p].side, price |-> x, quantity |-> n,
                     rank |-> calls + 1]
      <4> DEFINE a == [Live(p) EXCEPT !.price = x]
                 b == [a EXCEPT !.quantity = n]
      <4>1. a = [id |-> ord[p].id, side |-> ord[p].side, price |-> x,
                 quantity |-> ord[p].quantity, rank |-> entry[p]]
        BY DEF Live
      <4> HIDE DEF a
      <4>2. b = [id |-> ord[p].id, side |-> ord[p].side, price |-> x,
                 quantity |-> n, rank |-> entry[p]]
        BY <4>1
      <4> HIDE DEF b
      <4>3. amended = [b EXCEPT !.rank = calls + 1]
        BY DEF a, b
      <4> QED BY <4>2, <4>3
    <3> HIDE DEF amended
    <3> QED BY <2>1, <3>1, <3>2 DEF LiveNext
  <2>4. LiveOrders' = (LiveOrders \ {Live(p)}) \cup (IF n = 0 THEN {} ELSE {amended})
    <3> HIDE DEF amended
    <3>1. CASE n = 0
      BY <1>2, <1>4, <2>1, <2>2, <3>1
    <3>2. CASE n # 0
      <4>1. \A a : a \in LiveOrders' <=> \E q \in Resting(book) : a = LiveNext(q)
        BY <1>4, <2>1, <3>2
      <4>2. \A a : a \in LiveOrders \ {Live(p)} <=> \E q \in Resting(book) \ {p} : a = Live(q)
        BY <1>2, <2>1
      <4>3. \A a : a \in LiveOrders' <=> a \in LiveOrders \ {Live(p)} \/ a = amended
        BY <2>1, <2>2, <2>3, <4>1, <4>2
      <4> QED BY <3>2, <4>3
    <3> QED BY <3>1, <3>2
  <2>5. \A other \in LiveOrders : other.rank < calls + 1
    BY <1>2, <1>7
  <2>6. Abstract!Amend(Live(p), x, n, calls + 1)
    BY <1>3, <2>4, <2>5 DEF Abstract!Amend
  <2>7. Live(p) \in LiveOrders /\ calls + 1 \in 1 .. MaxCalls
    BY <1>2, <1>6, <1>10, <2>1 DEF ModifyOrder, Count
  <2> QED BY <2>6, <2>7 DEF Abstract!Next
<1> QED BY <1>3, <1>8, <1>9, <1>10 DEF BookNext

\* A turn of matchOrders is a trade of the abstract book, between the same two
\* orders, of as many shares and at the same price (Matcher.hpp:36-94).
LEMMA MatchStepImplements ==
  ASSUME Prices \subseteq Nat \ {0}, RefinementInv, MatchStep
  PROVE  Abstract!Trade
<1> DEFINE n == MatchQty(ord[Bid], ord[Ask])
           After(a) == IF a.quantity = n THEN {} ELSE {[a EXCEPT !.quantity = @ - n]}
<1>1. /\ Resting(book) \subseteq Ptrs
      /\ Ranked(book, ord, entry, calls, clock)
      /\ LiveOrders = {Live(q) : q \in Resting(book)}
      /\ \A q, r \in Resting(book) : Live(q) = Live(r) => q = r
  BY RefinementParts, LiveIsInjective
<1>2. /\ Bid \in Resting(book) /\ Ask \in Resting(book) /\ Bid # Ask
      /\ ord[Bid] \in Orders /\ ord[Ask] \in Orders
      /\ n =< ord[Bid].quantity /\ n =< ord[Ask].quantity
      /\ ord'[Bid] = [ord[Bid] EXCEPT !.quantity = @ - n]
      /\ ord'[Ask] = [ord[Ask] EXCEPT !.quantity = @ - n]
      /\ \A q \in Ptrs \ {Bid, Ask} : ord'[q] = ord[q]
      /\ Resting(book') = Resting(book) \ {p \in {Bid, Ask} : ord[p].quantity = n}
      /\ last_trade' = [buy_id |-> ord[Bid].id, sell_id |-> ord[Ask].id, quantity |-> n,
                        price |-> MatchPrice(ord[Bid], ord[Ask])]
      /\ UNCHANGED <<entry, phase>>
  BY TradeEffect
<1>3. Abstract!Best("buy") = Live(Bid) /\ Abstract!Best("sell") = Live(Ask)
  BY BestIsAbstractBest DEF MatchStep, Matchable, Bid, Ask, Sides
<1>4. phase = "matching" /\ Matchable /\ Abstract!Crossed
  BY MatchableIffAbstractCrossed DEF MatchStep
<1>5. LiveOrders' = {LiveNext(q) : q \in Resting(book')}
  BY DEF LiveOrders, LiveNext, Resting, RestingOn
<1>6. /\ Live(Bid).id = ord[Bid].id /\ Live(Bid).quantity = ord[Bid].quantity
      /\ Live(Bid).price = ord[Bid].price /\ Live(Bid).rank = entry[Bid]
      /\ Live(Ask).id = ord[Ask].id /\ Live(Ask).quantity = ord[Ask].quantity
      /\ Live(Ask).price = ord[Ask].price /\ Live(Ask).rank = entry[Ask]
  BY <1>2, LiveType
<1>7. n = Abstract!Min({Live(Bid).quantity, Live(Ask).quantity})
  BY <1>6 DEF MatchQty, Min, Abstract!Min
<1>8. MatchPrice(ord[Bid], ord[Ask]) =
        IF Live(Bid).rank < Live(Ask).rank THEN Live(Bid).price ELSE Live(Ask).price
  BY <1>1, <1>2, <1>6 DEF MatchPrice, Ranked
<1> HIDE DEF n
<1>9. /\ LiveNext(Bid) = [Live(Bid) EXCEPT !.quantity = @ - n]
      /\ LiveNext(Ask) = [Live(Ask) EXCEPT !.quantity = @ - n]
      /\ \A q \in Ptrs \ {Bid, Ask} : LiveNext(q) = Live(q)
  <2>1. /\ ord'[Bid].id = ord[Bid].id /\ ord'[Bid].side = ord[Bid].side
        /\ ord'[Bid].price = ord[Bid].price /\ ord'[Bid].quantity = ord[Bid].quantity - n
        /\ ord'[Ask].id = ord[Ask].id /\ ord'[Ask].side = ord[Ask].side
        /\ ord'[Ask].price = ord[Ask].price /\ ord'[Ask].quantity = ord[Ask].quantity - n
    BY <1>2 DEF Orders
  <2> QED BY <1>2, <2>1 DEF Live, LiveNext
<1>10. LiveOrders' = (LiveOrders \ {Live(Bid), Live(Ask)}) \cup After(Live(Bid)) \cup After(Live(Ask))
  <2> DEFINE Left(q) == IF ord[q].quantity = n THEN {} ELSE {LiveNext(q)}
  <2>1. After(Live(Bid)) = Left(Bid) /\ After(Live(Ask)) = Left(Ask)
    BY <1>6, <1>9
  <2>2. \A q : q \in Resting(book') <=>
                 \/ q \in Resting(book) \ {Bid, Ask}
                 \/ q = Bid /\ ord[Bid].quantity # n
                 \/ q = Ask /\ ord[Ask].quantity # n
    BY <1>2
  <2> HIDE DEF After
  <2>3. \A a : a \in LiveOrders' <=>
                 \/ \E q \in Resting(book) \ {Bid, Ask} : a = Live(q)
                 \/ a \in Left(Bid) \/ a \in Left(Ask)
    <3>1. \A a : a \in LiveOrders' <=> \E q \in Resting(book') : a = LiveNext(q)
      BY <1>5
    <3>2. \A q \in Resting(book) \ {Bid, Ask} : LiveNext(q) = Live(q)
      BY <1>1, <1>9
    <3> QED BY <2>2, <3>1, <3>2
  <2>4. \A a : a \in LiveOrders \ {Live(Bid), Live(Ask)} <=>
                 \E q \in Resting(book) \ {Bid, Ask} : a = Live(q)
    BY <1>1, <1>2
  <2> QED BY <2>1, <2>3, <2>4
<1> QED BY <1>2, <1>3, <1>4, <1>6, <1>7, <1>8, <1>10 DEF Abstract!Trade

\* The book and the matcher are a limit order book with price-time priority, when
\* prices are positive, live ids are not reused and the book stamps each order
\* with a later time than the one before: every call is a step of the abstract
\* book or none, and every turn of matchOrders is one trade between its two best
\* orders (OrderBook.hpp:83-209, Matcher.hpp:29-94).
THEOREM MatcherIsALimitOrderBook ==
  ASSUME Prices \subseteq Nat \ {0}, ReuseIds = FALSE, CallerStamps = FALSE,
         ClockSteps \subseteq Nat \ {0}
  PROVE  MatcherSpec => ImplementsLimitOrderBook
<1>1. StampsAreDistinct
  BY DEF StampsAreDistinct
<1>2. MatcherInit => RefinementInv /\ Abstract!Init
  <2> SUFFICES ASSUME MatcherInit PROVE RefinementInv /\ Abstract!Init
    OBVIOUS
  <2>1. RefinementInv /\ LiveOrders = {}
    BY RefinementInit DEF LiveOrders
  <2> QED BY <2>1 DEF MatcherInit, Abstract!Init
<1>3. RefinementInv /\ [MatcherNext]_vars => RefinementInv'
  BY <1>1, RefinementNext
<1>4. RefinementInv /\ [MatcherNext]_vars => [Abstract!Next]_(Abstract!vars)
  <2> SUFFICES ASSUME RefinementInv, [MatcherNext]_vars
               PROVE  [Abstract!Next]_(Abstract!vars)
    OBVIOUS
  <2>1. UNCHANGED <<ord, book, entry>> => LiveOrders' = LiveOrders
    BY DEF LiveOrders, Resting, RestingOn
  <2>2. CASE CallBook
    BY <1>1, <2>2, CallImplements
  <2>3. CASE StartMatch
    BY <2>1, <2>3 DEF StartMatch, bookVars, Abstract!Next, Abstract!StartMatching
  <2>4. CASE MatchStep
    BY <2>4, MatchStepImplements DEF Abstract!Next
  <2>5. CASE MatchReturn
    BY <2>1, <2>5, MatchableIffAbstractCrossed
       DEF MatchReturn, bookVars, Abstract!Next, Abstract!StopMatching
  <2>6. CASE UNCHANGED vars
    BY <2>1, <2>6 DEF vars, bookVars, Abstract!vars
  <2> QED BY <2>2, <2>3, <2>4, <2>5, <2>6 DEF MatcherNext
<1> QED BY <1>2, <1>3, <1>4, PTL DEF MatcherSpec, ImplementsLimitOrderBook, Abstract!Spec

\* When each order is stamped later than the one before, the price of a trade is
\* that of the order that entered the book first ("first order sets price",
\* Matcher.hpp:45).
THEOREM MatcherFirstOrderSetsPrice ==
  ASSUME ReuseIds = FALSE, CallerStamps = FALSE, ClockSteps \subseteq Nat \ {0}
  PROVE  MatcherSpec => FirstOrderSetsPrice
<1>1. StampsAreDistinct
  BY DEF StampsAreDistinct
<1>2. RefinementInv /\ [MatcherNext]_vars => RefinementInv'
  BY <1>1, RefinementNext
<1>3. RefinementInv =>
        [MatchStep => last_trade'.price = IF entry[Bid] < entry[Ask] THEN ord[Bid].price
                                          ELSE ord[Ask].price]_vars
  <2> SUFFICES ASSUME RefinementInv, MatchStep
               PROVE  last_trade'.price = IF entry[Bid] < entry[Ask] THEN ord[Bid].price
                                          ELSE ord[Ask].price
    OBVIOUS
  <2>1. last_trade'.price = MatchPrice(ord[Bid], ord[Ask])
    BY DEF MatchStep, ExecuteTrade
  <2>2. entry[Bid] < entry[Ask] <=> ord[Bid].timestamp < ord[Ask].timestamp
    BY TradeEffect, RefinementParts DEF Ranked
  <2> QED BY <2>1, <2>2 DEF MatchPrice
<1>4. MatcherInit => RefinementInv
  BY RefinementInit
<1> QED BY <1>2, <1>3, <1>4, PTL DEF MatcherSpec, FirstOrderSetsPrice

-----------------------------------------------------------------------------
(* The pool *)

\* What the pool will give out before its next reset is held by nobody.
Fresh == \A i \in 1 .. Len(Pool) : i > next_free => Pool[i] \notin held

PoolInv ==
  /\ MatcherInv
  /\ held \subseteq Ptrs /\ next_free \in Nat /\ Fresh
  /\ \A p \in Ptrs : Holds(book, p) => p \in held

\* Being given memory that nobody holds, or giving back memory that does not
\* rest, is no business of the book's.
LEMMA MemoryFrame ==
  ASSUME MatcherInv, NEW p \in Ptrs, ~Holds(book, p),
         ord' = [ord EXCEPT ![p] = ZeroOrder],
         UNCHANGED <<book, clock, calls, entry, phase, last_trade>>
  PROVE  MatcherInv'
<1>1. /\ TypedBook(book) /\ Index(book, ord) /\ Sound(book, ord)
      /\ ord \in [Ptrs -> Orders]
  BY DEF MatcherInv, MatcherTypeInv, LadderInv, TypeInv, TypeOK
<1>2. ZeroOrder \in Orders
  BY OrderBookAssumption DEF ZeroOrder, Orders, AnyId, AnyPrice, Sides
<1>3. ord' \in [Ptrs -> Orders] /\ \A q \in Ptrs \ {p} : ord'[q] = ord[q]
  BY <1>1, <1>2
<1>4. MatcherTypeInv'
  BY <1>3 DEF MatcherInv, MatcherTypeInv, MatcherTypeOK, TypeInv, TypeOK, LadderInv,
     TypedBook, LaddersFinite, NoEmptyLevel, CacheIsCurrent, At, Trades
<1>5. Index(book', ord')
  BY <1>1, <1>3, IndexFrame
<1>6. Sound(book', ord')
  BY <1>1, <1>3 DEF Sound
<1> QED BY <1>4, <1>5, <1>6 DEF MatcherInv, Index, LevelsAreIndexed, IndexIsInLevels,
        NoOrderTwice, At, Sound, Holds

\* allocate gives out memory that nobody holds, from the pool or from the heap
\* (MemoryPool.hpp:37-48).
LEMMA AllocatedIsFree ==
  ASSUME PoolInv, NEW p \in Allocated
  PROVE  p \in Ptrs /\ p \notin held /\ ~Holds(book, p)
<1>1. p \in Ptrs /\ p \notin held
  <2>1. CASE next_free < Len(Pool)
    <3>1. next_free + 1 \in 1 .. Len(Pool) /\ next_free + 1 > next_free
      BY <2>1, PooledMatcherAssumption, LenProperties DEF PoolInv
    <3>2. p = Pool[next_free + 1]
      BY <2>1 DEF Allocated
    <3> QED BY <3>1, <3>2, PooledMatcherAssumption, ElementOfSeq DEF PoolInv, Fresh
  <2>2. CASE ~(next_free < Len(Pool))
    BY <2>2 DEF Allocated
  <2> QED BY <2>1, <2>2
<1> QED BY <1>1 DEF PoolInv

\* The calls of the book and of the matcher: only an order that its caller holds
\* enters the book.
LEMMA CallsHold ==
  ASSUME ReuseIds = FALSE, PoolInv, UseBook \/ Match
  PROVE  PoolInv'
<1>1. /\ MatcherInv /\ LadderInv(book) /\ TypedBook(book) /\ Index(book, ord)
      /\ ord \in [Ptrs -> Orders]
      /\ \A q \in Ptrs : Holds(book, q) => q \in held
      /\ held \subseteq Ptrs
  BY DEF PoolInv, MatcherInv, MatcherTypeInv, LadderInv, TypeInv, TypeOK
<1>2. MatcherNext
  BY <1>1 DEF UseBook, Match, MatcherNext, CallBook, BookNext
<1>3. MatcherInv'
  BY <1>1, <1>2, MatcherNextInv
<1>4. ord' \in [Ptrs -> Orders]
  BY <1>3 DEF MatcherInv, MatcherTypeInv, TypeInv, TypeOK
<1>5. \A q \in Ptrs : Holds(book', q) => q \in held
  <2>1. ASSUME NEW p \in held, NEW o \in NewOrders, AddOrder(p, o), NEW q, Holds(book', q)
        PROVE  q \in held
    <3>1. p \in Ptrs /\ book' = Submit(book, ord', p)
      BY <1>1, <2>1 DEF AddOrder
    <3>2. q \in Ptrs
      <4>1. Holds(book, q) \/ q = p
        BY <1>1, <1>4, <2>1, <3>1, SubmitHolds
      <4> QED BY <1>1, <3>1, <4>1, HeldIsIndexed
    <3>3. Holds(book, q) \/ q = p
      BY <1>1, <1>4, <2>1, <3>1, SubmitHolds
    <3> QED BY <1>1, <3>2, <3>3
  <2>2. ASSUME NEW id \in Ids, Cancel(id), NEW q \in Ptrs, Holds(book', q)
        PROVE  q \in held
    BY <1>1, <2>2, CancelOrderHolds DEF Cancel, AnyId
  <2>3. ASSUME NEW id \in Ids, NEW x \in Prices, NEW n \in Sizes, ModifyOrder(id, x, n),
               NEW q \in Ptrs, Holds(book', q)
        PROVE  q \in held
    <3> DEFINE p == book.order_map[id]
               c == CancelOrder(book, ord, id)
    <3>1. p \in Ptrs /\ p # NoOrder /\ book' = Submit(c, ord', p) /\ TypedBook(c)
      BY <1>1, <2>3, CancelOrderType DEF ModifyOrder, TypedBook, Books, AnyId
    <3>2. Holds(book, p)
      <4>1. \E i \in 1 .. Len(At(book, ord[p].side, ord[p].price)) :
              At(book, ord[p].side, ord[p].price)[i] = p
        BY <1>1, <3>1 DEF Index, IndexIsInLevels, AnyId
      <4>2. ord[p].side \in Sides /\ ord[p].price \in AnyPrice
        BY <1>1, <3>1 DEF Orders
      <4> QED BY <4>1, <4>2 DEF Holds
    <3>3. Holds(c, q) => Holds(book, q)
      BY <1>1, CancelOrderHolds DEF AnyId
    <3> HIDE DEF c, p
    <3>4. Holds(c, q) \/ q = p
      BY <1>4, <2>3, <3>1, SubmitHolds
    <3> QED BY <1>1, <3>2, <3>3, <3>4
  <2>4. ASSUME MatchStep, NEW q \in Ptrs, Holds(book', q)
        PROVE  q \in held
    <3> DEFINE b == RemoveIfFilled(book, ord', Bid)
    <3>1. /\ Bid \in Ptrs /\ Ask \in Ptrs
          /\ \A r \in Ptrs : /\ ord'[r].id = ord[r].id
                             /\ ord'[r].side = ord[r].side
                             /\ ord'[r].price = ord[r].price
          /\ book' = RemoveIfFilled(b, ord', Ask)
      BY <1>1, <2>4, MatchStepEffect DEF MatcherInv
    <3>2. Index(book, ord')
      BY <1>1, <1>4, <3>1, IndexFrame
    <3>3. LadderInv(b) /\ Index(b, ord') /\ (Holds(b, q) => Holds(book, q))
      BY <1>1, <1>4, <3>1, <3>2, RemoveIfFilledLadder, RemoveIfFilledIndex
    <3> HIDE DEF b
    <3>4. Holds(b, q)
      BY <1>4, <2>4, <3>1, <3>3, RemoveIfFilledIndex
    <3> QED BY <1>1, <3>3, <3>4
  <2>5. CASE UNCHANGED book
    BY <1>1, <2>5
  <2> QED BY <2>1, <2>2, <2>3, <2>4, <2>5
          DEF UseBook, Match, StartMatch, MatchReturn, bookVars
<1> QED BY <1>3, <1>5 DEF UseBook, Match, PoolInv, Fresh, Holds, At

\* Every call keeps the invariant, when its caller keeps the rules.
LEMMA PoolNextInv ==
  ASSUME ReuseIds = FALSE, KeepsRules = TRUE, PoolInv, [PoolNext]_poolVars
  PROVE  PoolInv'
<1>1. /\ MatcherInv /\ TypedBook(book) /\ Sound(book, ord)
      /\ next_free \in Nat /\ held \subseteq Ptrs /\ Fresh
  BY DEF PoolInv, MatcherInv, MatcherTypeInv, LadderInv
<1>2. CASE Allocate
  <2>1. PICK p \in Allocated : /\ ord' = [ord EXCEPT ![p] = ZeroOrder]
                               /\ held' = held \cup {p}
    BY <1>2 DEF Allocate
  <2>2. p \in Ptrs /\ p \notin held /\ ~Holds(book, p)
    BY AllocatedIsFree
  <2>3. MatcherInv'
    BY <1>1, <1>2, <2>1, <2>2, MemoryFrame DEF Allocate
  <2>4. Fresh'
    <3> SUFFICES ASSUME NEW i \in 1 .. Len(Pool), i > next_free + 1
                 PROVE  Pool[i] \notin held \cup {p}
      BY <1>2, <2>1 DEF Fresh, Allocate
    <3>1. Len(Pool) \in Nat /\ Pool[i] \notin held
      BY <1>1, PooledMatcherAssumption, LenProperties DEF Fresh
    <3>2. CASE next_free < Len(Pool)
      <4>1. p = Pool[next_free + 1] /\ next_free + 1 \in 1 .. Len(Pool)
        BY <1>1, <3>1, <3>2 DEF Allocated
      <4>2. i \in DOMAIN Pool /\ next_free + 1 \in DOMAIN Pool /\ i # next_free + 1
        BY <1>1, <3>1, <4>1, PooledMatcherAssumption, LenProperties
      <4>3. Pool[i] # Pool[next_free + 1]
        BY <4>2, PooledMatcherAssumption DEF IsInjective
      <4> QED BY <3>1, <4>1, <4>3
    <3>3. CASE ~(next_free < Len(Pool))
      BY <1>1, <3>1, <3>3
    <3> QED BY <3>2, <3>3
  <2> QED BY <1>1, <1>2, <2>1, <2>2, <2>3, <2>4 DEF Allocate, PoolInv, Holds, At
<1>3. ASSUME NEW p \in Ptrs, Deallocate(p)
      PROVE  PoolInv'
  <2>1. ~Holds(book, p)
    BY <1>1, <1>3 DEF Deallocate, IsDone, Sound
  <2>2. MatcherInv'
    BY <1>1, <1>3, <2>1, MemoryFrame DEF Deallocate
  <2> QED BY <1>3, <2>1, <2>2 DEF Deallocate, PoolInv, Fresh, Holds, At
<1>4. CASE ResetPool
  <2>1. MatcherInv'
    BY <1>1, <1>4, MatcherNextInv DEF ResetPool, vars
  <2>2. \A q \in Ptrs : Holds(book, q) => q \in held /\ ~InPool(q)
    BY <1>1, <1>4, RestingIsHeld DEF ResetPool, PoolInv
  <2>3. Fresh'
    <3>1. \A i \in 1 .. Len(Pool) : InPool(Pool[i])
      BY PooledMatcherAssumption, LenProperties DEF InPool, ToSet
    <3> QED BY <1>4, <3>1 DEF ResetPool, Fresh
  <2> QED BY <1>1, <1>4, <2>1, <2>2, <2>3 DEF ResetPool, bookVars, PoolInv, Holds, At
<1>5. CASE UNCHANGED poolVars
  <2>1. MatcherInv'
    BY <1>1, <1>5, MatcherNextInv DEF poolVars
  <2> QED BY <1>5, <2>1 DEF poolVars, vars, bookVars, PoolInv, Fresh, Holds, At
<1> QED BY <1>2, <1>3, <1>4, <1>5, CallsHold DEF PoolNext

\* Nothing rests and nothing is held before the first call.
LEMMA PoolInitInv == PoolInit => PoolInv
<1> SUFFICES ASSUME PoolInit PROVE PoolInv
  OBVIOUS
<1>1. \A p : ~Holds(book, p)
  BY EmptySeq DEF PoolInit, MatcherInit, Init, EmptyBook, EmptyLevel, Holds, At
<1> QED BY <1>1, MatcherInitInv DEF PoolInit, PoolInv, Fresh

\* A caller who asks only for the quantity of an order before it gives the order
\* back, and never reuses a live id, never leaves the book a pointer to memory
\* it gave back (MemoryPool.hpp:53-67, Matcher.hpp:88-94).
THEOREM PoolNeverDangles ==
  ASSUME ReuseIds = FALSE, KeepsRules = TRUE
  PROVE  FairPoolSpec => []RestingOrdersAreHeld
<1>1. PoolInv => RestingOrdersAreHeld
  <2> SUFFICES ASSUME PoolInv, NEW p \in Resting(book) PROVE p \in held
    BY DEF RestingOrdersAreHeld
  <2>1. TypedBook(book)
    BY DEF PoolInv, MatcherInv, MatcherTypeInv, LadderInv
  <2>2. PICK s \in Sides : p \in RestingOn(book, s)
    BY DEF Resting, Sides
  <2>3. Holds(book, p)
    BY <2>1, <2>2, HeldIsResting DEF Holds
  <2>4. p \in Ptrs
    BY <2>1, <2>3, LevelSeq DEF Holds
  <2> QED BY <2>3, <2>4 DEF PoolInv
<1>2. PoolInv /\ [PoolNext]_poolVars => PoolInv'
  BY PoolNextInv
<1> QED BY PoolInitInv, <1>1, <1>2, PTL DEF FairPoolSpec

\* Whatever it hands out, the pool never zeroes an order that is in use: when it
\* is exhausted it goes to the heap (MemoryPool.hpp:37-48,65-67).
THEOREM PoolLeavesOrdersAlone ==
  ASSUME ReuseIds = FALSE, KeepsRules = TRUE
  PROVE  FairPoolSpec => OrdersInUseAreLeftAlone
<1>1. PoolInv /\ [PoolNext]_poolVars =>
        [next_free' # next_free => \A p \in held \cup Resting(book) : ord'[p] = ord[p]]_poolVars
  <2> SUFFICES ASSUME PoolInv, PoolNext, next_free' # next_free,
                      NEW p \in held \cup Resting(book)
               PROVE  ord'[p] = ord[p]
    BY DEF poolVars
  <2>1. ord \in [Ptrs -> Orders] /\ TypedBook(book)
    BY DEF PoolInv, MatcherInv, MatcherTypeInv, TypeInv, TypeOK, LadderInv
  <2>2. CASE Allocate
    <3>1. PICK q \in Allocated : ord' = [ord EXCEPT ![q] = ZeroOrder]
      BY <2>2 DEF Allocate
    <3>2. p \in Ptrs /\ p \in held
      <4>1. CASE p \in held
        BY <4>1 DEF PoolInv
      <4>2. CASE p \in Resting(book)
        <5>1. PICK s \in Sides : p \in RestingOn(book, s)
          BY <4>2 DEF Resting, Sides
        <5>2. Holds(book, p)
          BY <2>1, <5>1, HeldIsResting DEF Holds
        <5> QED BY <2>1, <5>2, LevelSeq DEF Holds, PoolInv
      <4> QED BY <4>1, <4>2
    <3> QED BY <2>1, <3>1, <3>2, AllocatedIsFree
  <2>3. CASE ResetPool
    BY <2>3 DEF ResetPool, bookVars
  <2> QED BY <2>2, <2>3 DEF PoolNext, UseBook, Match, Deallocate
<1>2. PoolInv /\ [PoolNext]_poolVars => PoolInv'
  BY PoolNextInv
<1> QED BY PoolInitInv, <1>1, <1>2, PTL DEF FairPoolSpec, OrdersInUseAreLeftAlone
=============================================================================
