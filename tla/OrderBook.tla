------------------------------ MODULE OrderBook ------------------------------
(****************************************************************************)
(* The order book of include/order_matching/OrderBook.hpp, over the orders  *)
(* of include/order_matching/Order.hpp.                                     *)
(*                                                                          *)
(* The book keeps raw Order pointers that its callers own.  Its methods are *)
(* pure operators here, from a book (a record) and the order memory to the  *)
(* next book, so that Matcher can compose several calls in one step; the    *)
(* actions at the end are the calls a single-threaded owner makes.          *)
(****************************************************************************)
EXTENDS Integers, Sequences, SequencesExt, FiniteSetsExt

CONSTANTS
  Ptrs,         \* addresses of Order objects
  NoOrder,      \* nullptr, and "not found" in order_map_
  Ids,          \* order ids callers use
  Prices,       \* scaled prices callers use
  Sizes,        \* quantities callers use
  QMod,         \* 2^32 in the code: Quantity is uint32_t
  ClockSteps,   \* by how much two reads of CLOCK_REALTIME may differ
  CallerStamps, \* whether callers time-stamp an order before they add it
  ReuseIds,     \* whether callers may add an order whose id is in the book
  MaxCalls      \* bound: number of addOrder and modifyOrder calls

ASSUME OrderBookAssumption ==
  /\ NoOrder \notin Ptrs
  /\ Ids \subseteq Nat
  /\ Prices \subseteq Int
  /\ QMod \in Nat \ {0}
  /\ Sizes \subseteq 0 .. QMod - 1
  /\ ClockSteps \subseteq Int
  /\ CallerStamps \in BOOLEAN
  /\ ReuseIds \in BOOLEAN
  /\ MaxCalls \in Nat

VARIABLES
  ord,    \* the memory behind each pointer, an Order
  book,   \* the fields of the OrderBook
  clock,  \* the last value read from CLOCK_REALTIME
  calls,  \* number of addOrder and modifyOrder calls so far
  entry   \* history: the call at which an order last entered the book

bookVars == <<ord, book, clock, calls, entry>>

Sides == {"buy", "sell"}
AnyId == Ids \cup {0}        \* 0 is what memory holds before it is an order
AnyPrice == Prices \cup {0}  \* 0 is also the cached price of an empty side

Orders == [id : AnyId, quantity : 0 .. QMod - 1, price : AnyPrice,
           timestamp : Nat, side : Sides]

\* Order's default constructor.
ZeroOrder == [id |-> 0, quantity |-> 0, price |-> 0, timestamp |-> 0, side |-> "buy"]

\* operator> between buy orders and operator< between sell orders: a better
\* price first, then the smaller time stamp.
Beats(a, b) ==
  \/ a.side = "buy" /\ a.price > b.price
  \/ a.side = "sell" /\ a.price < b.price
  \/ a.price = b.price /\ a.timestamp < b.timestamp

-----------------------------------------------------------------------------
(* PriceLevel.  order_count_ always equals Len(orders) and no code reads it. *)

Levels == [orders : Seq(Ptrs), total : 0 .. QMod - 1]

EmptyLevel == [orders |-> <<>>, total |-> 0]

\* Mutants of LevelAdd: the total does not wrap; the order goes to the front.
LevelAddUnbounded(l, p, o) ==
  [orders |-> Append(l.orders, p), total |-> l.total + o[p].quantity]
LevelAddFront(l, p, o) ==
  [orders |-> <<p>> \o l.orders, total |-> (l.total + o[p].quantity) % QMod]

\* PriceLevel::addOrder
LevelAdd(l, p, o) ==
  [orders |-> Append(l.orders, p), total |-> (l.total + o[p].quantity) % QMod]

HasId(l, id, o) == \E i \in 1 .. Len(l.orders) : o[l.orders[i]].id = id

\* Where the first order with the id is.
IndexOf(l, id, o) == SelectInSeq(l.orders, LAMBDA p : o[p].id = id)

\* Mutant of LevelRemove: the order leaves, its quantity stays in the total.
LevelRemoveKeepsTotal(l, id, o) ==
  IF HasId(l, id, o) THEN [l EXCEPT !.orders = RemoveAt(@, IndexOf(l, id, o))] ELSE l

\* PriceLevel::removeOrder, which scans for the first order with the id.
LevelRemove(l, id, o) ==
  LET i == IndexOf(l, id, o)
  IN  IF HasId(l, id, o)
      THEN [orders |-> RemoveAt(l.orders, i),
            total  |-> (l.total - o[l.orders[i]].quantity) % QMod]
      ELSE l

-----------------------------------------------------------------------------
(* OrderBook.  b.levels[s][x] is the value of buy_levels_ or sell_levels_   *)
(* at price x, b.keys[s] the keys that std::map holds; a key that is erased *)
(* leaves an EmptyLevel behind, which is what operator[] creates.           *)

Books == [levels    : [Sides -> [AnyPrice -> Levels]],
          keys      : [Sides -> SUBSET AnyPrice],
          order_map : [AnyId -> Ptrs \cup {NoOrder}],
          best      : [Sides -> AnyPrice]]

EmptyBook == [levels    |-> [s \in Sides |-> [x \in AnyPrice |-> EmptyLevel]],
              keys      |-> [s \in Sides |-> {}],
              order_map |-> [id \in AnyId |-> NoOrder],
              best      |-> [s \in Sides |-> 0]]

\* rbegin()->first of buy_levels_, begin()->first of sell_levels_.
TopPrice(s, X) == IF s = "buy" THEN Max(X) ELSE Min(X)

\* Mutant of UpdateBest: the cache is only ever raised (bid) or lowered (ask).
UpdateBestOnImprovement(b, s) ==
  [b EXCEPT !.best[s] = IF b.keys[s] = {} THEN 0
                        ELSE IF @ = 0 THEN TopPrice(s, b.keys[s])
                        ELSE TopPrice(s, b.keys[s] \cup {@})]

\* updateBestBid and updateBestAsk
UpdateBest(b, s) ==
  [b EXCEPT !.best[s] = IF b.keys[s] = {} THEN 0 ELSE TopPrice(s, b.keys[s])]

\* getBestBid and getBestAsk: the front order of the top level, not the cache.
BestOrder(b, s) ==
  LET l == b.levels[s][TopPrice(s, b.keys[s])]
  IN  IF b.keys[s] = {} \/ l.orders = <<>> THEN NoOrder ELSE Head(l.orders)

\* Mutant of HasMatch: equal prices are no match.
HasMatchStrictly(b) == b.best["sell"] > 0 /\ b.best["buy"] > b.best["sell"]

\* hasMatch, over the cached prices
HasMatch(b) ==
  /\ b.best["buy"] > 0
  /\ b.best["sell"] > 0
  /\ b.best["buy"] >= b.best["sell"]

\* addOrder from line 94 on, for an order with a quantity and a time stamp.
Insert(b, o, p) ==
  LET s == o[p].side
      x == o[p].price
  IN  UpdateBest([b EXCEPT !.order_map[o[p].id] = p,
                           !.keys[s] = @ \cup {x},
                           !.levels[s][x] = LevelAdd(@, p, o)], s)

\* cancelOrder, once the id is found in order_map_ and its level exists.
Erase(b, o, id) ==
  LET s == o[b.order_map[id]].side
      x == o[b.order_map[id]].price
      l == LevelRemove(b.levels[s][x], id, o)
      found == HasId(b.levels[s][x], id, o)
  IN  UpdateBest([b EXCEPT !.order_map[id] = IF found THEN NoOrder ELSE @,
                           !.keys[s] = IF l.orders = <<>> THEN @ \ {x} ELSE @,
                           !.levels[s][x] = IF l.orders = <<>> THEN EmptyLevel ELSE l], s)

\* Mutant of CancelOrder: the id is forgotten, the order stays in its level.
CancelIndexOnly(b, o, id) == [b EXCEPT !.order_map[id] = NoOrder]

\* cancelOrder
CancelOrder(b, o, id) ==
  LET p == b.order_map[id]
  IN  IF p = NoOrder THEN b
      ELSE IF o[p].price \in b.keys[o[p].side] THEN Erase(b, o, id) ELSE b

\* addOrder and modifyOrder stop at an order without quantity.
Submit(b, o, p) == IF o[p].quantity = 0 THEN b ELSE Insert(b, o, p)

\* The pointers the levels hold.
RestingOn(b, s) == UNION {ToSet(b.levels[s][x].orders) : x \in AnyPrice}
Resting(b) == RestingOn(b, "buy") \cup RestingOn(b, "sell")

-----------------------------------------------------------------------------
(* Calls *)

Init ==
  /\ ord = [p \in Ptrs |-> ZeroOrder]
  /\ book = EmptyBook
  /\ clock = 1
  /\ calls = 0
  /\ entry = [p \in Ptrs |-> 0]

\* hft::getTimestampNs(): CLOCK_REALTIME, never the 0 that means "not stamped".
ReadClock == \E d \in ClockSteps : clock + d > 0 /\ clock' = clock + d

Count == calls < MaxCalls /\ calls' = calls + 1

\* What a caller passes to Order's constructor; time stamp 0 is its default.
Stamps == {0} \cup (IF CallerStamps THEN 1 .. clock ELSE {})
NewOrders == [id : Ids, quantity : Sizes, price : Prices, timestamp : Stamps, side : Sides]

\* An order is built in memory the book does not hold, and added.
AddOrder(p, o) ==
  LET stamped == [o EXCEPT !.timestamp = IF @ = 0 THEN clock' ELSE @]
  IN  /\ p \notin Resting(book)
      /\ ReuseIds \/ book.order_map[o.id] = NoOrder
      /\ Count
      /\ ReadClock
      /\ ord' = [ord EXCEPT ![p] = IF o.quantity = 0 THEN o ELSE stamped]
      /\ book' = Submit(book, ord', p)
      /\ entry' = [entry EXCEPT ![p] = calls']

\* cancelOrder called from outside; an unknown id changes nothing.
Cancel(id) ==
  /\ book.order_map[id] # NoOrder
  /\ book' = CancelOrder(book, ord, id)
  /\ UNCHANGED <<ord, clock, calls, entry>>

\* modifyOrder of a known id: cancel, rewrite the order in place, add.
ModifyOrder(id, new_price, new_quantity) ==
  LET p == book.order_map[id]
  IN  /\ p # NoOrder
      /\ Count
      /\ ReadClock
      /\ ord' = [ord EXCEPT ![p].price = new_price,
                            ![p].quantity = new_quantity,
                            ![p].timestamp = clock']
      /\ book' = Submit(CancelOrder(book, ord, id), ord', p)
      /\ entry' = [entry EXCEPT ![p] = calls']

BookNext ==
  \/ \E p \in Ptrs, o \in NewOrders : AddOrder(p, o)
  \/ \E id \in Ids : Cancel(id)
  \/ \E id \in Ids, x \in Prices, q \in Sizes : ModifyOrder(id, x, q)

BookSpec == Init /\ [][BookNext]_bookVars

-----------------------------------------------------------------------------
(* Properties *)

\* The state has the types of Order, PriceLevel and OrderBook.
TypeOK ==
  /\ ord \in [Ptrs -> Orders]
  /\ book \in Books
  /\ clock \in Nat \ {0}
  /\ calls \in 0 .. MaxCalls
  /\ entry \in [Ptrs -> 0 .. MaxCalls]

At(b, s, x) == b.levels[s][x].orders

\* An order in a level has that level's side and price, and is what
\* order_map_ finds under its id.
LevelsAreIndexed(b, o) ==
  \A s \in Sides, x \in AnyPrice : \A i \in 1 .. Len(At(b, s, x)) :
    LET p == At(b, s, x)[i]
    IN  o[p].side = s /\ o[p].price = x /\ b.order_map[o[p].id] = p

\* What order_map_ finds under an id has that id and is in its level.
IndexIsInLevels(b, o) ==
  \A id \in AnyId : b.order_map[id] # NoOrder =>
    LET p == b.order_map[id]
    IN  o[p].id = id /\ \E i \in 1 .. Len(At(b, o[p].side, o[p].price)) :
                          At(b, o[p].side, o[p].price)[i] = p

NoOrderTwice(b) ==
  \A s \in Sides, x \in AnyPrice : \A i, j \in 1 .. Len(At(b, s, x)) :
    At(b, s, x)[i] = At(b, s, x)[j] => i = j

NoEmptyLevel(b) ==
  \A s \in Sides : b.keys[s] = {x \in AnyPrice : At(b, s, x) # <<>>}

CacheIsCurrent(b) ==
  \A s \in Sides : b.best[s] = IF b.keys[s] = {} THEN 0 ELSE TopPrice(s, b.keys[s])

\* The id index and the price ladders hold the same orders, each of them once:
\* addOrder, cancelOrder and modifyOrder write both (OrderBook.hpp:94-147).
IndexMatchesLadders ==
  LevelsAreIndexed(book, ord) /\ IndexIsInLevels(book, ord) /\ NoOrderTwice(book)

\* No level is left behind empty, and best_bid_price_ and best_ask_price_ are
\* the top of their ladders after every call (OrderBook.hpp:128,233-251).
BestPricesAreCurrent == NoEmptyLevel(book) /\ CacheIsCurrent(book)

\* The order the matcher is given first is beaten by no order of its side in
\* price or in time (Order.hpp:56-69): levels are FIFO, and an order that
\* modifyOrder re-adds goes behind the orders of its new level.
PriceTimePriority ==
  \A s \in Sides : \A p \in RestingOn(book, s) :
    /\ BestOrder(book, s) # NoOrder
    /\ ~Beats(ord[p], ord[BestOrder(book, s)])

\* What the orders of a level add up to.
SumOfQuantities(orders, o) ==
  LET sum[n \in 0 .. Len(orders)] ==
        IF n = 0 THEN 0 ELSE sum[n - 1] + o[orders[n]].quantity
  IN  sum[Len(orders)]

\* getTotalQuantity is the quantity of the level's orders, modulo the width of
\* Quantity ("Get total quantity at this level", OrderBook.hpp:46).
LevelTotalsAreExact ==
  \A s \in Sides, x \in AnyPrice :
    book.levels[s][x].total = SumOfQuantities(At(book, s, x), ord) % QMod
=============================================================================
