------------------------------- MODULE Matcher -------------------------------
(****************************************************************************)
(* Matcher of include/order_matching/Matcher.hpp over its OrderBook.        *)
(*                                                                          *)
(* matchOrders runs to completion in the thread that owns the book; each    *)
(* turn of its loop is a step, so that what holds between two trades, and   *)
(* whether the loop ends, can be asked.  The trade's own time stamp, the    *)
(* number of trades and the log line are left out.                          *)
(****************************************************************************)
EXTENDS OrderBook

CONSTANT NoTrade  \* what last_trade_ holds before a trade: it is not initialised

VARIABLES
  phase,      \* "idle", or "matching" while matchOrders runs
  last_trade  \* last_trade_

vars == <<bookVars, phase, last_trade>>

Trades == [buy_id : AnyId, sell_id : AnyId, quantity : 0 .. QMod - 1, price : AnyPrice]

Bid == BestOrder(book, "buy")
Ask == BestOrder(book, "sell")

\* Mutant of Matchable: orders at one price are taken not to match.
MatchableStrictly ==
  /\ HasMatch(book)
  /\ Bid # NoOrder /\ Ask # NoOrder
  /\ ord[Bid].price > ord[Ask].price

\* The loop goes on: hasMatch, both orders exist, and their prices still match.
Matchable ==
  /\ HasMatch(book)
  /\ Bid # NoOrder /\ Ask # NoOrder
  /\ ord[Bid].price >= ord[Ask].price

\* Mutant of MatchPrice: the later order sets the price.
MatchPriceOfLater(bid, ask) == IF bid.timestamp < ask.timestamp THEN ask.price ELSE bid.price

\* match_price
MatchPrice(bid, ask) == IF bid.timestamp < ask.timestamp THEN bid.price ELSE ask.price

\* match_qty
MatchQty(bid, ask) == Min({bid.quantity, ask.quantity})

Reduce(o, p, qty) == [o EXCEPT ![p].quantity = (@ - qty) % QMod]

\* Mutants of RemoveIfFilled: a filled sell order stays; so does any filled order.
RemoveIfFilledBuy(b, o, p) ==
  IF o[p].quantity = 0 /\ o[p].side = "buy" THEN CancelOrder(b, o, o[p].id) ELSE b
RemoveNothing(b, o, p) == b

\* The end of executeTrade, for either order.
RemoveIfFilled(b, o, p) == IF o[p].quantity = 0 THEN CancelOrder(b, o, o[p].id) ELSE b

\* executeTrade
ExecuteTrade(bid, ask, price, qty) ==
  /\ last_trade' = [buy_id |-> ord[bid].id, sell_id |-> ord[ask].id,
                    quantity |-> qty, price |-> price]
  /\ ord' = Reduce(Reduce(ord, bid, qty), ask, qty)
  /\ \E b \in {RemoveIfFilled(book, ord', bid)} : book' = RemoveIfFilled(b, ord', ask)
  /\ UNCHANGED <<clock, calls, entry, phase>>

-----------------------------------------------------------------------------

MatcherInit == Init /\ phase = "idle" /\ last_trade = NoTrade

CallBook == phase = "idle" /\ BookNext /\ UNCHANGED <<phase, last_trade>>

StartMatch ==
  /\ phase = "idle"
  /\ phase' = "matching"
  /\ UNCHANGED <<bookVars, last_trade>>

MatchStep ==
  /\ phase = "matching"
  /\ Matchable
  /\ ExecuteTrade(Bid, Ask, MatchPrice(ord[Bid], ord[Ask]), MatchQty(ord[Bid], ord[Ask]))

MatchReturn ==
  /\ phase = "matching"
  /\ ~Matchable
  /\ phase' = "idle"
  /\ UNCHANGED <<bookVars, last_trade>>

MatcherNext == CallBook \/ StartMatch \/ MatchStep \/ MatchReturn

MatcherSpec == MatcherInit /\ [][MatcherNext]_vars

\* matchOrders has nothing to wait for: its thread runs it to the end.
FairMatcherSpec == MatcherSpec /\ WF_vars(MatchStep) /\ WF_vars(MatchReturn)

-----------------------------------------------------------------------------
(* Properties *)

\* The book's types are kept by trades too, and the matcher's own state has its
\* types (Matcher.hpp:10-21,69).
MatcherTypeOK ==
  /\ TypeOK
  /\ phase \in {"idle", "matching"}
  /\ last_trade \in Trades \cup {NoTrade}

\* An order without quantity never rests: addOrder refuses it, modifyOrder only
\* cancels, and executeTrade removes it ("Remove fully filled orders",
\* Matcher.hpp:88-94).
NoFilledOrderRests == \A p \in Resting(book) : ord[p].quantity > 0

\* When matchOrders returns, no resting buy order would pay what a resting sell
\* order asks, whatever the caches say (Matcher.hpp:32-58).
MatchLeavesBookUncrossed ==
  [][phase = "matching" /\ phase' = "idle" =>
       \A b \in RestingOn(book', "buy"), a \in RestingOn(book', "sell") :
         ord'[b].price < ord'[a].price]_vars

\* matchOrders returns (Matcher.hpp:32-60): every turn of the loop takes shares
\* out of the book.
MatchTerminates == phase = "matching" ~> phase = "idle"

\* The trade's price is that of whichever order entered the book first
\* ("price-time priority: first order sets price", Matcher.hpp:45).
FirstOrderSetsPrice ==
  [][MatchStep =>
       last_trade'.price = IF entry[Bid] < entry[Ask] THEN ord[Bid].price
                           ELSE ord[Ask].price]_vars

\* hasMatch is what its comment says: a best bid is at or above a best ask
\* ("Check if there's a match (bid >= ask)", OrderBook.hpp:205).
HasMatchIffCrossed ==
  HasMatch(book) <=> /\ Bid # NoOrder /\ Ask # NoOrder
                     /\ ord[Bid].price >= ord[Ask].price

LiveOrders == {[id |-> ord[p].id, side |-> ord[p].side, price |-> ord[p].price,
                quantity |-> ord[p].quantity, rank |-> entry[p]] : p \in Resting(book)}

Abstract == INSTANCE LimitOrderBook
              WITH live <- LiveOrders, matching <- phase = "matching",
                   Ranks <- 1 .. MaxCalls

\* The book and the matcher are a limit order book with price-time priority:
\* each call and each turn of matchOrders is a step of the abstract one, or none
\* (OrderBook.hpp:83-209, Matcher.hpp:29-94).
ImplementsLimitOrderBook == Abstract!Spec
=============================================================================
