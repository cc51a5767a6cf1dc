---------------------------- MODULE LimitOrderBook ----------------------------
(****************************************************************************)
(* What an order book and its matcher promise together, without ladders,    *)
(* index, caches, pointers or clocks: a set of live orders, each with the   *)
(* rank at which it entered, traded best price first, then earliest rank.   *)
(****************************************************************************)
EXTENDS Integers, FiniteSetsExt

CONSTANTS
  Ids,     \* order ids
  Prices,  \* positive prices
  Sizes,   \* quantities callers ask for, 0 among them or not
  Ranks,   \* places in the order of arrival
  NoTrade  \* the last trade before there is one

VARIABLES
  live,       \* the orders that rest in the book
  matching,   \* whether the matcher runs
  last_trade  \* the last trade it made

vars == <<live, matching, last_trade>>

Side(s) == {o \in live : o.side = s}

\* Better price first, then first come.
Ahead(a, b) ==
  \/ a.side = "buy" /\ a.price > b.price
  \/ a.side = "sell" /\ a.price < b.price
  \/ a.price = b.price /\ a.rank < b.rank

Best(s) == CHOOSE a \in Side(s) : \A b \in Side(s) \ {a} : Ahead(a, b)

Crossed == \E b \in Side("buy"), a \in Side("sell") : b.price >= a.price

Init == live = {} /\ matching = FALSE /\ last_trade = NoTrade

\* A new order goes behind every order that is live.
Enter(id, side, price, quantity, rank) ==
  /\ ~matching
  /\ quantity > 0
  /\ \A o \in live : o.id # id /\ o.rank < rank
  /\ live' = live \cup {[id |-> id, side |-> side, price |-> price,
                         quantity |-> quantity, rank |-> rank]}
  /\ UNCHANGED <<matching, last_trade>>

Leave(o) ==
  /\ ~matching
  /\ live' = live \ {o}
  /\ UNCHANGED <<matching, last_trade>>

\* An amended order loses its place, and leaves when nothing is left of it.
Amend(o, price, quantity, rank) ==
  /\ ~matching
  /\ \A other \in live \ {o} : other.rank < rank
  /\ live' = (live \ {o}) \cup
       (IF quantity = 0 THEN {}
        ELSE {[o EXCEPT !.price = price, !.quantity = quantity, !.rank = rank]})
  /\ UNCHANGED <<matching, last_trade>>

StartMatching == ~matching /\ matching' = TRUE /\ UNCHANGED <<live, last_trade>>

\* The two best orders trade what both can, at the price of the earlier one.
Trade ==
  LET bid == Best("buy")
      ask == Best("sell")
      qty == Min({bid.quantity, ask.quantity})
      After(o) == IF o.quantity = qty THEN {}
                  ELSE {[o EXCEPT !.quantity = @ - qty]}
  IN  /\ matching /\ Crossed
      /\ live' = (live \ {bid, ask}) \cup After(bid) \cup After(ask)
      /\ last_trade' = [buy_id |-> bid.id, sell_id |-> ask.id, quantity |-> qty,
                        price |-> IF bid.rank < ask.rank THEN bid.price ELSE ask.price]
      /\ UNCHANGED matching

\* Matching goes on until no buy order would pay what a sell order asks.
StopMatching ==
  /\ matching /\ ~Crossed
  /\ matching' = FALSE
  /\ UNCHANGED <<live, last_trade>>

Next ==
  \/ \E id \in Ids, s \in {"buy", "sell"}, x \in Prices, q \in Sizes, r \in Ranks :
       Enter(id, s, x, q, r)
  \/ \E o \in live : Leave(o) \/ \E x \in Prices, q \in Sizes, r \in Ranks : Amend(o, x, q, r)
  \/ StartMatching \/ Trade \/ StopMatching

Spec == Init /\ [][Next]_vars
=============================================================================
