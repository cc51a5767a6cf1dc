----------------------------- MODULE MCOrderBook -----------------------------
(* The order book alone, called by one thread: three orders, ids unique. *)
EXTENDS OrderBook

Symmetry == Permutations(Ptrs)
StrictClock == {1}
=============================================================================
