---------------------------- MODULE PooledMatcher ----------------------------
(****************************************************************************)
(* The matcher over orders that come from an OrderMemoryPool                *)
(* (include/utils/MemoryPool.hpp), as main uses it, with the pool's         *)
(* deallocate and reset, which main does not call.  The book's pointers are *)
(* into memory the caller manages: the book is never told.                  *)
(*                                                                          *)
(* A caller who keeps the rules deallocates an order when its quantity has  *)
(* come down to 0 or the book never took it, and resets the pool when the   *)
(* book holds none of its orders.                                           *)
(****************************************************************************)
EXTENDS Matcher

CONSTANTS
  Pool,        \* pool_, the orders of the pool in the order they are given out
  KeepsRules,  \* whether the caller keeps the rules
  MaxAllocs    \* bound: calls of allocate between two of reset

ASSUME PooledMatcherAssumption ==
  /\ Pool \in Seq(Ptrs) /\ IsInjective(Pool)
  /\ KeepsRules \in BOOLEAN /\ MaxAllocs \in Nat

VARIABLES
  next_free,  \* next_free_
  held        \* history: the orders given out and not given back

poolVars == <<vars, next_free, held>>

InPool(p) == p \in ToSet(Pool)

PoolInit == MatcherInit /\ next_free = 0 /\ held = {}

\* What allocate returns: the next order of the pool, or one from the heap.
Allocated ==
  IF next_free < Len(Pool) THEN {Pool[next_free + 1]}
  ELSE {p \in Ptrs : ~InPool(p) /\ p \notin held}

Allocate ==
  /\ phase = "idle" /\ next_free < MaxAllocs
  /\ \E p \in Allocated :
       /\ ord' = [ord EXCEPT ![p] = ZeroOrder]
       /\ held' = held \cup {p}
  /\ next_free' = next_free + 1
  /\ UNCHANGED <<book, clock, calls, entry, phase, last_trade>>

\* As far as a caller can tell without asking the book.
IsDone(p) == ord[p].quantity = 0

\* Mutant of Deallocate: an order of the pool is recycled by counting back.
DeallocateRecycling(p) ==
  /\ phase = "idle" /\ p \in held
  /\ KeepsRules => IsDone(p)
  /\ ord' = [ord EXCEPT ![p] = ZeroOrder]
  /\ held' = held \ {p}
  /\ next_free' = IF InPool(p) THEN next_free - 1 ELSE next_free
  /\ UNCHANGED <<book, clock, calls, entry, phase, last_trade>>

\* An order of the pool is zeroed, and never given out again before a reset;
\* another goes back to the heap.
Deallocate(p) ==
  /\ phase = "idle" /\ p \in held
  /\ KeepsRules => IsDone(p)
  /\ ord' = [ord EXCEPT ![p] = ZeroOrder]
  /\ held' = held \ {p}
  /\ UNCHANGED <<next_free, book, clock, calls, entry, phase, last_trade>>

ResetPool ==
  /\ phase = "idle" /\ next_free # 0
  /\ KeepsRules => \A p \in Resting(book) : ~InPool(p)
  /\ next_free' = 0
  /\ held' = {p \in held : ~InPool(p)}
  /\ UNCHANGED <<bookVars, phase, last_trade>>

\* What the caller does with the book, with orders it holds.
UseBook ==
  /\ phase = "idle"
  /\ \/ \E p \in held, o \in NewOrders : AddOrder(p, o)
     \/ \E id \in Ids : Cancel(id)
     \/ \E id \in Ids, x \in Prices, q \in Sizes : ModifyOrder(id, x, q)
  /\ UNCHANGED <<phase, last_trade, next_free, held>>

Match == (StartMatch \/ MatchStep \/ MatchReturn) /\ UNCHANGED <<next_free, held>>

PoolNext ==
  \/ Allocate \/ ResetPool \/ UseBook \/ Match
  \/ \E p \in Ptrs : Deallocate(p)

\* matchOrders has nothing to wait for.
FairPoolSpec == PoolInit /\ [][PoolNext]_poolVars /\ WF_poolVars(phase = "matching" /\ Match)

-----------------------------------------------------------------------------
(* Properties *)

\* The book holds no order whose memory was given back: an order whose quantity
\* has come down to 0, by trades or by modifyOrder, is out of the book, so that
\* a caller need not ask before it deallocates (MemoryPool.hpp:53-62,
\* Matcher.hpp:88-94, OrderBook.hpp:160-164).
RestingOrdersAreHeld == Resting(book) \subseteq held

\* No call of allocate, which zeroes what it gives out, nor of reset changes an
\* order that is still in use, in the book or out of it, when the pool is
\* exhausted neither ("fallback to heap", MemoryPool.hpp:37-48,65-67).
OrdersInUseAreLeftAlone ==
  [][next_free' # next_free =>
       \A p \in held \cup Resting(book) : ord'[p] = ord[p]]_poolVars
=============================================================================
