--------------------------- MODULE MCPooledMatcher ---------------------------
(* A pool of two orders, and room on the heap for one more. *)
EXTENDS PooledMatcher

CONSTANTS p1, p2, p3

MCPtrs == {p1, p2, p3}
MCPool == <<p1, p2>>
StrictClock == {1}
=============================================================================
