------------------------------ MODULE MCMatcher ------------------------------
(* The book and the matcher, called by the one thread that owns them. *)
EXTENDS Matcher

Symmetry == Permutations(Ptrs)
StrictClock == {1}
WallClock == {-1, 0, 1}
=============================================================================
