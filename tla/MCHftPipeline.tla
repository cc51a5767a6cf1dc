--------------------------- MODULE MCHftPipeline ---------------------------
(* A machine of two CPUs, each a node, where main wants the second one; and a
   queue the two threads can fill. *)
EXTENDS HftPipeline

MCNodeOf == [c \in {0, 1} |-> c]
=============================================================================
