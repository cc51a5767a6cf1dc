----------------------------- MODULE BoundedQueue -----------------------------
(* What a bounded FIFO queue promises its users: items come out once, in the *)
(* order they went in, never more than Capacity of them inside.  A put or a  *)
(* get that is refused is a step that changes nothing.                       *)
EXTENDS Integers, Sequences

CONSTANTS Items, Capacity

VARIABLES
  queue,     \* the items inside
  delivered  \* the items that came out, in order

vars == <<queue, delivered>>

Init == queue = <<>> /\ delivered = <<>>

Put(x) ==
  /\ Len(queue) < Capacity
  /\ queue' = Append(queue, x)
  /\ UNCHANGED delivered

Get ==
  /\ queue # <<>>
  /\ queue' = Tail(queue)
  /\ delivered' = Append(delivered, Head(queue))

Next == Get \/ \E x \in Items : Put(x)

Spec == Init /\ [][Next]_vars /\ WF_vars(Get)
=============================================================================
