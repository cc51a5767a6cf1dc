------------------------------ MODULE SPSCQueue ------------------------------
(****************************************************************************)
(* The lock-free ring of include/utils/SPSCQueue.hpp (the generic class; the *)
(* specialisation for pointers has the same push and pop).                  *)
(*                                                                          *)
(* Every access to shared memory is a step of its own.  Which threads push  *)
(* and which pop is a parameter, so that the callers' discipline, one of    *)
(* each, can be kept or broken.  An atomic load may return an old value:    *)
(* each thread reads the two indices through a view of its own, which has   *)
(* the thread's stores at once and catches up with others' at any time.     *)
(****************************************************************************)
EXTENDS Integers, Sequences, SequencesExt, FiniteSetsExt

CONSTANTS
  Producers,  \* threads that push
  Consumers,  \* threads that pop
  Size,       \* number of slots
  MaxItems,   \* bound: number of distinct items pushed
  NoItem      \* what a slot holds before an item is stored in it

Threads == Producers \cup Consumers
Slots == 0 .. Size - 1
Items == 1 .. MaxItems

ASSUME SPSCQueueAssumption ==
  /\ Size \in Nat \ {0, 1} /\ \E n \in 1 .. Size : Size = 2 ^ n
  /\ MaxItems \in Nat
  /\ NoItem \notin Items

VARIABLES
  buffer,     \* buffer_
  write_pos,  \* write_pos_
  read_pos,   \* read_pos_
  view,       \* the values of the two indices that a thread's loads return
  at,         \* what a thread does next
  pos,        \* current_write or current_read of a thread
  item,       \* the item a thread pushes or has popped
  sent,       \* history: items whose push returned true, in order
  received    \* history: items whose pop returned true, in order

queueVars == <<buffer, write_pos, read_pos, view, at, pos, item, sent, received>>

Labels == {"out", "push_check", "push_store", "push_publish",
           "pop_check", "pop_load", "pop_advance"}

\* Mutant of Advance: the index does not wrap.
AdvanceUnmasked(i) == i + 1

\* (i + 1) & (Size - 1), Size being a power of two
Advance(i) == (i + 1) % Size

\* What a thread that sees every store sees.
Indices == [write |-> write_pos, read |-> read_pos]

Goto(t, label) == at' = [at EXCEPT ![t] = label]

Init ==
  /\ buffer = [i \in Slots |-> NoItem]
  /\ write_pos = 0
  /\ read_pos = 0
  /\ view = [t \in Threads |-> Indices]
  /\ at = [t \in Threads |-> "out"]
  /\ pos = [t \in Threads |-> 0]
  /\ item = [t \in Threads |-> NoItem]
  /\ sent = <<>>
  /\ received = <<>>

\* A store of another thread becomes visible to t.
Observe(t) ==
  /\ \E index \in {"write", "read"} :
       /\ view[t][index] # Indices[index]
       /\ view' = [view EXCEPT ![t][index] = Indices[index]]
  /\ UNCHANGED <<buffer, write_pos, read_pos, at, pos, item, sent, received>>

-----------------------------------------------------------------------------
(* push *)

PushBegin(t, x) ==
  /\ at[t] = "out"
  /\ pos' = [pos EXCEPT ![t] = view[t].write]
  /\ item' = [item EXCEPT ![t] = x]
  /\ Goto(t, "push_check")
  /\ UNCHANGED <<buffer, write_pos, read_pos, view, sent, received>>

\* Mutants of HasRoom: no test; an empty ring is taken to be full.
HasRoomAlways(t) == TRUE
HasRoomIfNotEmpty(t) == pos[t] # view[t].read

\* The slot after the one to be written is not the one that is read next.
HasRoom(t) == Advance(pos[t]) # view[t].read

\* Mutant of PushCheck: the index is published before the slot is stored.
PushCheckPublishing(t) ==
  /\ at[t] = "push_check"
  /\ Goto(t, IF HasRoom(t) THEN "push_store" ELSE "out")
  /\ write_pos' = IF HasRoom(t) THEN Advance(pos[t]) ELSE write_pos
  /\ UNCHANGED <<buffer, read_pos, view, pos, item, sent, received>>

PushCheck(t) ==
  /\ at[t] = "push_check"
  /\ Goto(t, IF HasRoom(t) THEN "push_store" ELSE "out")
  /\ UNCHANGED <<buffer, write_pos, read_pos, view, pos, item, sent, received>>

PushStore(t) ==
  /\ at[t] = "push_store"
  /\ buffer' = [buffer EXCEPT ![pos[t]] = item[t]]
  /\ Goto(t, "push_publish")
  /\ UNCHANGED <<write_pos, read_pos, view, pos, item, sent, received>>

PushPublish(t) ==
  /\ at[t] = "push_publish"
  /\ write_pos' = Advance(pos[t])
  /\ view' = [view EXCEPT ![t].write = Advance(pos[t])]
  /\ sent' = Append(sent, item[t])
  /\ Goto(t, "out")
  /\ UNCHANGED <<buffer, read_pos, pos, item, received>>

-----------------------------------------------------------------------------
(* pop *)

PopBegin(t) ==
  /\ at[t] = "out"
  /\ pos' = [pos EXCEPT ![t] = view[t].read]
  /\ Goto(t, "pop_check")
  /\ UNCHANGED <<buffer, write_pos, read_pos, view, item, sent, received>>

HasItem(t) == pos[t] # view[t].write

PopCheck(t) ==
  /\ at[t] = "pop_check"
  /\ Goto(t, IF HasItem(t) THEN "pop_load" ELSE "out")
  /\ UNCHANGED <<buffer, write_pos, read_pos, view, pos, item, sent, received>>

PopLoad(t) ==
  /\ at[t] = "pop_load"
  /\ item' = [item EXCEPT ![t] = buffer[pos[t]]]
  /\ Goto(t, "pop_advance")
  /\ UNCHANGED <<buffer, write_pos, read_pos, view, pos, sent, received>>

\* Mutant of PopAdvance: the index jumps to what the producer has published.
PopAdvanceToEnd(t) ==
  /\ at[t] = "pop_advance"
  /\ read_pos' = view[t].write
  /\ view' = [view EXCEPT ![t].read = view[t].write]
  /\ received' = Append(received, item[t])
  /\ Goto(t, "out")
  /\ UNCHANGED <<buffer, write_pos, pos, item, sent>>

PopAdvance(t) ==
  /\ at[t] = "pop_advance"
  /\ read_pos' = Advance(pos[t])
  /\ view' = [view EXCEPT ![t].read = Advance(pos[t])]
  /\ received' = Append(received, item[t])
  /\ Goto(t, "out")
  /\ UNCHANGED <<buffer, write_pos, pos, item, sent>>

\* empty(), which loads the two indices
IsEmpty(t) == view[t].read = view[t].write

-----------------------------------------------------------------------------
(* Threads that do nothing but push, retrying when refused, or pop. *)

InFlight == {item[t] : t \in {u \in Producers : at[u] # "out"}}
Unsent == Items \ (ToSet(sent) \cup InFlight)

ProducerStep(t) ==
  \/ Unsent # {} /\ PushBegin(t, Min(Unsent))
  \/ PushCheck(t) \/ PushStore(t) \/ PushPublish(t)

ConsumerStep(t) == PopBegin(t) \/ PopCheck(t) \/ PopLoad(t) \/ PopAdvance(t)

Next ==
  \/ \E t \in Threads : Observe(t)
  \/ \E t \in Producers : ProducerStep(t)
  \/ \E t \in Consumers : ConsumerStep(t)

Spec == Init /\ [][Next]_queueVars

\* Threads are scheduled, and stores become visible in finite time.
FairSpec ==
  /\ Spec
  /\ \A t \in Threads : WF_queueVars(Observe(t))
  /\ \A t \in Producers : WF_queueVars(ProducerStep(t))
  /\ \A t \in Consumers : WF_queueVars(ConsumerStep(t))

-----------------------------------------------------------------------------
(* Properties *)

\* The state has its types.
QueueTypeOK ==
  /\ buffer \in [Slots -> Items \cup {NoItem}]
  /\ write_pos \in Slots /\ read_pos \in Slots
  /\ view \in [Threads -> [write : Slots, read : Slots]]
  /\ at \in [Threads -> Labels]
  /\ pos \in [Threads -> Slots]
  /\ item \in [Threads -> Items \cup {NoItem}]
  /\ sent \in Seq(Items)
  /\ received \in Seq(Items \cup {NoItem})

\* No slot is stored to while another thread stores to it or loads from it
\* ("thread-safe, single producer only", SPSCQueue.hpp:31,51).
NoDataRace ==
  \A t, u \in Threads :
    t # u /\ at[t] = "push_store" /\ at[u] \in {"push_store", "pop_load"}
      => pos[t] # pos[u]

\* What pop returns is what push accepted, in that order, nothing skipped and
\* nothing twice (SPSCQueue.hpp:32-64).
DeliveredInOrder == IsPrefix(received, sent)

\* With items left to push, the queue is never full for the producer and empty
\* for the consumer for ever: all of them come out (SPSCQueue.hpp:36-39,55-58).
AllDelivered == <>(Len(received) = MaxItems)

Occupied == (write_pos - read_pos) % Size

Abstract == INSTANCE BoundedQueue
  WITH queue <- [i \in 1 .. Occupied |-> buffer[(read_pos + i - 1) % Size]],
       delivered <- received, Capacity <- Size - 1

\* One producer and one consumer see a bounded FIFO queue: push takes effect at
\* its store to write_pos_, pop at its store to read_pos_.
ImplementsBoundedQueue == Abstract!Spec
=============================================================================
