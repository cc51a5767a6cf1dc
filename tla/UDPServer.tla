----------------------------- MODULE UDPServer -----------------------------
(****************************************************************************)
(* UDPServer of include/networking/UDPServer.hpp: a socket that start makes *)
(* and binds, and a loop that takes datagrams from it in bounded batches.   *)
(* The kernel's part is a receive buffer per socket, which drops what does  *)
(* not fit.                                                                 *)
(*                                                                          *)
(* Only marked datagrams are followed to the handler; the others are all    *)
(* the same, and there is no end to them.  Socket options are left out, and *)
(* so is sendTo, which changes nothing here.                                *)
(****************************************************************************)
EXTENDS Naturals, Sequences, FiniteSets

CONSTANTS
  Marked,       \* datagrams that are followed
  Empty,        \* those of them without payload: recvfrom returns 0
  Unmarked,     \* what any other datagram looks like
  MaxMessages,  \* max_messages of receiveMessages
  Capacity,     \* datagrams a receive buffer holds (SO_RCVBUF)
  MaxStarts,    \* bound: calls of start
  MaxMarked,    \* bound: marked datagrams queued on a socket
  MaxErrors     \* bound: errors of recvfrom on a good socket

ASSUME UDPServerAssumption ==
  /\ Empty \subseteq Marked /\ Unmarked \notin Marked
  /\ MaxMessages \in Nat \ {0} /\ Capacity \in Nat \ {0}
  /\ MaxStarts \in Nat /\ MaxMarked \in Nat /\ MaxErrors \in Nat

Sockets == 1 .. MaxStarts
NoSocket == 0           \* socket_fd_ = -1

VARIABLES
  pc,         \* "idle", "failed" or "started" between calls, "bind" (or "join")
              \* in start, "batch" in receiveMessages, "pause" in run, "gone"
  socket_fd,  \* socket_fd_
  starts,     \* calls of start so far
  open,       \* sockets this process has open
  bound,      \* those of them that are bound to port_
  buffer,     \* the kernel's receive buffer of each socket
  i,          \* turns of receiveMessages' loop
  received,   \* what receiveMessages will return
  errors,     \* errors of recvfrom on a good socket so far
  queued,     \* history: marked datagrams the kernel queued, per socket
  handled     \* history: marked datagrams given to handler_

startVars == <<socket_fd, starts, open, bound>>
batchVars == <<i, received, errors, handled>>
kernelVars == <<buffer, queued>>
vars == <<pc, startVars, batchVars, kernelVars>>

\* The state has its types; no batch goes past max_messages, nor counts more
\* datagrams than it had turns (UDPServer.hpp:90-107).
UDPServerTypeOK ==
  /\ pc \in {"idle", "bind", "join", "failed", "started", "batch", "pause", "gone"}
  /\ socket_fd \in Sockets \cup {NoSocket} /\ starts \in 0 .. MaxStarts
  /\ bound \subseteq open /\ open \subseteq Sockets
  /\ buffer \in [Sockets -> Seq(Marked \cup {Unmarked})]
  /\ queued \in [Sockets -> Seq(Marked)] /\ handled \in Seq(Marked)
  /\ i \in 0 .. MaxMessages /\ received \in 0 .. i /\ errors \in 0 .. MaxErrors

Init ==
  /\ pc = "idle"
  /\ socket_fd = NoSocket /\ starts = 0
  /\ open = {} /\ bound = {}
  /\ buffer = [s \in Sockets |-> <<>>]
  /\ i = 0 /\ received = 0 /\ errors = 0
  /\ queued = [s \in Sockets |-> <<>>]
  /\ handled = <<>>

-----------------------------------------------------------------------------
(* The kernel *)

\* A datagram for port_ is put in the buffer of a bound socket, or dropped if
\* that is full.
Deliver(s, d) ==
  /\ Len(buffer[s]) < Capacity
  /\ buffer' = [buffer EXCEPT ![s] = Append(@, d)]
  /\ IF d = Unmarked
     THEN UNCHANGED queued
     ELSE Len(queued[s]) < MaxMarked /\ queued' = [queued EXCEPT ![s] = Append(@, d)]
  /\ UNCHANGED <<pc, startVars, batchVars>>

-----------------------------------------------------------------------------
(* start, and the destructor *)

\* A caller that was told start failed may call it again.  It does not after a
\* success: that is its own discipline, the code has no check
\* (UDPServer.hpp:34-36) and would leave the first socket open, bound and unread.
Socket ==
  /\ pc \in {"idle", "failed"} /\ starts < MaxStarts
  /\ starts' = starts + 1
  /\ socket_fd' = starts + 1
  /\ open' = open \cup {starts + 1}
  /\ pc' = "bind"
  /\ UNCHANGED <<bound, batchVars, kernelVars>>

SocketFails ==
  /\ pc \in {"idle", "failed"} /\ starts < MaxStarts
  /\ starts' = starts + 1
  /\ socket_fd' = NoSocket
  /\ pc' = "failed"
  /\ UNCHANGED <<open, bound, batchVars, kernelVars>>

\* Mutant of Bind: something that may still fail comes after bind.
BindBeforeOptions(next) ==
  /\ pc = "bind"
  /\ bound' = bound \cup {socket_fd}
  /\ pc' \in {next, "failed"}
  /\ UNCHANGED <<socket_fd, starts, open, batchVars, kernelVars>>

Bind(next) ==
  /\ pc = "bind"
  /\ bound' = bound \cup {socket_fd}
  /\ pc' = next
  /\ UNCHANGED <<socket_fd, starts, open, batchVars, kernelVars>>

\* The socket stays open, and socket_fd_ keeps it.
BindFails ==
  /\ pc = "bind"
  /\ pc' = "failed"
  /\ UNCHANGED <<startVars, batchVars, kernelVars>>

\* ~UDPServer closes socket_fd_, and no socket of an earlier start.
Destroy ==
  /\ pc \in {"idle", "failed", "started"}
  /\ open' = open \ {socket_fd}
  /\ bound' = bound \ {socket_fd}
  /\ pc' = "gone"
  /\ UNCHANGED <<socket_fd, starts, batchVars, kernelVars>>

-----------------------------------------------------------------------------
(* receiveMessages and run, with a socket or without *)

BeginBatch ==
  /\ i' = 0
  /\ received' = 0
  /\ pc' = "batch"
  /\ UNCHANGED <<errors, handled, startVars, kernelVars>>

Run == pc \in {"failed", "started"} /\ BeginBatch

\* Mutant of InBatch: one turn too many.
InBatchOneMore == pc = "batch" /\ i <= MaxMessages

\* The condition of receiveMessages' loop.
InBatch == pc = "batch" /\ i < MaxMessages

\* Mutant of Recv: an empty datagram is taken for an error (n <= 0).
RecvPayload ==
  /\ InBatch /\ socket_fd # NoSocket /\ buffer[socket_fd] # <<>>
  /\ LET d == Head(buffer[socket_fd])
     IN  /\ handled' = IF d \in Marked \ Empty THEN Append(handled, d) ELSE handled
         /\ received' = IF d \in Empty THEN received ELSE received + 1
  /\ buffer' = [buffer EXCEPT ![socket_fd] = Tail(@)]
  /\ i' = i + 1
  /\ UNCHANGED <<pc, errors, startVars, queued>>

\* recvfrom returns a datagram, empty or not, and handler_ gets it.
Recv ==
  /\ InBatch /\ socket_fd # NoSocket /\ buffer[socket_fd] # <<>>
  /\ LET d == Head(buffer[socket_fd])
     IN  handled' = IF d \in Marked THEN Append(handled, d) ELSE handled
  /\ buffer' = [buffer EXCEPT ![socket_fd] = Tail(@)]
  /\ received' = received + 1
  /\ i' = i + 1
  /\ UNCHANGED <<pc, errors, startVars, queued>>

\* EAGAIN, which a socket that is not bound answers too.
RecvAgain ==
  /\ InBatch /\ socket_fd # NoSocket /\ buffer[socket_fd] = <<>>
  /\ pc' = "pause"
  /\ UNCHANGED <<startVars, batchVars, kernelVars>>

\* Mutant of RecvError: a turn that failed is tried again.
RecvErrorRetried ==
  /\ InBatch
  /\ socket_fd = NoSocket \/ errors < MaxErrors
  /\ errors' = IF socket_fd = NoSocket THEN errors ELSE errors + 1
  /\ UNCHANGED <<pc, i, received, handled, startVars, kernelVars>>

\* Any other error, on every turn if there is no socket (EBADF).
RecvError ==
  /\ InBatch
  /\ socket_fd = NoSocket \/ errors < MaxErrors
  /\ errors' = IF socket_fd = NoSocket THEN errors ELSE errors + 1
  /\ i' = i + 1
  /\ UNCHANGED <<pc, received, handled, startVars, kernelVars>>

BatchIsFull ==
  /\ pc = "batch" /\ i = MaxMessages
  /\ pc' = "pause"
  /\ UNCHANGED <<startVars, batchVars, kernelVars>>

\* After an empty batch run polls or sleeps, for a bounded time either way;
\* after another it goes on at once.
NextBatch == pc = "pause" /\ BeginBatch

ReceiveMessages == Recv \/ RecvAgain \/ RecvError \/ BatchIsFull

Next ==
  \/ \E s \in bound, d \in Marked \cup {Unmarked} : Deliver(s, d)
  \/ Socket \/ SocketFails \/ Bind("started") \/ BindFails \/ Destroy
  \/ Run \/ ReceiveMessages \/ NextBatch
=============================================================================
