------------------------ MODULE UDPMulticastReceiver ------------------------
(****************************************************************************)
(* UDPMulticastReceiver of include/networking/UDPServer.hpp, next to        *)
(* UDPServer: the same batches, and a start that may fail after bind too.   *)
(* multicast says which of the two classes the object is of.                *)
(****************************************************************************)
EXTENDS UDPServer

VARIABLES
  multicast,  \* whether the object is a UDPMulticastReceiver
  members     \* sockets that joined the group

mvars == <<vars, multicast, members>>

MInit == Init /\ multicast \in BOOLEAN /\ members = {}

\* A datagram for the group goes to every bound socket, once one has joined;
\* a socket whose buffer is full misses it.
DeliverToGroup(d) ==
  /\ members # {}
  /\ d = Unmarked \/ \A s \in bound : Len(queued[s]) < MaxMarked
  /\ LET room == {s \in bound : Len(buffer[s]) < Capacity}
     IN  /\ buffer' = [s \in Sockets |->
                         IF s \in room THEN Append(buffer[s], d) ELSE buffer[s]]
         /\ queued' = [s \in Sockets |->
                         IF s \in room /\ d # Unmarked THEN Append(queued[s], d)
                                                       ELSE queued[s]]
  /\ UNCHANGED <<pc, startVars, batchVars, multicast, members>>

\* IP_ADD_MEMBERSHIP; if it fails, start returns false with a bound socket.
Join ==
  /\ pc = "join"
  /\ members' = members \cup {socket_fd}
  /\ pc' = "started"
  /\ UNCHANGED <<startVars, batchVars, kernelVars, multicast>>

JoinFails ==
  /\ pc = "join"
  /\ pc' = "failed"
  /\ UNCHANGED <<startVars, batchVars, kernelVars, multicast, members>>

ReceiverStart ==
  \/ (Socket \/ SocketFails \/ Bind("join") \/ BindFails) /\ UNCHANGED <<multicast, members>>
  \/ Join \/ JoinFails

\* ~UDPMulticastReceiver; with its last socket the group is left.
ReceiverDestroy ==
  /\ Destroy
  /\ members' = members \ {socket_fd}
  /\ UNCHANGED multicast

\* receiveMessages and run of UDPMulticastReceiver, which are UDPServer's with
\* recv in the place of recvfrom.
ReceiverReceive == ReceiveMessages /\ UNCHANGED <<multicast, members>>
ReceiverRun == (Run \/ NextBatch) /\ UNCHANGED <<multicast, members>>

MNext ==
  \/ ~multicast /\ Next /\ UNCHANGED <<multicast, members>>
  \/ /\ multicast
     /\ \/ \E d \in Marked \cup {Unmarked} : DeliverToGroup(d)
        \/ ReceiverStart \/ ReceiverDestroy \/ ReceiverReceive \/ ReceiverRun

\* The thread that called run goes on; the rest of the world need not.
Loop == (ReceiveMessages \/ NextBatch) /\ UNCHANGED <<multicast, members>>

Spec == MInit /\ [][MNext]_mvars /\ WF_mvars(Loop)

-----------------------------------------------------------------------------
(* Properties *)

Running == pc \in {"batch", "pause"}

\* The marked datagrams of a buffer, in order.
MarkedOf(buf) ==
  LET kept[n \in 0 .. Len(buf)] ==
        IF n = 0 THEN <<>>
        ELSE IF buf[n] \in Marked THEN Append(kept[n - 1], buf[n]) ELSE kept[n - 1]
  IN  kept[Len(buf)]

\* The handler gets what the kernel queued on the socket that is read: once,
\* in order, and nothing else, whatever batches and errors of recvfrom come
\* between (UDPServer.hpp:90-103).
HandledOnceInOrder ==
  Running /\ socket_fd # NoSocket =>
    handled \o MarkedOf(buffer[socket_fd]) = queued[socket_fd]

\* Every datagram the kernel queued is handled, empty ones too, under a flood
\* of others and after errors (UDPServer.hpp:90-103,110-128).  No start of a
\* UDPServer leaves a bound socket behind to which, by SO_REUSEPORT, a share of
\* the datagrams would go unread (UDPServer.hpp:47-48,76-78).
QueuedIsHandled ==
  \A s \in Sockets, n \in 1 .. MaxMarked :
    Running /\ (s = socket_fd \/ ~multicast) /\ Len(queued[s]) >= n ~> Len(handled) >= n

\* receiveMessages returns, under a flood and when every recvfrom fails ("Returns
\* number of messages received", UDPServer.hpp:82).
ReceiveReturns == pc = "batch" ~> pc # "batch"
=============================================================================
