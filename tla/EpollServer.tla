----------------------------- MODULE EpollServer -----------------------------
(****************************************************************************)
(* include/networking/EpollServer.hpp, from start to the destructor, with   *)
(* the part of the kernel it relies on: the accept queue, a receive buffer  *)
(* per connection, and the ready list of edge-triggered epoll.              *)
(*                                                                          *)
(* A descriptor enters the ready list when something arrives on it (or when *)
(* it is added with something to read), and leaves it when epoll_wait looks *)
(* at it: what is left unread afterwards is not reported again.  Data is a  *)
(* number of bytes.  Socket options are left out.                           *)
(*                                                                          *)
(* Two disciplines of the caller are assumed, which the code does not       *)
(* enforce: start is called again only after it failed (a start while       *)
(* serving would overwrite both descriptors, EpollServer.hpp:36-38), and    *)
(* the server is destroyed only between calls of run or processEvents.      *)
(****************************************************************************)
EXTENDS Integers, Sequences, SequencesExt, FiniteSets, FiniteSetsExt

CONSTANTS
  Conns,      \* connections clients make
  Polite,     \* clients that close only after all they sent was handled
  Bursty,     \* clients that send on however much of theirs is unread; the others
              \* never have more unread than one read takes
  Listen,     \* listen_fd_, in the ready list
  MaxFds,     \* descriptors left to the process
  MaxStarts,  \* bound: calls of start
  AddFails,   \* whether EPOLL_CTL_ADD may fail, for lack of memory
  MaxEvents,  \* MAX_EVENTS
  ReadSize,   \* sizeof(buffer) - 1 in handleClientData
  MaxBytes    \* bound: bytes a client sends in all

ASSUME EpollServerAssumption ==
  /\ Listen \notin Conns /\ Polite \subseteq Conns /\ Bursty \subseteq Conns
  /\ AddFails \in BOOLEAN
  /\ MaxFds \in Nat /\ MaxEvents \in Nat \ {0} /\ ReadSize \in Nat \ {0}
  /\ MaxStarts \in Nat /\ MaxBytes \in Nat

VARIABLES
  phase,      \* where start is, or "idle", "failed", "serving", "gone"
  starts,     \* calls of start so far
  epoll_fd,   \* epoll_fd_, as the call of start that made it; 0 for -1
  listen_fd,  \* listen_fd_, likewise
  fds,        \* descriptors start made that are open
  watched,    \* descriptors in epoll_fd_
  conn,       \* "none", "queued" for accept, "open", or "closed" by the server
  inbox,      \* bytes received by the kernel and not read
  fin,        \* how the client ended: "no", "fin" or "rst"
  ready,      \* the ready list of epoll_fd_
  events,     \* the entries of events[] still to be handled
  accepting,  \* whether handleNewConnection runs
  sent,       \* history: bytes the client sent
  handled     \* history: bytes given to handler_

startVars == <<phase, starts, epoll_fd, listen_fd, fds>>
vars == <<startVars, watched, conn, inbox, fin, ready, events, accepting, sent, handled>>

In(state) == {c \in Conns : conn[c] = state}

\* What epoll_wait finds when it looks at a descriptor of the ready list.
HasEvent(fd) == IF fd = Listen THEN In("queued") # {} ELSE inbox[fd] > 0 \/ fin[fd] # "no"

Listed(list, fd) == fd \in ToSet(list)
Wake(fd) == ready' = IF fd \notin watched \/ Listed(ready, fd) THEN ready ELSE Append(ready, fd)

\* EPOLL_CTL_ADD, whose result is ignored, of a descriptor that may have an
\* event already.
Add(fd) ==
  \/ /\ watched' = watched \cup {fd}
     /\ ready' = IF HasEvent(fd) THEN Append(ready, fd) ELSE ready
  \/ AddFails /\ UNCHANGED <<watched, ready>>

Init ==
  /\ phase = "idle" /\ starts = 0
  /\ epoll_fd = 0 /\ listen_fd = 0 /\ fds = {} /\ watched = {}
  /\ conn = [c \in Conns |-> "none"]
  /\ inbox = [c \in Conns |-> 0]
  /\ fin = [c \in Conns |-> "no"]
  /\ ready = <<>>
  /\ events = <<>>
  /\ accepting = FALSE
  /\ sent = [c \in Conns |-> 0]
  /\ handled = [c \in Conns |-> 0]

\* Descriptors are one resource: clients, and what failed starts leave behind.
FdIsFree == Cardinality(In("open")) + Cardinality(fds) < MaxFds

-----------------------------------------------------------------------------
(* start, and the destructor *)

noClients == <<watched, conn, inbox, fin, ready, events, accepting, sent, handled>>

\* start again after a failure overwrites epoll_fd_ and does not close it.  Not
\* after a success: that is the caller's discipline, the code has no check.
EpollCreate ==
  /\ phase \in {"idle", "failed"} /\ starts < MaxStarts
  /\ starts' = starts + 1
  /\ \/ /\ FdIsFree
        /\ epoll_fd' = starts + 1
        /\ fds' = fds \cup {<<"epoll", starts + 1>>}
        /\ phase' = "socket"
     \/ epoll_fd' = 0 /\ phase' = "failed" /\ UNCHANGED fds
  /\ UNCHANGED <<listen_fd, noClients>>

ListenSocket ==
  /\ phase = "socket"
  /\ \/ /\ FdIsFree
        /\ listen_fd' = starts
        /\ fds' = fds \cup {<<"listen", starts>>}
        /\ phase' = "bind"
     \/ listen_fd' = 0 /\ phase' = "failed" /\ UNCHANGED fds
  /\ UNCHANGED <<starts, epoll_fd, noClients>>

\* bind, then listen: from here on the kernel queues connections.
BindAndListen ==
  /\ phase = "bind"
  /\ phase' \in {"add", "failed"}
  /\ UNCHANGED <<starts, epoll_fd, listen_fd, fds, noClients>>

AddListen ==
  /\ phase = "add"
  /\ Add(Listen)
  /\ phase' = "serving"
  /\ UNCHANGED <<starts, epoll_fd, listen_fd, fds,
                 conn, inbox, fin, events, accepting, sent, handled>>

\* ~EpollServer, outside of run and processEvents: connections stay open.
Destroy ==
  /\ phase \in {"idle", "failed", "serving"} /\ events = <<>> /\ ~accepting
  /\ fds' = fds \ {<<"epoll", epoll_fd>>, <<"listen", listen_fd>>}
  /\ phase' = "gone"
  /\ ready' = <<>> /\ watched' = {}
  /\ UNCHANGED <<starts, epoll_fd, listen_fd, conn, inbox, fin, events, accepting, sent, handled>>

-----------------------------------------------------------------------------
(* Clients and the kernel *)

Connect(c) ==
  /\ phase \in {"add", "serving"} /\ conn[c] = "none"
  /\ conn' = [conn EXCEPT ![c] = "queued"]
  /\ Wake(Listen)
  /\ UNCHANGED <<startVars, watched, inbox, fin, events, accepting, sent, handled>>

IsConnected(c) == conn[c] \in {"queued", "open"} /\ fin[c] = "no" /\ phase # "gone"

Send(c, n) ==
  /\ IsConnected(c) /\ sent[c] + n <= MaxBytes
  /\ c \in Bursty \/ inbox[c] + n <= ReadSize
  /\ inbox' = [inbox EXCEPT ![c] = @ + n]
  /\ sent' = [sent EXCEPT ![c] = @ + n]
  /\ Wake(c)
  /\ UNCHANGED <<startVars, watched, conn, fin, events, accepting, handled>>

ShutDown(c) ==
  /\ IsConnected(c)
  /\ c \in Polite => handled[c] = sent[c]
  /\ fin' = [fin EXCEPT ![c] = "fin"]
  /\ Wake(c)
  /\ UNCHANGED <<startVars, watched, conn, inbox, events, accepting, sent, handled>>

\* The connection is reset, and what was not read is lost.
Reset(c) ==
  /\ IsConnected(c)
  /\ fin' = [fin EXCEPT ![c] = "rst"]
  /\ inbox' = [inbox EXCEPT ![c] = 0]
  /\ Wake(c)
  /\ UNCHANGED <<startVars, watched, conn, events, accepting, sent, handled>>

-----------------------------------------------------------------------------
(* run, or processEvents called again and again *)

\* The lists of all of K, in ascending order: there is one.
Ascending(K) ==
  {f \in [1 .. Cardinality(K) -> K] :
     /\ \A k \in K : \E j \in DOMAIN f : f[j] = k
     /\ \A i, j \in DOMAIN f : i < j => f[i] < f[j]}

\* epoll_wait looks at up to MAX_EVENTS descriptors and returns those of them that
\* have something to report.
EpollWait ==
  /\ phase = "serving" /\ events = <<>> /\ ~accepting
  /\ ready # <<>>
  /\ LET n == Min({MaxEvents, Len(ready)})
     IN  /\ \E f \in Ascending({k \in 1 .. n : HasEvent(ready[k])}) :
              events' = [j \in DOMAIN f |-> ready[f[j]]]
         /\ ready' = SubSeq(ready, n + 1, Len(ready))
  /\ UNCHANGED <<startVars, watched, conn, inbox, fin, accepting, sent, handled>>

HandleNewConnection ==
  /\ ~accepting /\ events # <<>> /\ Head(events) = Listen
  /\ accepting' = TRUE
  /\ events' = Tail(events)
  /\ UNCHANGED <<startVars, watched, conn, inbox, fin, ready, sent, handled>>

\* Mutant of Accept: one connection is accepted per event, as with level
\* triggering.
AcceptOnce(c) ==
  /\ accepting /\ FdIsFree
  /\ conn[c] = "queued"
  /\ conn' = [conn EXCEPT ![c] = "open"]
  /\ Add(c)
  /\ accepting' = FALSE
  /\ UNCHANGED <<startVars, inbox, fin, events, sent, handled>>

\* A turn of handleNewConnection's loop: accept4, and EPOLL_CTL_ADD.  Without a
\* free descriptor accept4 fails, whatever is queued; the loop tries again at
\* once, and nothing changes.
Accept(c) ==
  /\ accepting /\ FdIsFree
  /\ conn[c] = "queued"
  /\ conn' = [conn EXCEPT ![c] = "open"]
  /\ Add(c)
  /\ UNCHANGED <<startVars, inbox, fin, events, accepting, sent, handled>>

\* accept4 answers EAGAIN.
AcceptNoMore ==
  /\ accepting /\ FdIsFree
  /\ In("queued") = {}
  /\ accepting' = FALSE
  /\ UNCHANGED <<startVars, watched, conn, inbox, fin, ready, events, sent, handled>>

\* What handleClientData does with the n bytes it read; at the end of the
\* stream, and on an error, the connection is closed.
Handle(c, n, over) ==
  /\ inbox' = [inbox EXCEPT ![c] = @ - n]
  /\ handled' = [handled EXCEPT ![c] = @ + n]
  /\ conn' = [conn EXCEPT ![c] = IF over THEN "closed" ELSE @]
  /\ watched' = IF over THEN watched \ {c} ELSE watched
  /\ ready' = IF over THEN RemoveFirst(ready, c) ELSE ready
  /\ events' = Tail(events)
  /\ UNCHANGED <<startVars, fin, accepting, sent>>

\* Mutant of HandleClientData: a client that has closed is closed unread.
HandleHangupFirst(c) ==
  /\ ~accepting /\ events # <<>> /\ Head(events) = c
  /\ IF fin[c] # "no" THEN Handle(c, 0, TRUE) ELSE Handle(c, Min({inbox[c], ReadSize}), FALSE)

\* Mutant of HandleClientData: a read that returns 0 only means that there is
\* nothing to handle.
HandleZeroAsNothing(c) ==
  /\ ~accepting /\ events # <<>> /\ Head(events) = c
  /\ Handle(c, Min({inbox[c], ReadSize}), fin[c] = "rst")

HandleClientData(c) ==
  /\ ~accepting /\ events # <<>> /\ Head(events) = c
  /\ Handle(c, Min({inbox[c], ReadSize}), inbox[c] = 0 /\ fin[c] # "no")

LoopStep ==
  \/ EpollWait \/ HandleNewConnection \/ AcceptNoMore
  \/ \E c \in Conns : Accept(c) \/ HandleClientData(c)

Next ==
  \/ EpollCreate \/ ListenSocket \/ BindAndListen \/ AddListen \/ Destroy
  \/ \E c \in Conns :
       Connect(c) \/ ShutDown(c) \/ Reset(c) \/ \E n \in 1 .. MaxBytes : Send(c, n)
  \/ LoopStep

\* Once started, the loop's thread runs; clients do as they like.
Spec == Init /\ [][Next]_vars /\ WF_vars(AddListen) /\ WF_vars(LoopStep)

-----------------------------------------------------------------------------
(* Properties *)

\* Edge triggering loses nothing of clients that are not bursty: a queued
\* connection, and data nobody has read, are always about to be looked at, be
\* they older than the registration (EpollServer.hpp:69-73,131-151,157-170).
NoWakeupIsLost ==
  phase = "serving" =>
    /\ In("queued") # {} => accepting \/ Listed(ready \o events, Listen)
    /\ \A c \in In("open") \ Bursty : inbox[c] > 0 => Listed(ready \o events, c)

Lost(c) == fin[c] = "rst" \/ phase = "gone"

\* handleNewConnection's loop has no descriptor left, and goes on for ever: the
\* result of accept4 is only tested against EAGAIN (EpollServer.hpp:137-143).
OutOfFds == accepting /\ ~FdIsFree

\* All that clients send, over any number of reads, and before they are accepted
\* too, reaches handler_, whatever starts failed before; of clients that wait while
\* a full read of theirs is unread, and unless the accept loop runs out of
\* descriptors (EpollServer.hpp:170).
AllBytesAreHandled ==
  \A c \in Conns \ Bursty, n \in 1 .. MaxBytes :
    sent[c] >= n ~> handled[c] >= n \/ Lost(c) \/ OutOfFds

\* The same of clients that do not wait: one read per event leaves the rest
\* without an event (EpollServer.hpp:158).
BurstsAreHandled ==
  \A c \in Bursty, n \in 1 .. MaxBytes :
    sent[c] >= n ~> handled[c] >= n \/ Lost(c) \/ OutOfFds

\* The connections of clients that reset, and of those that close after their
\* data were handled, are closed here too ("Connection closed or error",
\* EpollServer.hpp:161), unless the accept loop runs out of descriptors.
EndedPeersAreClosed ==
  \A c \in Conns :
    fin[c] = "rst" \/ (c \in Polite /\ fin[c] = "fin")
      ~> conn[c] = "closed" \/ phase = "gone" \/ OutOfFds

\* The same of every client, as the comment has it: a client may close before
\* its last data are read (EpollServer.hpp:161).
ClosedPeersAreClosed ==
  \A c \in Conns : fin[c] # "no" ~> conn[c] = "closed" \/ phase = "gone" \/ OutOfFds

\* handleNewConnection returns to the event loop ("Process events (non-blocking,
\* for integration with other loops)", EpollServer.hpp:104).
AcceptingReturns == accepting ~> ~accepting
=============================================================================
