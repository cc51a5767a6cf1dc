------------------------------- MODULE Server -------------------------------
(****************************************************************************)
(* The JSON server of src/networking/server.cpp: one acceptor that is armed *)
(* again by each of its completions, and one detached thread per connection *)
(* that reads lines and answers them.  All threads use one order book and   *)
(* one matcher, without a lock.                                             *)
(*                                                                          *)
(* A request is one of a few kinds of lines.  The book is what has been     *)
(* added to it, a sequence with the client of each order; AddOrder and      *)
(* MatchOrders load and store it, so that two threads may lose each other's *)
(* orders, one of the outcomes of their race.  AddOrder does not take an    *)
(* order of quantity 0; its result is ignored.                              *)
(****************************************************************************)
EXTENDS Integers, Sequences, SequencesExt, FiniteSets

CONSTANTS
  Clients,
  Traders,      \* clients that place orders
  MaxRequests,  \* bound: lines a client sends
  MaxFaults     \* bound: accepts that complete with an error

ASSUME ServerAssumption ==
  Traders \subseteq Clients /\ MaxRequests \in Nat /\ MaxFaults \in Nat

Valid == {"order", "empty_order"}   \* fields that convert; the second's quantity is 0
Orders == Valid \cup {"bad_order"}  \* fields that do not convert
Answered == Orders \cup {"data", "keyless"}  \* answered with a line; a key is missing
Kinds == Answered \cup {"blank", "garbage"}  \* an empty line; no JSON

VARIABLES
  up,       \* whether io_context.run runs
  armed,    \* whether an async_accept is pending
  faults,   \* accepts that completed with an error
  conn,     \* "none", "queued", "open" or "closed"
  inbox,    \* lines received and not read, per client
  hangup,   \* whether the client has closed
  at,       \* where handleClient is: "none", "read", "process", "place", "write"
  line,     \* the line it works on
  loaded,   \* the book as its AddOrder found it
  book,     \* orderBook: the clients whose orders were added, in order
  sent,     \* history: lines the client sent
  answers   \* history: lines answered, by their kind

clientVars == <<inbox, hangup, sent>>
vars == <<up, armed, faults, conn, clientVars, at, line, loaded, book, answers>>

Init ==
  /\ up = TRUE /\ armed = TRUE /\ faults = 0
  /\ conn = [c \in Clients |-> "none"]
  /\ inbox = [c \in Clients |-> <<>>]
  /\ hangup = [c \in Clients |-> FALSE]
  /\ at = [c \in Clients |-> "none"]
  /\ line = [c \in Clients |-> "blank"]
  /\ loaded = [c \in Clients |-> <<>>]
  /\ book = <<>>
  /\ sent = [c \in Clients |-> <<>>]
  /\ answers = [c \in Clients |-> <<>>]

-----------------------------------------------------------------------------
(* Clients *)

Connect(c) ==
  /\ up /\ conn[c] = "none"
  /\ conn' = [conn EXCEPT ![c] = "queued"]
  /\ UNCHANGED <<up, armed, faults, clientVars, at, line, loaded, book, answers>>

Request(c, k) ==
  /\ conn[c] \in {"queued", "open"} /\ ~hangup[c] /\ Len(sent[c]) < MaxRequests
  /\ k \in Orders => c \in Traders
  /\ sent' = [sent EXCEPT ![c] = Append(@, k)]
  /\ inbox' = [inbox EXCEPT ![c] = Append(@, k)]
  /\ UNCHANGED <<up, armed, faults, conn, hangup, at, line, loaded, book, answers>>

HangUp(c) ==
  /\ conn[c] \in {"queued", "open"} /\ ~hangup[c]
  /\ hangup' = [hangup EXCEPT ![c] = TRUE]
  /\ UNCHANGED <<up, armed, faults, conn, inbox, sent, at, line, loaded, book, answers>>

-----------------------------------------------------------------------------
(* acceptConnection *)

\* The accept's handler starts a detached thread, and accepts again.
Accept(c) ==
  /\ up /\ armed /\ conn[c] = "queued"
  /\ conn' = [conn EXCEPT ![c] = "open"]
  /\ at' = [at EXCEPT ![c] = "read"]
  /\ UNCHANGED <<up, armed, faults, clientVars, line, loaded, book, answers>>

\* Mutant of AcceptFails: the handler accepts again only after a success.
AcceptFailsForGood ==
  /\ up /\ armed /\ faults < MaxFaults
  /\ faults' = faults + 1
  /\ armed' = FALSE
  /\ UNCHANGED <<up, conn, clientVars, at, line, loaded, book, answers>>

AcceptFails ==
  /\ up /\ armed /\ faults < MaxFaults
  /\ faults' = faults + 1
  /\ UNCHANGED <<up, armed, conn, clientVars, at, line, loaded, book, answers>>

\* The process ends, and with it every connection and its thread.
ProcessEnds ==
  /\ up' = FALSE
  /\ conn' = [d \in Clients |-> "closed"]
  /\ at' = [d \in Clients |-> "none"]
  /\ UNCHANGED <<armed, faults, clientVars, line, loaded, book, answers>>

\* std::thread throws out of the handler and of io_context.run: main returns.
ThreadFails(c) == up /\ armed /\ conn[c] = "queued" /\ ProcessEnds

-----------------------------------------------------------------------------
(* handleClient *)

Goto(c, label) == at' = [at EXCEPT ![c] = label]

\* An exception: the thread ends, and its socket is closed.
Ends(c) == Goto(c, "none") /\ conn' = [conn EXCEPT ![c] = "closed"]

\* read_until and getline; an empty line is skipped, what does not parse throws.
ReadLine(c) ==
  /\ at[c] = "read" /\ inbox[c] # <<>>
  /\ line' = [line EXCEPT ![c] = Head(inbox[c])]
  /\ inbox' = [inbox EXCEPT ![c] = Tail(@)]
  /\ CASE Head(inbox[c]) = "blank"   -> UNCHANGED <<at, conn>>
       [] Head(inbox[c]) = "garbage" -> Ends(c)
       [] OTHER                      -> Goto(c, "process") /\ UNCHANGED conn
  /\ UNCHANGED <<up, armed, faults, hangup, sent, loaded, book, answers>>

ReadEnd(c) ==
  /\ at[c] = "read" /\ inbox[c] = <<>> /\ hangup[c]
  /\ Ends(c)
  /\ UNCHANGED <<up, armed, faults, clientVars, line, loaded, book, answers>>

\* Mutant of Process: the order is added before all its fields are read.
ProcessAddsFirst(c) ==
  /\ at[c] = "process"
  /\ IF line[c] \in Orders
     THEN Goto(c, "place") /\ loaded' = [loaded EXCEPT ![c] = book]
     ELSE Goto(c, "write") /\ UNCHANGED loaded
  /\ UNCHANGED <<up, armed, faults, conn, clientVars, line, book, answers>>

\* processRequest: an order whose fields do not convert is answered with the
\* error and never added; for another, AddOrder begins.
Process(c) ==
  /\ at[c] = "process"
  /\ IF line[c] \in Valid
     THEN Goto(c, "place") /\ loaded' = [loaded EXCEPT ![c] = book]
     ELSE Goto(c, "write") /\ UNCHANGED loaded
  /\ UNCHANGED <<up, armed, faults, conn, clientVars, line, book, answers>>

\* A key that is not there, asked of a const object: the JSON library's assertion
\* aborts.  Where assertions are off what follows is undefined, and taken to be
\* this or an answer (Process).
KeyMissing(c) == at[c] = "process" /\ line[c] = "keyless" /\ ProcessEnds

\* AddOrder, which takes the order or returns false, and MatchOrders are done.
Place(c) ==
  /\ at[c] = "place"
  /\ book' = IF line[c] = "empty_order" THEN loaded[c] ELSE Append(loaded[c], c)
  /\ loaded' = [loaded EXCEPT ![c] = <<>>]
  /\ Goto(c, "write")
  /\ UNCHANGED <<up, armed, faults, conn, clientVars, line, answers>>

\* Mutant of Write: a request whose response is an error is not answered.
WriteUnlessError(c) ==
  /\ at[c] = "write"
  /\ answers' = [answers EXCEPT ![c] = IF line[c] = "bad_order" THEN @ ELSE Append(@, line[c])]
  /\ Goto(c, "read")
  /\ UNCHANGED <<up, armed, faults, conn, clientVars, line, loaded, book>>

Write(c) ==
  /\ at[c] = "write"
  /\ answers' = [answers EXCEPT ![c] = Append(@, line[c])]
  /\ Goto(c, "read")
  /\ UNCHANGED <<up, armed, faults, conn, clientVars, line, loaded, book>>

\* The client is gone; what was placed stays placed.
WriteFails(c) ==
  /\ at[c] = "write" /\ hangup[c]
  /\ Ends(c)
  /\ UNCHANGED <<up, armed, faults, clientVars, line, loaded, book, answers>>

HandleClient(c) ==
  ReadLine(c) \/ ReadEnd(c) \/ Process(c) \/ Place(c) \/ Write(c) \/ WriteFails(c)

Next ==
  \/ AcceptFails
  \/ \E c \in Clients :
       \/ Connect(c) \/ HangUp(c) \/ \E k \in Kinds : Request(c, k)
       \/ Accept(c) \/ ThreadFails(c) \/ KeyMissing(c) \/ HandleClient(c)

\* io_context.run runs its handlers, and every thread is scheduled.
Spec ==
  /\ Init /\ [][Next]_vars
  /\ \A c \in Clients : WF_vars(Accept(c)) /\ WF_vars(HandleClient(c))

-----------------------------------------------------------------------------
(* Properties *)

Times(x, list) == Cardinality({i \in DOMAIN list : list[i] = x})

\* What c has in the book beyond its orders of some quantity that were confirmed.
Unconfirmed(c) == Times(c, book) - Times("order", answers[c])

\* What handleClient answers of the first n lines: up to the first that does not
\* parse, all that are not empty.
AnswersTo(lines, n) ==
  LET said[i \in 0 .. n] ==
        IF i = 0 THEN <<>>
        ELSE IF lines[i] \in Answered /\ \A j \in 1 .. i - 1 : lines[j] # "garbage"
             THEN Append(said[i - 1], lines[i]) ELSE said[i - 1]
  IN  said[n]

Expected(c) == AnswersTo(sent[c], Len(sent[c]))

\* While one client trades: of its orders answered by "Order placed successfully.",
\* those of some quantity are in the book, each once; nothing else is in it but the
\* last one, whose answer may be under way or may have failed: no order answered
\* with an error, and none that AddOrder refused, though that one is confirmed in
\* the same words (server.cpp:60-74, OrderBook.hpp:84-86).  The threads of two
\* traders lose each other's orders.
ValidOrdersArePlaced ==
  \A c \in Clients :
    /\ Unconfirmed(c) \in {0, 1}
    /\ at[c] # "none" => (Unconfirmed(c) = 1 <=> at[c] = "write" /\ line[c] = "order")

\* A client's answers are those to its requests, in order: one line for each
\* but the empty ones, however many came at once (server.cpp:24-37).
AnswersMatchRequests == \A c \in Clients : IsPrefix(answers[c], Expected(c))

\* Every client that stays gets all its answers, whatever the others do and after
\* accepts that failed (server.cpp:11-17,24-37), while the process lives: a thread
\* that cannot be created and a request without a key end it for all.
RequestsAreAnswered ==
  \A c \in Clients, n \in 1 .. MaxRequests :
    Len(Expected(c)) >= n ~> Len(answers[c]) >= n \/ hangup[c] \/ ~up
=============================================================================
