# trading-matcher in TLA+

Specifications, model-checking runs and machine-checked proofs for the order
matching engine of this repository and what surrounds it. Paths below are
relative to the repository root; `OrderBook.hpp:94` is a line of
`include/order_matching/OrderBook.hpp`, and so on.

## 1. Inventory

| component | source | state | operations | hard part |
|---|---|---|---|---|
| Order | `Order.hpp` | id, side, price (int64), quantity (uint32), time stamp | constructors, comparison | who owns the memory: the book keeps raw pointers |
| OrderBook | `OrderBook.hpp` | two price ladders (price -> FIFO level with a total), `order_map_` (id -> pointer), two cached best prices | `addOrder`, `cancelOrder`, `modifyOrder`, getters, `hasMatch` | four structures that must agree after every call |
| Matcher | `Matcher.hpp` | `last_trade_` | `matchOrders`, `executeTrade` | a loop whose end and fairness depend on the book's caches and on time stamps |
| OrderMemoryPool | `MemoryPool.hpp` | array of orders, `next_free_`; `thread_local` | `allocate`, `deallocate`, `reset` | lifetime of the orders it gives out, which the book may hold |
| SPSCQueue | `SPSCQueue.hpp` | ring, `write_pos_`, `read_pos_` | `push`, `pop`, `empty`, `full`, `size` | two threads, acquire/release atomics |
| AsyncLogger | `AsyncLogger.hpp` | `running_`, `min_level_`, ring of messages, worker thread, `log_file_` with its buffer | `start`, `stop`, `setLevel`, `log`, `flush`, worker loop | who pushes and who pops, stop against late messages, when a line leaves the file's buffer |
| demonstration | `src/main.cpp` | `producer_done`, a queue of `Order*`, two threads | `demonstrateSPSCQueue`, `main` | when the consumer may leave; orders that outlive their thread |
| LinuxOptimizations | `LinuxOptimizations.hpp` | the calling thread's CPUs, scheduling class, locked memory | `initializeHftOptimizations` and its parts | threads started later inherit one CPU and SCHED_FIFO; the steps pin more than once |
| EpollServer | `EpollServer.hpp` | epoll and listening descriptors | `start`, `run`, `processEvents`, `handleNewConnection`, `handleClientData`, destructor | edge-triggered readiness; starts that fail half-way |
| UDPServer, UDPMulticastReceiver | `UDPServer.hpp` | one socket | `start`, `receiveMessages`, `run`, `sendTo`, destructors | bounded batches over a non-blocking socket, errors that persist |
| Server | `server.cpp` | one book and matcher for all clients | `acceptConnection`, `handleClient`, `processRequest` | detached threads without a lock |
| Timestamp | `Timestamp.hpp` | `calibrated`, two factors | `rdtsc`, `calibrate`, `cyclesToNs`, timers | a calibration that anyone may run, at any time |
| Benchmark | `Benchmark.hpp` | `start_ns_`, list of latencies | `start`, `stop`, `reset`, `calculateStats` | calls that are not paired; index arithmetic of percentiles |
| Client, MarketDataHandler | `client.cpp`, `MarketDataHandler.cpp` | none | HTTP and JSON | pure I/O |

Interaction. One thread owns the book and the matcher: it takes orders from its
pool, calls the book, then `matchOrders`, which reads the book through its
getters, changes orders in place and cancels the filled ones. A producer thread
passes `Order*` through an SPSCQueue to a matching thread; both inherit what
`initializeHftOptimizations` left of CPUs and scheduling. Every thread logs
through one AsyncLogger, whose ring is the same SPSCQueue; a worker drains it,
and so does whoever calls `flush()` or `stop()`. Time stamps come from the
clocks of Timestamp, on which Benchmark measures. EpollServer and UDPServer hand
bytes to a callback and are not connected to the book by `main.cpp`; `server.cpp`
shares one book among the threads of its connections.

What makes each part correct. Book: index, ladders, caches and totals agree;
price-time priority. Matcher: it returns, leaves the book uncrossed, leaves no
filled order, and trades the right pair at the right price. Pool: what rests in
the book is never given out again or given back. Queue: a bounded FIFO without
data races that passes on everything. Logger: what is accepted is written once,
in order; what is written to the file has left its buffer once the logger idles and
when `stop()` returns.
Demonstration: what was pushed is processed, both threads end, also on one CPU,
an order is alive when read. Servers: no wake-up, byte, datagram or request is
lost, closed connections are closed, a valid order is confirmed exactly when it was
placed. Clocks: readings keep the order of what they read. Benchmark: a
measurement counts its own time, a percentile is a quantile. `PROJECT.json`
lists the hazards line by line.

## 2. Modules

| module | models | kind |
|---|---|---|
| `LimitOrderBook` | a set of live orders with arrival ranks, traded best price first, then earliest rank | abstract |
| `OrderBook` | Order, PriceLevel, OrderBook | component |
| `Matcher` | Matcher over OrderBook; implements `LimitOrderBook` | composition |
| `PooledMatcher` | Matcher over orders of an OrderMemoryPool | composition |
| `BoundedQueue` | a bounded FIFO queue | abstract |
| `SPSCQueue` | the ring between its threads; implements `BoundedQueue` | component |
| `AsyncLogger` | the logger, its worker and its owner, over SPSCQueue | composition |
| `OrderPipeline` | `demonstrateSPSCQueue` over SPSCQueue, with the producer's pool | composition |
| `LinuxOptimizations` | `initializeHftOptimizations`, call by call | component |
| `HftPipeline` | OrderPipeline on the CPUs and the scheduling LinuxOptimizations leaves | composition |
| `EpollServer` | the server, from start to destructor, over the kernel's edge-triggered readiness | component |
| `UDPServer` | the server and its batches over a bounded receive buffer | component |
| `UDPMulticastReceiver` | the receiver, next to the server | component |
| `Server` | the JSON server: acceptor, detached threads, one book | component |
| `Timestamp` | cycle counter, calibration, readings of several threads | component |
| `Benchmark` | Benchmark and `calculateStats` over the clocks of Timestamp | composition |
| `MC*` | values and bounds for TLC, where they need definitions; the other configurations are of the component's module | runs |
| `Matcher_proofs` | theorems about OrderBook (types, caches, index, priority, totals), from their lemmas about Matcher, its refinement of LimitOrderBook included, and about PooledMatcher | proofs |
| `SPSCQueue_proofs` | theorems about SPSCQueue, the refinement of BoundedQueue included | proofs |
| `AsyncLogger_proofs` | theorems about the logger, from the queue's invariant | proofs |
| `HftPipeline_proofs` | theorems about OrderPipeline and HftPipeline, from the queue's invariant, and about LinuxOptimizations | proofs |
| `EpollServer_proofs` | theorems about EpollServer | proofs |
| `UDPMulticastReceiver_proofs` | theorems about UDPServer and UDPMulticastReceiver | proofs |
| `Server_proofs` | theorems about Server | proofs |
| `Timestamp_proofs` | theorems about Timestamp and Benchmark | proofs |

### OrderBook and Matcher

`ord` is the memory behind each pointer and `book` the object's fields. The
methods of the book are operators from a book to the next one, because the
matcher calls several of them in one step; `AddOrder`, `Cancel` and
`ModifyOrder` are the calls an owner makes, each with everything the method
does: `cancelOrder` inside `modifyOrder` and the refresh of the cache are part
of the step. A ladder is a function from prices to levels plus the set of keys
that `std::map` holds. `Quantity` wraps at `QMod`. `clock` is CLOCK_REALTIME;
two reads differ by a member of `ClockSteps`, a negative or zero one included if
a configuration says so. `entry` is a history variable: the call at which an
order last entered, which is what "first" means in the properties.

Two preconditions are the callers' and are parameters or guards here: memory
that rests in the book is not added again (main allocates an order for each
add), and an id that rests in the book is not added again unless `ReuseIds`.
An order that its caller stamps just before adding it, as main does, reaches the
same states as one that `addOrder` stamps; `CallerStamps` lets callers add orders
they stamped at any earlier time, which the runs leave out (time stamps then
contradict the FIFO order of a level, and the proofs hold all the same).

`matchOrders` runs to its end in its caller's thread: while `phase` is
"matching" no other call is made, and each turn of the loop is a step. In
`ExecuteTrade` the intermediate book is bound by `\E b \in {...}`, the same as a
LET that TLC evaluates once. The trade's own time stamp, the number of trades
returned and the log line are left out; no state depends on them.

`LimitOrderBook` has no index, caches, totals or pointers. The refinement maps
each resting pointer to a record and `matching` to `phase`; a cancel of an
order is `Leave`, an amend to quantity 0 is `Amend` with nothing left, although
`modifyOrder` returns false there.

### PooledMatcher

`next_free` indexes the pool; when it is exhausted an order comes from the heap.
`held` is a history variable: what was given out and not given back. Pointers
of the pool and of the heap are the same `Ptrs` as the book's, so that zeroing
one that rests shows in the book. A caller who keeps the rules (`KeepsRules`)
gives an order back when its quantity is 0, which it sees without asking the
book, and resets the pool when the book holds nothing of it. `free_list_` is
filled by the constructor and never read, and is left out.

### SPSCQueue, AsyncLogger, OrderPipeline

Each access to shared memory is a step. An atomic load may return an old value:
`view[t]` is what the loads of thread `t` return for the two indices, and
`Observe` brings one index up to date at any time. This has more behaviours than
acquire/release atomics, never fewer: a thread has its own stores at once, and
values of one index are never seen going back. That a slot is stored before its
index is published is the order of the steps, which `release` and `acquire`
justify; `NoDataRace` is what makes the plain accesses to the slots legal.
`sent` and `received` are history variables.

The logger adds the owner (start, stop, setLevel, flush) and the worker. Popping
is shared by `flush` and the worker's loop; `stage` says in which loop a consumer
is. A message that the full ring refuses is dropped and its number is used by the
next call, so that the numbers in the ring stay consecutive and `lines` can be
compared with `sent`. `lines` is what was written, to the file or to `std::cout`;
`file_held` and `cout_held` are how many of those lines are still in the buffer of
either stream. A write lets any part of its stream's buffer go. Where there is a
log file, the worker flushes it when the ring is empty and `due` says that the
interval since `last_flush` is over, and `stop()` closes it, which flushes too.
`std::cout` is never flushed by the logger (`AsyncLogger.hpp:116,201,214` test
`log_file_`): nothing is said of when lines for it leave the process. `flush()`
itself flushes neither stream. A path that does not open leaves a stream that
swallows lines. `Logged` are the levels that `log` is called with and `Levels` what
`setLevel` is called with, so that the minimum level does filter.

In the pipeline, item `n` is the pointer to the `n`-th order of the producer's
pool. A refused push is not repeated. The consumer's load of `producer_done`
carries with it what the producer stored before: `ObserveDone` brings the view
up to date. When the producer thread ends, so does its pool.

### LinuxOptimizations, HftPipeline

Each system call may fail. `allowed` is the cpuset of the process; pinning to a
CPU outside of it fails and changes nothing. Without libnuma `getNumaNode` opens
a directory as a file and its result is indeterminate; whatever it is, the NUMA
step pins the thread to one CPU or to none. `HftPipeline` starts the
demonstration's threads afterwards. On one CPU under SCHED_FIFO the head of the
run queue runs until it sleeps or ends (`NotPreempted`); otherwise any runnable
thread may take a step. A sleep ends at any time.

### EpollServer

The kernel's part is external: `ready` is the ready list, a descriptor enters it
when something arrives, or when it is added with something to read, and
`epoll_wait` takes the first `MaxEvents` of it and reports those that still have
something. Data is counted in bytes; a close and a reset differ, the second loses
what is unread. `start` goes call by call, each may fail, and a second start
overwrites the descriptors of the first without closing them: `fds` are what is
open, `epoll_fd` and `listen_fd` what the object knows. Clients and descriptors
left behind share `MaxFds`. The destructor closes what the object knows; the
connections stay open. A client sends a stream of any length, of which one read
takes `ReadSize`. One that is not `Bursty` waits while a full read of it is unread;
what a bursty one sends beyond that stays behind without an event, and the
properties say so: they are about the bytes of the others. `OutOfFds` is the accept
loop without a descriptor, which never ends (`EpollServer.hpp:137-143`). That `start`
is not called again while the server serves is the caller's discipline; the code
has no check (`EpollServer.hpp:36-38`) and would overwrite both descriptors.

### UDPServer, UDPMulticastReceiver

`buffer` is the kernel's receive buffer of every bound socket and drops what does
not fit. The kernel delivers without end: only marked datagrams are told apart,
so that a flood of others is a finite model. A batch counts its turns in `i`, as
the code does, whether a turn received something or failed. An error on a socket
that exists is bounded (`MaxErrors`); without a socket every turn fails. A
receive that finds nothing leads to `run`'s poll, bounded in time, and to the
next batch. The receiver differs in `start`, whose last step may fail after
`bind`, and in what the kernel delivers: a datagram for the group goes to every
bound socket. As with EpollServer, that `start` is not called again after a success
is the caller's discipline (`UDPServer.hpp:34-36` has no check).

### Server

The text of `server.cpp` is modelled as it stands; it names classes and methods
the headers do not have (`Order<double>`, `AddOrder`, `MatchOrders`), so that it
does not compile today. The book is therefore only what was added to it: a
sequence with the client of each order. `AddOrder` with `MatchOrders` is a load
(`Process`) and a store (`Place`), one of the outcomes of two threads' race. A
line is of one of seven kinds. `bad_order` is JSON whose fields do not convert: an
error is answered. An `empty_order` has quantity 0: `addOrder` returns false
(`OrderBook.hpp:84-86`), `server.cpp:71` ignores that and line 74 answers "Order placed
successfully." as to any other; that message is then wrong, and what the property
says is that the book is right all the same. A `keyless` line lacks a key that
`operator[]` asks of a const object: an assertion of the JSON library ends the process
(`KeyMissing`), or, where assertions are off, behaviour is undefined, taken to be
that or an answer. A thread that cannot be started throws out of `io_context.run`,
and the process ends too.

### Timestamp, Benchmark

`tsc` goes on one cycle at a time and CLOCK_MONOTONIC every `CyclesPerNs` cycles.
The factor is an exact fraction; that a double has 53 bits is left out. The two
clocks of a pair in `calibrate` are read at one instant. The busy wait
of 1000 iterations may take any time, also one in which a clock has not moved, for which the code has
its default factor. `since` is the start of a reader's timer, so that a reading
is of the counter itself or of a difference. `Benchmark` is used by one thread,
on the monotonic clock; its statistics are operators, in integers (twice the
median, the sum in the place of the mean), and are compared with what a quantile
is by definition.

## 3. Runs

CHECK_DEADLOCK is FALSE where the system may stop: a book with `MaxCalls` used
up and idle, a logger nobody uses any more, a server whose clients are silent or
whose object is gone, a counter at its bound. The queue and the pipeline do check
deadlock.

| run | configuration | bounds | shows |
|---|---|---|---|
| order_book | `MCOrderBook.cfg` | three orders, two prices, sizes 0, 1 and 3 with `QMod` 4 (a level's total wraps), three adds or amends and any number of cancels | types, index, caches, priority, totals |
| matcher | `MCMatcher.cfg` | sizes 0, 1 and 2 | partial and full fills on either side, amends to nothing; the refinement of `LimitOrderBook`, no filled order rests, `hasMatch` is exact, the book is uncrossed when matching ends (about 390,000 states, a minute or more) |
| trading | `MCPooledMatcher.cfg` | a pool of two and one order from the heap, one price, two ids, three calls (about 510,000 states) | what rests is held, through deallocations and resets of the pool; nothing in use is overwritten; the matching loop returns |
| matcher_totals | `MCMatcherTotals.cfg` | | counterexample, see findings |
| spsc_queue | `MCSPSCQueue.cfg` | four slots, nine items: more than two turns of the ring | FIFO refinement, no race, all delivered |
| logger | `MCAsyncLogger.cfg` | two slots, three messages, two starts, stdout or a file, messages of one level and a minimum below or above it (about 130,000 states) | a full ring, a restart, the last messages at stop, lines kept back by the file's buffer |
| pipeline | `MCHftPipeline.cfg` | four slots, five orders of which one is from the heap; two CPUs, each a node (about 150,000 states) | full queue, dropped orders, the consumer's exit; every outcome of the optimizations, also one CPU without preemption |
| pipeline_pool | `MCOrderPipelinePool.cfg` | | counterexample |
| epoll | `MCEpollServer.cfg` | two clients, three bytes each, of which one read takes two, one client bursty; two events per wait, two starts, six descriptors, which two starts and two clients can use up (about 70,000 states) | no wake-up and no byte of the client that waits is lost over several reads, whatever the bursty one does; ended peers are closed; both unless descriptors run out |
| udp | `MCUDP.cfg` | batches of two, buffers of three, two starts, two errors, three marked datagrams, one kind of them empty (about 70,000 states) | datagrams are handled once, in order and in the end; batches return |
| server | `MCServer.cfg` | two clients, one of them trades, two lines each, one failed accept (about 500,000 states, a minute or more) | answers complete and in order, valid orders that were confirmed are placed, refused ones are not |
| benchmark | `MCBenchmark.cfg` | two readers, five cycles, two readings, two measurements; every list of up to five values and long ones up to 50 for the statistics (about 2,600,000 states, a minute) | readings keep their order, measurements do not overlap, percentiles are quantiles |

Bounds. Three orders are the fewest with which a level has a middle, an order
can be amended behind another, and one aggressor can trade with two orders. Two
prices give a level above or below the best; with one, the pool's run crosses at
every opportunity. Nine items in four slots turn the ring over twice, with both
ends wrapping while the other is anywhere. In the logger two slots mean one
message in the ring, so that full and empty both occur at every message. In the
pipeline three orders fill the queue. Three bytes are more than one read takes, and
arrive in parts or at once. A batch of two turns can be full, cut short, or fail in
part. Lists of 50 values are long enough for p95 to differ from the maximum; p99
is the maximum for every list of up to 100, p99.9 for every one of up to 1000, and
`StatisticsAreRight` is about lists of any length. Pointers are
symmetric in the book and the matcher, and so are the readers of the clock: nothing
orders them.

Fairness. Every specification asks only that code which has something to do goes
on doing it. `FairMatcherSpec`, `FairPoolSpec`: the thread in `matchOrders` goes
on running, it waits for nothing. `FairSpec`, `FairLoggerSpec`,
`FairPipelineSpec`, `FairHpSpec`: each thread that has a step takes one in the
end, the scheduler's policy permitting, a sleep ends, and a store becomes visible
in finite time, as the C++ standard asks of implementations; the logger's clock
goes on while its worker polls; nobody is made to log, start, stop or flush.
`EpollServer!Spec`, `UDPMulticastReceiver!Spec`: the thread in the loop runs; the
kernel and the clients do as they like. `Server!Spec`: `io_context.run` runs its
handlers and each connection's thread is scheduled, by itself: fairness is per
client, so that no client can starve another. Benchmark has no liveness.

### Findings

Each has a run whose one property is what a comment promises, and which TLC
refutes.

* matcher_totals: a trade reduces orders behind their level's total
  (`Matcher.hpp:85`).
* pipeline_pool: the consumer may read an order after the producer's
  thread_local pool is gone (`main.cpp:149`).

### Assumptions of the passing runs

A passing run is about the program used in a certain way. Where another use
breaks the property, a further configuration has the counterexample; they are
not needed to check the project and are run by hand with
`tlc -config <cfg> <module>`.

The module of a configuration is the one that its name begins with, less the MC
where there is no such module; that of `MCUDP.cfg` is `UDPMulticastReceiver`.

| configuration | the passing run assumes | without it |
|---|---|---|
| `MCMatcherSameId.cfg` | an id that rests is not added again | a filled order stays at the front and `matchOrders` spins on it |
| `MCMatcherWallClock.cfg` | the clock advances at every call | a clock that ties or steps back lets the wrong order set the price |
| `MCMatcherZeroPrice.cfg` | prices are positive | `hasMatch` misses an ask at price 0 |
| `MCPooledMatcherEarly.cfg` | callers give back what has no quantity left | memory that rests in the book is zeroed |
| `MCAsyncLoggerFlush.cfg` | no `flush()` while the worker runs (`main.cpp:112` does it) | two threads pop |
| `MCAsyncLoggerProducers.cfg` | one thread logs (the demonstration has two) | two threads push |
| `MCAsyncLoggerRace.cfg` | no `log()` during `stop()` | a message is left in the ring |
| `MCAsyncLoggerBadPath.cfg` | the log file opens | a failed `start` makes the next one swallow all lines |
| `MCHftPipelineLocked.cfg` | nothing | main says "Memory locked" when `mlockall` failed |
| `MCEpollServerBurst.cfg` | the property is about clients that wait while a full read of theirs is unread | the rest is not read before more arrives |
| `MCEpollServerClose.cfg` | clients close after their data were handled | data and close in one edge leak the descriptor |
| `MCEpollServerAdd.cfg` | EPOLL_CTL_ADD succeeds | a connection nobody looks at |
| `MCEpollServerFds.cfg` | the properties make an exception of it | out of descriptors, the accept loop spins |
| `MCServerTraders.cfg` | one client trades: the server's threads do not race on the book | two threads lose each other's orders |
| `MCBenchmarkLazy.cfg` | main calibrates before anybody takes the time | the factor changes between two readings |
| `MCBenchmarkUnpaired.cfg` | `stop` follows a `start` of its own | a measurement counts from the start before, or from zero |

## 4. Proofs

`tlapm` checks every theorem to the last leaf. Each holds for every value of the
constants that satisfies the named assumption of the module that declares them
(`OrderBookAssumption`, `PooledMatcherAssumption`, `SPSCQueueAssumption`,
`AsyncLoggerAssumption`, `OrderPipelineAssumption`, `LinuxOptimizationsAssumption`,
`EpollServerAssumption`, `UDPServerAssumption`, `ServerAssumption`,
`TimestampAssumption`, `BenchmarkAssumption`) and what the theorem itself states. For the book that is
any set of pointers, ids, prices, sizes, clock steps and any `QMod`. What a
theorem states beyond that is a way to use the program, the same that the passing
runs assume; the table above names what happens otherwise.

The book:

* `BookTypeCorrect` : `BookSpec => []TypeOK`. The one hard point is the cached
  price: a non-empty set of keys must have a top, which needs the keys to be
  finite. `TypeInv` adds that they are (`LaddersFinite`): each call adds at most
  one key.
* `BookBestPricesCurrent` : `BookSpec => []BestPricesAreCurrent`, whether or not
  ids are reused. The invariant adds that a level is empty exactly when its key
  is missing; `Erase` and `Insert` each restore it for the level they touch, and
  `UpdateBest` recomputes the cache of that side.
* `BookIndexMatchesLadders` : under `ReuseIds = FALSE`,
  `BookSpec => []IndexMatchesLadders`. Lemmas show what `Insert` and
  `CancelOrder` do to index and ladders; the heart is that the first order of a
  level with a given id is the indexed one (`FirstWithId`), so that the order
  the scan of `removeOrder` removes is the one the index forgets. Without the
  assumption the property is false: `MCMatcherSameId.cfg` shows what follows.
* `BookPriority` : `BookSpec => []PriceTimePriority`, if the book stamps the
  orders (`CallerStamps = FALSE`) and its clock never steps back (`ClockSteps
  \subseteq Nat`, ties allowed). The invariant adds that each level is in the
  order of its stamps, none of them ahead of the clock (`Fifo`); an amended
  order keeps this because it has left its level, by the index, before it is
  stamped anew. A clock that ties does no harm here, although it does to the
  trade's price (`MCMatcherWallClock.cfg`).
* `BookTotalsAreExact` : under `ReuseIds = FALSE`,
  `BookSpec => []LevelTotalsAreExact`. `SumOfQuantities` is a recursive function;
  lemmas say what an order appended or removed does to it. `Quantity` wraps, and
  `WrapsAlike` says that sums and differences of remainders stay the remainder of
  the sum. The index is needed for `modifyOrder`, which writes a quantity: the
  order must have left its level before. The theorem is about the book's own
  calls; with trades the property is false (finding matcher_totals).

The matcher and the pool:

* `MatcherTypeCorrect` : `MatcherSpec => []MatcherTypeOK`. A trade needs two
  orders of the book: that `BestOrder` is one follows from the ladders'
  invariant, which is therefore part of `MatcherTypeInv`. `MatchStepEffect` says
  once what a turn of the loop changes: quantities of two orders, and what
  `RemoveIfFilled` takes out.
* `MatcherKeepsBook` and `MatcherRemovesFilledOrders`, under `ReuseIds = FALSE`:
  index, ladders and caches agree between any two trades or calls, and nothing
  without quantity rests. The invariant `MatcherInv` adds to the book's
  that what rests has shares left and a price some caller gave (`Sound`). The
  index does not look at quantities (`IndexFrame`), and `RemoveIfFilledIndex`
  shows that the removal by id takes out the order that was filled, the only
  step where a reused id would do harm (`MCMatcherSameId.cfg`).
* `MatcherSeesEveryCross` and `MatcherUncrosses`, for positive prices as well:
  the loop's condition, which reads the caches, is exactly that the two sides
  cross, so that the loop's end leaves them uncrossed. Price 0 is excluded
  because `hasMatch` takes it for an empty side (`MCMatcherZeroPrice.cfg`).
* `MatcherIsALimitOrderBook` : `MatcherSpec => ImplementsLimitOrderBook`, for
  positive prices, no live id reused and a clock of the book's that advances at
  every call. Initial states map to initial states, an add, a cancel, an amend and
  a turn of the loop each to their step of `LimitOrderBook`, the loop's beginning
  and end to a stutter. `RefinementInv` adds to `MatcherInv` the order within
  levels (`Fifo`) and that stamps and calls rank the resting orders alike
  (`Ranked`): the head of the best level, which the code takes, is then the
  order that the abstract book calls first, and the earlier stamp, by which
  `executeTrade` picks the price, is that of the order that came first.
* `MatcherFirstOrderSetsPrice` : the price alone, an action property, from the
  same invariant, for any prices.
* `PoolNeverDangles` and `PoolLeavesOrdersAlone`, for callers who keep the rules
  (`KeepsRules = TRUE`, `ReuseIds = FALSE`), over a pool of any size: what rests
  is held, and nothing held or resting is zeroed by an allocation. The step that
  matters is `Deallocate`, whose caller looks at the quantity alone: `Sound`, from
  the matcher's invariant, says that what rests has some. `Fresh` adds that
  what the pool gives out next is held by nobody.

The queue, for any ring size that is a power of two, any number of items, and one
thread on each side:

* `QueueTypeCorrect`, `QueueHasNoRace`, `QueueDeliversInOrder`, and
  `QueueIsABoundedQueue`, the safety part of `ImplementsBoundedQueue`: initial
  states map to initial states, every step to a step of `BoundedQueue` or to a
  stutter. The invariant (`QueueInv`) places everything by counting: the indices
  are the remainders of what was sent and received (`Indexed`), the slots between
  them hold the items sent and not received (`Contents`), and what a thread
  sees, however old, shows it no more room (`SeesRoom`) and no more items
  (`SeesItem`) than there are. The arithmetic of remainders is in the lemmas
  before it (`SlotsDiffer`: items less than a turn apart are in different slots).
  The lemmas name the thread that pushes and the one that pops, so that those
  who use the queue can cite them.

What is built on the queue:

* `LoggerTypeCorrect`, `LoggerWritesInOrder` and `StopWritesEverything`, for an
  owner who is `Disciplined`: one thread logs and does not itself take lines out,
  nobody calls `flush()` while the worker runs or logs while `stop()` runs, and
  the log file opens. The reader of the ring changes: it is the worker while
  that runs and the owner before and after, and `LoggerInv` says `QueueInv` of
  whoever it is (`Reader`). The hand-overs rest on both being out of the ring
  (`InTheLoop`) and on `join`, by which the owner sees what the worker did.
  `Written` ties the lines to what was popped; `Drained` says what the owner knows
  on its way through `stop()`. Lines for `std::cout` are written when `stop()` returns;
  whether they have left its buffer is not claimed.
* `HftPipelineIsAPipeline` : `FairHpSpec => PipelineSpec`, CPUs and scheduling only
  choose among the steps of `OrderPipeline`. `HftPipelineProcessesAll` :
  `[]PushedIsProcessed`, from `QueueInv`, from where the two lambdas are
  (`Staged`), and from what an acquire of `producer_done` makes visible
  (`SeesTheEnd`), without which a pop that fails would not mean that there is
  nothing more.
* `SuccessIsPinned` : `[]PinnedOnSuccess`, for any CPUs, nodes and failures: the
  NUMA step, which pins too, comes before the step whose success is required, and
  none after that touches the affinity (`Pinned`).

The servers:

* `WakeupsAreKept` : `[]NoWakeupIsLost` for any clients, descriptors, events per
  wait and order of events, provided that EPOLL_CTL_ADD succeeds. `EpollInv` says
  that while the server serves, what has something to be read is noted: in the
  kernel's ready list or among the events that `processEvents` has not come to
  (`Awake`), that everything open is watched, and that one read takes all that a
  client which is not bursty has unread (`Inboxes`), without which `HandleClientData`
  would leave bytes that nothing notes.
* `UDPTypeCorrect` and `DatagramsAreHandledInOrder`, without further assumptions
  and for both classes: on every socket what was queued is what was handled and,
  behind it, what waits in the buffer (`Delivered`). `MarkedOf` is a recursive
  function; lemmas say what a datagram at either end of a buffer does to it.
* `RequestsAreAnsweredInOrder` : `[]AnswersMatchRequests`, for any clients, lines,
  failed accepts and ended threads. `ThreadInv` says of each client that its inbox
  is the end of what it sent (`InboxIsTheRest`), that its thread has met no line
  that does not parse (`HasParsed`), and that its answers, with the line it works
  on, are the answers to the lines read (`HasAnswered`). `AnswersTo` is a recursive
  function of the lines; lemmas say that a line sent later changes none of the
  earlier answers (`AnswersAgree`) and that answers only grow (`AnswersGrow`).
* `NothingElseIsPlacedByRacingThreads`, for any number of traders, whose threads
  lose each other's orders: neither the book nor a copy that a thread is about to
  store (`Copies`) ever has more orders of a client than were confirmed to it and
  the one whose answer is under way or could not be sent (`FewPlaced`). Orders that
  `addOrder` refuses do not count as confirmed, and are in no book. The race loses
  orders and makes none.
* `OneTradersOrdersArePlaced` : `[]ValidOrdersArePlaced`, if one client trades
  (`OneTrader`), with orders that `addOrder` refuses among its requests. Then the
  copy that is being added to is the book, and the book has no fewer orders than are
  owed a confirmation (`NothingIsLost`).
  `MCServerTraders.cfg` is the counterexample with two.

The clocks and the benchmark, for any threads and processor:

* `ClockTypeCorrect`: no interval is negative and the factor is a positive
  fraction, whoever calibrates.
* `ReadingsCompareAsCycles`, where main calibrates first (`AtStartup = TRUE`):
  all readings were converted with one factor (`OneFactor`), and a quotient is
  monotonic in its dividend. `MCBenchmarkLazy.cfg` is what happens otherwise.
* `MeasurementsAreApart`, for a caller who stops what it has started
  (`PairsCalls = TRUE`): `[]LatenciesFitTheRun`. The invariant adds that what is
  recorded ends before the measurement under way begins (`Apart`).
* `StatisticsAreRight` : every statistic of every list of latencies is what its
  name says, and `RecordedStatisticsAreRight` : `[]StatsOfTheRunAreRight`, whether
  or not the caller pairs its calls. `Sorted` is `std::sort` as an insertion of one
  element after the other; the lemmas say that an insertion keeps the order
  (`InsertKeepsOrder`) and that what is sorted is an arrangement of the list
  (`IsSort`), so that the counts by which quantiles are defined are the same
  before and after (`SortCounts`). The index that `calculateStats` computes for a
  percentile is in the list for less than 1000 per mille (`NthIs`): its last branch
  is never taken. A latency is not negative because `start_ns_` is never ahead of
  the clock (`Recorded`).

The invariants that are new in these proofs were checked by TLC on the instances
of the runs before they were proved.

Only model-checked: liveness, the liveness part of `ImplementsBoundedQueue` among
it, because it is beyond this prover, as ENABLED is. So are the library's
induction theorems, which take an operator as a parameter, and recursive
operators: the sums, filters and the sorting that the proofs speak of are recursive
functions, and where a proof needs an induction it takes the least number at which
the claim fails (`LeastNumber`). Every invariant that a passing run checks is
proved.

## 5. Not modelled

* Client and MarketDataHandler: blocking calls of libcurl, parsing and printing;
  they keep no state and no order book reads what they fetch. SPSCQueueExample is
  a comment.
* `doubleToPrice` and `priceAsDouble` (floating point), `getSpread` and
  `getMidPrice` (read only, nobody decides by them), `cycles_per_ns_` and
  `nsToCycles` (no caller), the factor's rounding.
* Socket options, `sendTo`, which changes no state, memory policies and
  `allocateOnNumaNode`, pinning another thread (no caller), all formatting and
  printing.
* Instruction-level behaviour below the C++ memory model, and what undefined
  behaviour may do once it is reached: two threads' race on the book of
  `server.cpp` and on `calibrated` is modelled by lost and stale values only.
  Reading `last_trade_` before a trade is outside: no caller does.

## 6. Plan

The modules, runs and proofs planned are done. If the code changes so that orders
outlive the producer's pool (finding pipeline_pool), `OrderIsAlive` becomes a property
of the run pipeline, with `Contents` of the queue's invariant in its proof: an
order that is read was sent, and what was sent is not freed before it is processed.
