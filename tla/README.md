# A TLA+ model of the order service

The service is a C++ HTTP server: Crow worker threads run five order handlers
(`src/src/order_routes.cpp`) behind four middlewares (`src/src/main.cpp`,
`src/include/auth_middleware.h`), over one SQLite connection and one Redis
client that all threads share. This directory models the handlers with the
cache, the way of a request through Crow and the middlewares, the life of the
process from start-up to `sqlite3_close`, the deadlines of connections and the
latency metrics. TLC checks the models on small instances, and TLAPS proves
what matters most for any number of threads, orders, connections and requests.

## The parts of the system

| Part | State | Operations | Module |
|---|---|---|---|
| Order handlers | worker's position and locals | create, get, pay, list, delete | `OrderRoutes` |
| Orders table | rows, the connection's change count | INSERT, SELECT, UPDATE, DELETE | `OrderLedger` (what it promises), `OrderRoutes` |
| Redis cache | entries, expiry, client present or not | SET, GET, DEL, expiry | `OrderRoutes`, `CacheCoherence` |
| Middlewares | contexts, `in_flight_requests`, counters | before and after a handler | `RequestPipeline` |
| Crow connection | request, context, thread | read, route, upgrade, write, close | `RequestPipeline` |
| Crow task_timer | tasks, ids, deadlines of connections | schedule, cancel, tick | `Deadlines` |
| Crow server | io_contexts, threads, queue lengths | run, accept, stop | `ServerLifecycle` |
| main, signals and drain | flags, threads, database handle | signal, drain, stop, join, close | `OrderlyShutdown` (what it promises), `ServerLifecycle` |
| Readiness | `service_state` | `/readiness`, load by load | `ServerLifecycle` |
| Metrics | atomic counters, latency aggregates | add, compare-and-exchange, `/metrics` | `LatencyMetrics`; counters in the others |

They meet at shared state: handlers of different workers at the table, Redis
and the counters; connections at the gauge and at `shutting_down`; the watcher
thread and all workers at `shutting_down`; watcher and main at Crow's server
object; a crash at everything but the table and Redis.

What is hard about this code, and hard to test: a handler is a sequence of
separate SQLite and Redis calls with no transaction, so any other handler may
run between any two of them; `sqlite3_changes` is a property of the shared
connection; the cache is filled after the row is visible; the best-effort
Redis calls may fail or the process may die between the two stores;
middleware contexts outlive the request they belong to; the watcher stops a
server that main may still be building; and answers are put together from
several loads of flags that change. `PROJECT.json` lists these hazards at their
lines.

## Modules

`OrderLedger` is the abstract specification: an order is placed once under its
number, settled, and removed; a settled order never becomes pending again.

`OrderRoutes` models the handlers. A worker's `pc` names the next access to
shared state (`c_insert` is the INSERT of `create_order`, `p_del` the DEL of
`pay_order`, and so on), `frame` holds the locals. Each action is one such
access with what the code does up to the next one: `CreateInsert` and
`CreateConflict` are the step of the INSERT, `TryCacheOrder` the SET,
`TryGetCachedOrder` the GET, `InvalidateCachedOrder` the DEL, `RecordRedis`
what follows a Redis command, `SqliteFails` and `SqliteStepFails` the error
paths, `RefuseBody` the 400 answers. `Tick`, `Expire` and `Restart` are the
clock, Redis expiry and a crash with start-up. Constants switch faults,
repeated numbers and clients that name unannounced orders on and off.
An amount is a member of a set, an order number the pair of second and random
part that `generate_order_no` prints, a payload the row it was rendered from.
The variables marked history record what clients were told, and whether
`generate_order_no` has made a number a second time (`repeated`), and exist for
the properties. The clock never goes back: the code takes `time(nullptr)`, and
what is said about times (`TimesOrdered`) and about numbers that do not repeat
assumes that nobody sets the wall clock back while the service runs.

`CacheCoherence` extends it with the question of when reads through the cache
agree with the table, the environment that takes (`QuietEnvironment`) and the
inductive invariant `CacheInv`.

`RequestPipeline` models a connection and the middlewares. A connection is
idle or at one of the steps `check` (load `shutting_down`), `add` (add to the
gauge), `over` (take off again), `auth`, `handler`, `after` (subtract), `log`,
`write`. `HandleUrl` is a request without a route, for which Crow calls the
`after_handle` chain on the context of the previous request; `HandleUpgrade`
and `DropUpgrade` are requests to switch protocols. A connection belongs to
one worker thread (`home`), and a worker runs one request at a time (`ThreadFree`). The choice
of thread at accept is left open, which includes `pick_io_context_idx`. Two
history variables count what makes the gauge drift: `leaked` the upgrades that
were added and never subtracted, `twice` the second subtractions.

`OrderlyShutdown` is the abstract specification of the end of the process:
drain mode first, no order request admitted from then on, the server stopped
only then, the database closed last, when no handler uses it.
`ServerLifecycle` is the process: `main` goes through `register` (routes, and
Crow's server, whose constructor binds the port), `pool`, `spawn`, `init`,
`serve`, `futures` (the destructors of the futures of `std::async`), `join`
and `close`; the watcher through `poll`, `drain` (any drain time), `stop` (the
loop of `Server::stop`, one io_context at a time) and `ended`; the stop of the
acceptor's io_context and the watcher's end are one step, as the watcher
touches nothing shared in between. The vector of
io_contexts is not protected: while the watcher is in the loop, an
`emplace_back` of main may end the process or hide an element from the loop,
the outcomes a moved vector can have here. A worker is in an order handler or
at one of the loads of `/readiness`. `pick_io_context_idx` and the queue lengths
are in `DoAccept`; Crow lowers a queue length only for a failed accept, never
when a connection ends.

`Deadlines` is one worker thread with its io_context (a queue of handlers that
are ready), its connections and their `task_timer`: `StartDeadline` is
`start_deadline` with `schedule` and `cancel`, a tick is `TickHandler`, one
`RunTask` for each task that is due, and `EndTick`, which lets the ids start
again at 0. A tick length is the unit of time; a tick may find a task due
early, since ticks wait for the thread.

`LatencyMetrics` is `observe_request_duration_ms`, one action per atomic access,
with failing weak compare-and-exchange, and the three loads of `/metrics`.

Atomics are taken to be read in the order they were written, although the code
loads and stores them relaxed; on one atomic this is what the language gives.
Where a property depends on the order of two atomics (`AverageCovered`,
`ReadinessTruthful` across flags) it speaks of builds that keep it, as x86
does for these read-modify-write instructions and loads.

`MCOrderRoutes` and `MCLatencyMetrics` add the symmetry sets for TLC. Operators
marked "Mutant" are wrong variants of the definition below them; each is used to
see that a property notices it, and none is part of a specification.

## Runs

| Run | Checks | Shows |
|---|---|---|
| `routes_faults` | `TypeOK`, `CreatedAccounting`, `LedgerSpec`, `EveryRequestAnswered`; until a number repeats: `CachedMatchesRow`, `TimesOrdered`, `PaymentDurable`, `DeletionDurable`, `NeverRefilled` | with repeated numbers, failing Redis and SQLite and a crash, the table implements the ledger, `orders_created` is accounted for and every request is answered; a cached payload belongs to its row and only the creation of an order fills its entry, times are ordered, and an acknowledged payment or deletion is never undone |
| `routes_quiet` | `PaymentInvalidates`, `ReadsSeeAcks`, `CacheInv` | with a reliable Redis and clients that wait for the response of a creation, a get sees every acknowledged payment and deletion |
| `pipeline` | `TypeOK`, `LateRejected`, `TotalAccounting`, `GaugeDrift`, `AdmissionLimit`, `OverloadNeedsThreads`, `PipelineInv`, `DrainShrinks`, `Drained` | whatever clients send: what the gauge counts, how many handlers the limit lets run, that each request that reaches the log is counted once, that late order requests are refused, that the order requests under way only become fewer during the drain, and that it ends |
| `lifecycle` | `OrderlySpec`, `ReadinessTruthful`, `AcceptBalanced`, `AcceptInv`, `StopComplete`, `SignalEnds` | the process implements the orderly shutdown, readiness answers are consistent, connections are spread evenly, a stop that was not early has reached every io_context, and the process ends after a signal unless the stop came too early |
| `deadlines` | `TasksCurrent`, `OwnDeadline`, `LongestSilentFirst`, `SilentEnds` | no deadline outlives its connection; the connection silent longest is closed first; connections of silent clients end unless an id was issued twice |
| `latency` | `MaxExact`, `AverageCovered` | the maximum is never lost, lowered or invented, and the average never leaves out a duration it has counted |

Six runs show where the code does something else than its documents or tests
say; TLC finds the behaviour described (the quotations are in `PROJECT.json`):

| Run | Property | What happens |
|---|---|---|
| `late_set_after_pay` | `PaymentInvalidates` | an order found in a list is paid before its creator's SET; the cache keeps the pending payload |
| `delete_leaves_entry` | `DeletedNotCached` | two deletions of one order interleave at `sqlite3_changes`; both answer 404 and nobody sends DEL |
| `payment_races` | `PayMarksOrder` | two payments pass the status check together, or the order is deleted after it; a payment that marked nothing is counted and answered with 200 |
| `gauge_after_unmatched` | `InFlightExact` | an unmatched request after an order request subtracts from the gauge a second time |
| `unmatched_duration` | `DurationMeasured` | an unmatched request is logged with the start time of the previous request, or with none: its duration is the time since the clock's epoch |
| `early_signal` | `SignalStops` | `app.stop()` comes before Crow has its server or all its io_contexts; the process stays, in drain mode. It takes a drain time shorter than the rest of start-up |

Some properties have an exception that the code makes necessary, kept in a
history variable so that they hold with it. `SignalEnds` and `StopComplete`
except the early stop (`early`). `GaugeDrift`, `AdmissionLimit`, `OverloadNeedsThreads` and `Drained`
count `leaked` and `twice`. `CachedMatchesRow`, `TimesOrdered`, `PaymentDurable`,
`DeletionDurable` and `NeverRefilled` except `repeated`: the number of a deleted
order that comes back names another order, while clients, Redis and handlers
under way may still mean the first. `PaymentDurable` says that an order whose
payment was acknowledged is paid or deleted; that a payment may be acknowledged
after the deletion is the matter of `payment_races`. `OwnDeadline` and `SilentEnds` except `reused`: a
tick runs every task and the ids start again at 0, while a connection it closed
still has its aborted read in the queue; a connection that starts before that
read gets the same id, and the cancel of the first erases the deadline of the
second, which then has none until it next reads.

### Bounds

Two workers (three in `routes_quiet`) and three or four requests: an order has
to be created before two others can race on it, and every race known in this
code is between two handlers. Two seconds of clock with one random part give
two order numbers, a repeated one, and an entry that expires. One crash, since
a second one meets no new state. Clients of `routes_faults` name only orders
they were told of (`ClientsGuess` is false), which keeps the product of faults,
crash and five operations within reach; the theorems allow clients that guess
numbers, but for `DeletionDurable`, which is about clients that do not.
In `pipeline` two connections on two workers,
or on one, with limits of one and two give a request that waits for its
thread, one that is refused while the limit is in use, and a limit that is as
large as the number of threads; four requests are enough for an order request,
the unmatched or upgrade request that makes the gauge drift, and two that meet
the drift. Two workers in `lifecycle` are the smallest pool that can be stopped
half-built; two connections each and three requests put a handler and a probe
on both sides of the drain. Three connections and two reads in `deadlines`
let an id be issued twice with a neighbour looking on. Three workers with three
durations in `latency` let a compare-and-exchange fail against a larger and a
smaller maximum.
Symmetry is used only where no liveness is checked. Deadlock is checked in
every run but `lifecycle` and `early_signal`, where the process may end;
`Finished` in `OrderRoutes` and `LatencyMetrics` stands for a server without
work.

### Fairness

Weak fairness of each worker's (each connection's) steps: a thread that has
begun a request goes on with it, since handlers do not wait for each other and
the library calls return. In `ServerLifecycle` weak fairness of main, the
watcher, the acceptor's return from `run` and each worker's own steps: the
operating system schedules every thread. In `Deadlines` weak fairness of the
worker thread and of the timer: time passes. Nothing is assumed of clients,
signals, connections, expiry or crashes. The violation runs that check a
temporal property (`payment_races`, `early_signal`) use the same fair
specifications.

## Proofs

All theorems hold for every value of the constants that satisfies the named
assumptions `ConstantsAssumption`, `PipelineAssumption`, `LifecycleAssumption`,
`DeadlinesAssumption` and `LatencyAssumption` (finite sets of workers,
random parts and connections, at least one worker, positive limits).

* `OrderRoutes_proofs`: `TypeInvariant` (what a worker's locals hold is tied to
  its label, or the types would not be inductive), and the lemmas the next three
  modules share: which workers, rows and entries each action touches.
* `OrderLedger_proofs`: `HandlersImplementLedger`, Spec => Ledger!Spec. Three
  actions write the table and map to Place, Settle and Remove; every other step
  stutters. It needs `AbsentRowsInvariant`: a missing row is exactly `Absent`.
  Also `CreatedAccountingCorrect`, by following the cardinality of the rows and
  of the workers at `c_count` through each action, and `TypeCorrect`, with the
  type of the history variable `removed`.
* `CacheCoherence_proofs`: `CacheInvariant`, and from it
  `PaymentInvalidatesCorrect` and `ReadsSeeAcksCorrect`, all in a quiet
  environment. The argument: a number becomes known to clients only when its
  creator is past the SET, so only the creator could fill the entry again, and
  it is done; hence a DEL is final, and what was acknowledged stays out of the
  cache. The invariant says this of each worker, each order and each pair of
  creators. `late_set_after_pay` shows that the assumption is needed.
* `OrderFreshness_proofs`: `TimesOrderedCorrect`, `PaymentDurableCorrect` and
  `CachedMatchesRowCorrect`, with any faults, restarts and guessing clients. The
  invariant is `repeated \/ FreshInv`: a number that is made a second time ends
  what is promised, and until then `FreshInv` holds. It rests on closed numbers:
  once a number is generated and no worker is about to insert under it, no row
  will ever be inserted under it again. So a late UPDATE or SET finds the row its
  handler knew, or none, and what was compared or read before stays true. `Kept`
  states what no step undoes; the workers that do not move keep their part of
  the invariant by it. The same module bounds how stale the cache can be:
  `NeverRefilledCorrect` (only a worker that creates an order sets its entry,
  and a number that is closed gets no second creator), and from it, with the
  lemma `EntriesExpire`, `StaleBounded`: an entry left behind by a lost DEL, or
  by a crash before it, is gone `CacheTTL` seconds after the creation was over.
  `DeletionDurableCorrect` assumes that clients do not guess numbers
  (`~ClientsGuess`): a deletion is then of a number some response has named,
  whose INSERT is over, and its own DELETE has succeeded before it looks at
  `sqlite3_changes`; whatever that returns, the row is gone and its number
  closed. `GoneInv` says so of the workers past the DELETE. A client that
  guesses could be told 200 for a number whose order is created afterwards.
* `RequestPipeline_proofs`: `TypeCorrect`, `LateRejectedCorrect`,
  `PipelineInvariant` and from it `GaugeDriftCorrect`, `AdmissionLimitCorrect`,
  `OverloadNeedsThreadsCorrect`; `TotalAccountingCorrect`. No assumption on what clients send. The gauge is
  the cardinality of the requests between the addition and the subtraction,
  corrected by the two drifts; `home` maps those requests one to one to threads.
  `DrainShrinksCorrect`: the check of `shutting_down` and the addition to the
  gauge are two steps, so the requests under way are those on the gauge and
  those between the two steps, and in drain mode none joins them.
  `DrainIsFinal` is the safety part of `Drained`: when they are gone, the gauge
  stands at its drift for good.
* `ServerLifecycle_proofs`: `OrderlyCorrect`, Spec => Orderly!Spec, for any
  number of workers: main reaches `close` only past the joins, so no worker is
  in a handler, and no io_context is stopped before `shutting_down` is set;
  `ReadinessTruthfulCorrect`, as `shutting_down` only ever goes from false to
  true, so the last load decides; `AcceptInvariant` and `AcceptBalancedCorrect`,
  where the invariant ties queue lengths to connections and the one that is
  waited for to a worker with the fewest; `StopCompleteCorrect`, whose invariant
  `StopInv` says that a stop which found the pool complete has walked past every
  io_context below its index, and that the acceptor's is the last to be stopped.
* `Deadlines_proofs`: `TasksCurrentCorrect`, `OwnDeadlineCorrect`. The invariant
  relates ids, `highest_id` and the handlers in the queue.
  `LongestSilentFirstCorrect`: a new deadline gets an id above all others and
  has waited least, a tick counts for all tasks alike, and ids start again only
  when no task is left. It justifies that a tick may be modelled as running the
  tasks up to an id.
* `LatencyMetrics_proofs`: `MaxExactCorrect`: a worker that leaves the loop
  without exchanging has seen a maximum that was at least its duration, and
  nobody lowers it (`LatencyInv`). `AverageCoveredCorrect`, from
  `DurationsAccounted`: the durations that were added and not yet sampled are
  the cardinality of a set with one member for each worker and millisecond,
  which the two additions enlarge and reduce, so that no sum over workers and
  no induction over data is needed.

Only model-checked: the liveness properties `EveryRequestAnswered`, `Drained`,
`SignalEnds` and `SilentEnds`, since liveness under fairness is out of this
prover's reach. What is proved of them is their safety part: `DrainIsFinal` for
`Drained`, `StopComplete` for `SignalEnds`, `OwnDeadline` for `SilentEnds`.
Every other property of a passing run is a theorem.

## What is not modelled

* The bytes: JSON, HTTP parsing, formatting of responses and the log.
  `ErrorHandlerMiddleware` rewrites the body of an error and nothing else.
  `is_valid_amount`, `is_valid_order_no` and their like are single tests of a
  parsed body with no state, so that a model would repeat them; what follows
  from their results (accepted, 400, or an exception and 500) is modelled.
* `format_time` renders through the buffer of `localtime`, which all threads
  share. Two responses may mix their times; rows and control are not affected,
  and the models hold times as numbers.
* `cache_hit_ratio` of `/metrics`: it loads `cache_hits` twice and can exceed 1.
  In the same way the average duration can exceed the maximum, since a worker
  adds to the total before it raises the maximum. No document says otherwise.
* A failure to open the database or to parse the configuration, which ends the
  process before it serves.
* The parts of Crow that the service does not use: TLS, websockets, static
  files, blueprints, the tick function, `wait_for_start`.
* A single model of pipeline, handlers and process together. The modules meet
  in narrow places: a handler of `OrderRoutes` is the step `handler` of
  `RequestPipeline` and the label `order` of `ServerLifecycle`, and each
  module lets the others' steps happen at any time, so the safety properties
  carry over; the state space of a composition is the product of theirs.
* The cache is keyed by order number alone; the eviction of entries by a full
  Redis is like `Expire`.

Most lines under `src/include/` are the vendored single-header libraries (Crow
with asio's glue, httplib, doctest), of which the service runs a small part.
The service's own code, `src/src/` with `metrics.h`, `service_state.h` and
`auth_middleware.h`, is modelled but for the points above.
