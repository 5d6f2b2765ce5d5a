-------------------------- MODULE ServerLifecycle ---------------------------
(***************************************************************************)
(* The life of the process: main, which builds and runs Crow's server and  *)
(* closes the database in the end; the signal watcher, which enters drain  *)
(* mode and stops the server; Crow's acceptor thread and worker threads,   *)
(* each with an io_context of its own; and the /readiness probe, which     *)
(* loads the flags of service_state one by one while the watcher sets      *)
(* them.  The behaviours begin when main has opened the database and has   *)
(* installed the signal handlers.                                          *)
(***************************************************************************)
EXTENDS Integers

CONSTANTS
  N,            \* worker threads: concurrency_ - 1
  MaxAccepts,   \* bound: connections that each worker gets
  MaxRequests   \* bound: requests that are handled

ASSUME LifecycleAssumption ==
  N \in Nat \ {0} /\ MaxAccepts \in Nat /\ MaxRequests \in Nat

Threads == 1..N

VARIABLES
  shutdown_signal_received, stop_watcher,
  shutting_down, redis_available,  \* service_state; db_ready stays true
  db,                              \* "open" or "closed"
  main, watcher, acceptor, worker, \* where the threads are
  server,     \* has Crow::run assigned server_
  pool,       \* io_contexts in io_context_pool_
  stopping,   \* Server::shutting_down_
  stopped,    \* the io_contexts stop() was called on; 0 is the acceptor's
  cursor, upto,  \* the loop of Server::stop: next io_context, and the last
  queue_length, accepting,  \* task_queue_length_pool_; who gets the next
                            \* connection, 0 when none is waited for
  probe,      \* what each worker's last readiness probe has put together
  accepted,   \* connections of each worker so far, bounded by MaxAccepts
  requests,   \* bounded by MaxRequests
  early       \* history: did app.stop() come before the pool was complete

flags == <<shutdown_signal_received, stop_watcher, shutting_down, redis_available>>
crow == <<server, pool, stopping, stopped, cursor, upto>>
accepts == <<queue_length, accepting, accepted>>
threads == <<main, watcher, acceptor, worker>>
vars == <<flags, db, threads, crow, accepts, probe, requests, early>>

NoProbe == [status |-> "none", ready |-> FALSE, code |-> 0, late |-> FALSE]

Init ==
  /\ shutdown_signal_received = FALSE /\ stop_watcher = FALSE
  /\ shutting_down = FALSE /\ redis_available \in BOOLEAN
  /\ db = "open"
  /\ main = "register" /\ watcher = "poll" /\ acceptor = "none"
  /\ worker = [i \in Threads |-> "none"]
  /\ server = FALSE /\ pool = 0 /\ stopping = FALSE /\ stopped = {}
  /\ cursor = 0 /\ upto = 0
  /\ queue_length = [i \in Threads |-> 0] /\ accepting = 0
  /\ accepted = [i \in Threads |-> 0]
  /\ probe = [i \in Threads |-> NoProbe]
  /\ requests = 0 /\ early = FALSE

\* The process has ended, by returning from main or by std::terminate.
Ended == main \in {"exit", "aborted"}

At(thread, label) == ~Ended /\ thread = label

-----------------------------------------------------------------------------
\* Server::do_accept

\* Mutant: always the first io_context.
FirstIoContext(lengths, i) == i = 1

\* pick_io_context_idx: the first of those with the fewest connections
PickIoContext(lengths, i) == \A j \in Threads :
  lengths[i] < lengths[j] \/ (lengths[i] = lengths[j] /\ i <= j)

\* Waits for a connection, unless the server is stopping.  lengths are the
\* queue lengths as the handler of the last accept leaves them.
DoAccept(lengths) ==
  IF stopping
  THEN accepting' = 0 /\ queue_length' = lengths
  ELSE \E i \in Threads :
         /\ PickIoContext(lengths, i)
         /\ accepting' = i
         /\ queue_length' = [lengths EXCEPT ![i] = @ + 1]

\* A connection comes in: its start() is posted to the io_context picked.
Accept ==
  /\ At(acceptor, "run") /\ 0 \notin stopped
  /\ accepting # 0
  /\ accepted[accepting] < MaxAccepts
  /\ accepted' = [accepted EXCEPT ![accepting] = @ + 1]
  /\ DoAccept(queue_length)
  /\ UNCHANGED <<flags, db, threads, crow, probe, requests, early>>

\* Mutant: the queue length is not taken back.
AcceptFailsCounted ==
  /\ At(acceptor, "run") /\ 0 \notin stopped
  /\ accepting # 0
  /\ DoAccept(queue_length)
  /\ UNCHANGED <<flags, db, threads, crow, accepted, probe, requests, early>>

\* async_accept reports an error.
AcceptFails ==
  /\ At(acceptor, "run") /\ 0 \notin stopped
  /\ accepting # 0
  /\ DoAccept([queue_length EXCEPT ![accepting] = @ - 1])
  /\ UNCHANGED <<flags, db, threads, crow, accepted, probe, requests, early>>

\* io_context_.run() returns.
AcceptorEnds ==
  /\ At(acceptor, "run") /\ 0 \in stopped
  /\ acceptor' = "ended"
  /\ UNCHANGED <<flags, db, main, watcher, worker, crow, accepts, probe, requests, early>>

-----------------------------------------------------------------------------
\* main

MainGoes(label) == main' = label /\ UNCHANGED <<watcher, acceptor>>

\* Crow::run makes the server, whose constructor binds the port.
MakeServer ==
  /\ At(main, "register")
  /\ server' = TRUE
  /\ MainGoes("pool")
  /\ UNCHANGED <<flags, db, worker, pool, stopping, stopped, cursor, upto, accepts,
                 probe, requests, early>>

\* The port is taken: the exception leaves main.
BindFails ==
  /\ At(main, "register")
  /\ MainGoes("aborted")
  /\ UNCHANGED <<flags, db, worker, crow, accepts, probe, requests, early>>

\* io_context_pool_.emplace_back.  It may move the elements while the watcher
\* is in the loop of Server::stop, which then reads freed memory.
AddIoContext ==
  /\ At(main, "pool")
  /\ pool' = pool + 1
  /\ \/ MainGoes(IF pool + 1 = N THEN "spawn" ELSE "pool")
     \/ watcher = "stop" /\ MainGoes("aborted")
  /\ UNCHANGED <<flags, db, worker, server, stopping, stopped, cursor, upto, accepts,
                 probe, requests, early>>

\* std::async starts the worker threads, one after the other.
SpawnWorker == \E i \in Threads :
  /\ At(main, "spawn")
  /\ \A j \in Threads : worker[j] = "none" <=> j >= i
  /\ worker' = [worker EXCEPT ![i] = "init"]
  /\ MainGoes(IF i = N THEN "init" ELSE "spawn")
  /\ UNCHANGED <<flags, db, crow, accepts, probe, requests, early>>

\* Every worker has raised init_count: accept, and start the acceptor thread.
StartAccepting ==
  /\ At(main, "init")
  /\ \A i \in Threads : worker[i] # "init"
  /\ DoAccept(queue_length)
  /\ main' = "serve" /\ acceptor' = "run"
  /\ UNCHANGED <<flags, db, watcher, worker, crow, accepted, probe, requests, early>>

JoinAcceptor ==
  /\ At(main, "serve") /\ acceptor = "ended"
  /\ MainGoes("futures")
  /\ UNCHANGED <<flags, db, worker, crow, accepts, probe, requests, early>>

\* Mutant: run() returns without waiting for the workers.
SkipWorkers ==
  /\ At(main, "futures")
  /\ stop_watcher' = TRUE
  /\ MainGoes("join")
  /\ UNCHANGED <<shutdown_signal_received, shutting_down, redis_available, db, worker,
                 crow, accepts, probe, requests, early>>

\* The futures of std::async wait for their threads when run() returns; main
\* then tells the watcher to stop.
JoinWorkers ==
  /\ At(main, "futures")
  /\ \A i \in Threads : worker[i] = "ended"
  /\ stop_watcher' = TRUE
  /\ MainGoes("join")
  /\ UNCHANGED <<shutdown_signal_received, shutting_down, redis_available, db, worker,
                 crow, accepts, probe, requests, early>>

JoinWatcher ==
  /\ At(main, "join") /\ watcher = "ended"
  /\ MainGoes("close")
  /\ UNCHANGED <<flags, db, worker, crow, accepts, probe, requests, early>>

CloseDb ==
  /\ At(main, "close")
  /\ db' = "closed"
  /\ MainGoes("exit")
  /\ UNCHANGED <<flags, worker, crow, accepts, probe, requests, early>>

-----------------------------------------------------------------------------
\* The watcher thread

\* signal_handler
Signal ==
  /\ ~Ended
  /\ ~shutdown_signal_received
  /\ shutdown_signal_received' = TRUE
  /\ UNCHANGED <<stop_watcher, shutting_down, redis_available, db, threads, crow,
                 accepts, probe, requests, early>>

WatcherGoes(label) == watcher' = label /\ UNCHANGED <<main, acceptor, worker>>

\* The poll that finds the signal; shutting_down is set by nobody else.
EnterDrain ==
  /\ At(watcher, "poll") /\ ~stop_watcher
  /\ shutdown_signal_received
  /\ shutting_down' = TRUE
  /\ WatcherGoes("drain")
  /\ UNCHANGED <<shutdown_signal_received, stop_watcher, redis_available, db, crow,
                 accepts, probe, requests, early>>

\* Mutant: the loop of Server::stop leaves out the last io_context.
AppStopButLast ==
  /\ At(watcher, "drain")
  /\ stopping' = server
  /\ upto' = pool - 1 /\ cursor' = 1
  /\ early' = (pool < N)
  /\ WatcherGoes(IF server THEN "stop" ELSE "ended")
  /\ UNCHANGED <<flags, db, server, pool, stopped, accepts, probe, requests>>

\* The drain time has passed and app.stop() is called.  It does nothing when
\* there is no server yet; else Server::stop looks at the io_contexts there are.
AppStop ==
  /\ At(watcher, "drain")
  /\ stopping' = server
  /\ upto' = pool /\ cursor' = 1
  /\ early' = (pool < N)
  /\ WatcherGoes(IF server THEN "stop" ELSE "ended")
  /\ UNCHANGED <<flags, db, server, pool, stopped, accepts, probe, requests>>

\* One turn of its loop.  An element that emplace_back has moved may be seen
\* as null and is skipped.
StopIoContext ==
  /\ At(watcher, "stop") /\ cursor <= upto
  /\ \/ stopped' = stopped \cup {cursor}
     \/ pool # upto /\ UNCHANGED stopped
  /\ cursor' = cursor + 1
  /\ WatcherGoes("stop")
  /\ UNCHANGED <<flags, db, server, pool, stopping, upto, accepts, probe, requests, early>>

\* Mutant: the acceptor's io_context is not stopped.
StopNothingElse ==
  /\ At(watcher, "stop") /\ cursor > upto
  /\ WatcherGoes("ended")
  /\ UNCHANGED <<flags, db, crow, accepts, probe, requests, early>>

\* ... and, last, the acceptor's.  The watcher then returns from app.stop and
\* ends without touching anything another thread looks at, but for its end,
\* which main waits for: the two are one step.
StopAcceptor ==
  /\ At(watcher, "stop") /\ cursor > upto
  /\ stopped' = stopped \cup {0}
  /\ WatcherGoes("ended")
  /\ UNCHANGED <<flags, db, server, pool, stopping, cursor, upto, accepts, probe,
                 requests, early>>

-----------------------------------------------------------------------------
\* The worker threads

WorkerGoes(i, label) ==
  /\ worker' = [worker EXCEPT ![i] = label]
  /\ UNCHANGED <<main, watcher, acceptor>>

\* The thread has set up its task_timer and raises init_count.
WorkerReady(i) ==
  /\ At(worker[i], "init")
  /\ queue_length' = [queue_length EXCEPT ![i] = 0]
  /\ WorkerGoes(i, "run")
  /\ UNCHANGED <<flags, db, crow, accepting, accepted, probe, requests, early>>

\* io_context::run takes a request of one of the worker's connections.
Takes(i) ==
  /\ At(worker[i], "run") /\ i \notin stopped
  /\ accepted[i] > 0
  /\ requests < MaxRequests
  /\ requests' = requests + 1
  /\ UNCHANGED <<flags, db, crow, accepts, early>>

\* An order request passes the check of shutting_down, and its handler, which
\* uses the database, runs to its end.
AdmitOrder(i) ==
  /\ Takes(i)
  /\ ~shutting_down
  /\ WorkerGoes(i, "order")
  /\ UNCHANGED probe

\* The handler's Redis commands set redis_available.
FinishOrder(i) ==
  /\ At(worker[i], "order")
  /\ redis_available' \in BOOLEAN
  /\ WorkerGoes(i, "run")
  /\ UNCHANGED <<shutdown_signal_received, stop_watcher, shutting_down, db, crow,
                 accepts, probe, requests, early>>

\* /readiness begins,
TakeProbe(i) ==
  /\ Takes(i)
  /\ WorkerGoes(i, "status")
  /\ probe' = [probe EXCEPT ![i] = [NoProbe EXCEPT !.late = shutting_down]]

\* One field of the answer, and the label of the next.
Answer(i, label, next, p) ==
  /\ At(worker[i], label)
  /\ probe' = [probe EXCEPT ![i] = p]
  /\ WorkerGoes(i, next)
  /\ UNCHANGED <<flags, db, crow, accepts, requests, early>>

\* ... readiness_status() loads shutting_down,
ReadinessStatus(i) ==
  Answer(i, "status", IF shutting_down THEN "ready" ELSE "redis",
         [probe[i] EXCEPT !.status = IF shutting_down THEN "shutting_down" ELSE "ready"])

\* ... and then redis_available,
ReadinessRedis(i) ==
  Answer(i, "redis", "ready",
         [probe[i] EXCEPT !.status = IF redis_available THEN "ready" ELSE "degraded"])

\* ... is_ready() loads shutting_down again,
ReadinessReady(i) ==
  Answer(i, "ready", "code", [probe[i] EXCEPT !.ready = ~shutting_down])

\* Mutant: the code follows redis_available.
ReadinessCodeRedis(i) ==
  Answer(i, "code", "run",
         [probe[i] EXCEPT !.code = IF redis_available THEN 200 ELSE 503])

\* ... and once more for the code of the response.
ReadinessCode(i) ==
  Answer(i, "code", "run", [probe[i] EXCEPT !.code = IF shutting_down THEN 503 ELSE 200])

\* io_context::run returns 0 once the io_context is stopped.
WorkerEnds(i) ==
  /\ At(worker[i], "run") /\ i \in stopped
  /\ WorkerGoes(i, "ended")
  /\ UNCHANGED <<flags, db, crow, accepts, probe, requests, early>>

-----------------------------------------------------------------------------
Main ==
  \/ MakeServer \/ BindFails \/ AddIoContext \/ SpawnWorker \/ StartAccepting
  \/ JoinAcceptor \/ JoinWorkers \/ JoinWatcher \/ CloseDb

Watcher == EnterDrain \/ AppStop \/ StopIoContext \/ StopAcceptor

\* What a worker does of its own accord, and what requests make it do.
Goes(i) ==
  \/ WorkerReady(i) \/ FinishOrder(i) \/ ReadinessStatus(i) \/ ReadinessRedis(i)
  \/ ReadinessReady(i) \/ ReadinessCode(i) \/ WorkerEnds(i)

Next ==
  \/ Main \/ Watcher \/ Signal \/ Accept \/ AcceptFails \/ AcceptorEnds
  \/ \E i \in Threads : Goes(i) \/ AdmitOrder(i) \/ TakeProbe(i)

Spec == Init /\ [][Next]_vars

\* Every thread that can go on is scheduled in the end, and handlers return;
\* nothing is assumed of signals, clients and connections.
FairSpec ==
  /\ Spec
  /\ WF_vars(Main) /\ WF_vars(Watcher) /\ WF_vars(AcceptorEnds)
  /\ \A i \in Threads : WF_vars(Goes(i))

-----------------------------------------------------------------------------
\* The process keeps to the orderly shutdown: whatever the threads' order, and
\* wherever the signal comes, no order request is admitted after drain mode is
\* entered, no io_context is stopped before, and sqlite3_close comes when no
\* worker is in a handler, however long it takes beyond SHUTDOWN_DRAIN_MS.
Orderly == INSTANCE OrderlyShutdown WITH
  draining <- shutting_down,
  stopping <- stopped # {},
  busy <- {i \in Threads : worker[i] = "order"},
  closed <- db = "closed"
OrderlySpec == Orderly!Spec

\* /readiness, though it loads the flags several times while the watcher sets
\* them, never answers 200 with a body that says otherwise, never 503 without
\* a shutdown, and never 200 to a probe that arrives in drain mode.
ReadinessTruthful == \A i \in Threads :
  /\ probe[i].code = 200 => probe[i].ready /\ probe[i].status # "shutting_down"
  /\ probe[i].code = 200 => ~probe[i].late
  /\ probe[i].code = 503 => shutting_down

\* pick_io_context_idx spreads connections evenly: no worker gets two more
\* than another, failed accepts included.  (The lengths it compares count
\* every connection so far; nothing lowers them when a connection ends.)
AcceptBalanced == \A i, j \in Threads : accepted[i] <= accepted[j] + 1

\* The inductive invariant behind it: the queue length of a worker is its
\* connections and the one that is waited for, which is for a worker with the
\* fewest.
AcceptInv ==
  /\ AcceptBalanced
  /\ accepting # 0 => \A j \in Threads : accepted[accepting] <= accepted[j]
  /\ \A i \in Threads :
       queue_length[i] = accepted[i] + (IF accepting = i THEN 1 ELSE 0)

\* main waits for no thread in vain: when the watcher has ended, every
\* io_context has been told to stop and no other thing has, unless app.stop()
\* came early; and main is past the acceptor thread only when the watcher has
\* ended, so that it never has to tell it to stop.
StopComplete ==
  /\ watcher = "ended" /\ ~early => stopped = {0} \cup Threads
  /\ main \in {"futures", "join", "close", "exit"} => watcher = "ended"

\* The process ends after a signal, unless app.stop() came while Crow::run was
\* still building the server.
SignalEnds == shutdown_signal_received ~> Ended \/ early

\* README: "The service handles SIGINT / SIGTERM by entering drain mode first,
\* failing readiness, and then stopping the server."
SignalStops == shutdown_signal_received ~> Ended
=============================================================================
