-------------------------- MODULE RequestPipeline --------------------------
(***************************************************************************)
(* A request on its way through the server: Crow's Connection, which reads *)
(* it, keeps the middleware contexts and writes the response, and the      *)
(* middlewares Logging, Lifecycle, ErrorHandler and Auth of main.cpp, which *)
(* Crow calls before and, in reverse order, after the route handler.  Each *)
(* connection belongs to one worker thread, which runs one request at a    *)
(* time; requests on connections of different workers interleave at every  *)
(* access to the shared atomics.  What an order handler does is the matter *)
(* of OrderRoutes; here it is one step.                                    *)
(***************************************************************************)
EXTENDS Integers, FiniteSets

CONSTANTS
  Conns,        \* connection slots: open client connections
  Workers,      \* threads of the io_context pool
  Limits,       \* MAX_INFLIGHT_REQUESTS as it may be configured
  Routes,       \* which routes clients ask for, out of AllRoutes
  Forms,        \* which forms their requests have, out of AllForms
  MaxRequests   \* bound: requests that are received

\* An order route, a probe path, or no route for this method and URL.
AllRoutes == {"order", "probe", "none"}
\* HTTP/1.1 without a Host header; a request to switch protocols (not to h2).
AllForms == {"plain", "hostless", "upgrade"}

ASSUME PipelineAssumption ==
  /\ IsFiniteSet(Conns) /\ IsFiniteSet(Workers) /\ Workers # {}
  /\ Limits \subseteq Nat \ {0}
  /\ Routes \subseteq AllRoutes /\ Forms \subseteq AllForms
  /\ MaxRequests \in Nat

VARIABLES
  max_inflight_requests,  \* stored by main once, at least 1
  shutting_down, in_flight, total_requests, overload_rejections,
  shutdown_rejections,
  pc, req,      \* where each connection is, and the request it works on
  home,         \* the worker thread that runs the connection
  counted,      \* ctx_: counted_inflight of LifecycleMiddleware
  start,        \* ctx_: whose start_time LoggingMiddleware holds
  late,         \* history: did the request arrive during shutdown
  begun,        \* bounded by MaxRequests
  answered,     \* history: requests that are done with, those without Host aside
  leaked,       \* history: upgrades that were counted as in flight and dropped
  twice         \* history: subtractions on the context of an earlier request

gauges == <<in_flight, total_requests, overload_rejections, shutdown_rejections>>
ended == <<answered, leaked, twice, max_inflight_requests>>
conns == <<req, home, late, begun, ended>>
ctx == <<counted, start>>
vars == <<shutting_down, gauges, pc, conns, ctx>>

Labels == {"idle", "check", "add", "over", "auth", "handler", "after", "log", "write"}

Request == [route : AllRoutes, form : AllForms, key : BOOLEAN]

NoRequest == [route |-> "none", form |-> "plain", key |-> FALSE]

Init ==
  /\ max_inflight_requests \in Limits
  /\ shutting_down = FALSE
  /\ in_flight = 0 /\ total_requests = 0
  /\ overload_rejections = 0 /\ shutdown_rejections = 0
  /\ pc = [c \in Conns |-> "idle"] /\ req = [c \in Conns |-> NoRequest]
  /\ home \in [Conns -> Workers]
  /\ counted = [c \in Conns |-> FALSE] /\ start = [c \in Conns |-> "epoch"]
  /\ late = [c \in Conns |-> FALSE]
  /\ begun = 0 /\ answered = 0 /\ leaked = 0 /\ twice = 0

Goto(c, label) == pc' = [pc EXCEPT ![c] = label]

-----------------------------------------------------------------------------
\* Connection: reading a request

\* Mutant: connections do not wait for their worker.
ThreadFreeAlways(c) == TRUE

\* The worker of c runs no other connection.
ThreadFree(c) == \A d \in Conns \ {c} : home[d] = home[c] => pc[d] = "idle"

Arrives(c, r) ==
  /\ pc[c] = "idle" /\ ThreadFree(c)
  /\ begun < MaxRequests
  /\ begun' = begun + 1
  /\ req' = [req EXCEPT ![c] = r]
  /\ late' = [late EXCEPT ![c] = shutting_down]
  /\ UNCHANGED <<shutting_down, gauges, home, ended>>

\* handle_url finds no route: the after_handle of every middleware is called
\* on ctx_ as the previous request of the connection has left it.
HandleUrl(c) ==
  /\ "none" \in Routes
  /\ Arrives(c, NoRequest)
  /\ start' = [start EXCEPT ![c] = IF @ = "own" THEN "earlier" ELSE @]
  /\ Goto(c, "after")
  /\ UNCHANGED counted

\* handle: ctx_ starts afresh.  A request without Host is answered with 400
\* at once; else LoggingMiddleware takes the time, and LifecycleMiddleware
\* and AuthMiddleware let the probe paths pass.
Handle(c) == \E p \in Routes \ {"none"}, f \in Forms, k \in BOOLEAN :
  /\ Arrives(c, [route |-> p, form |-> f, key |-> k])
  /\ counted' = [counted EXCEPT ![c] = FALSE]
  /\ start' = [start EXCEPT ![c] = IF f = "hostless" THEN "epoch" ELSE "own"]
  /\ Goto(c, CASE f = "hostless" -> "write"
               [] f # "hostless" /\ p = "probe" -> "handler"
               [] OTHER -> "check")

-----------------------------------------------------------------------------
\* The middlewares

\* Mutant: the return after the 503 is missing.
CheckShutdownFallsThrough(c) ==
  /\ pc[c] = "check"
  /\ shutdown_rejections' = shutdown_rejections + (IF shutting_down THEN 1 ELSE 0)
  /\ Goto(c, "add")
  /\ UNCHANGED <<shutting_down, in_flight, total_requests, overload_rejections, conns, ctx>>

\* Mutant: LifecycleMiddleware comes before LoggingMiddleware, which does not
\* see what it rejects.
CheckShutdownUnlogged(c) ==
  /\ pc[c] = "check"
  /\ shutdown_rejections' = shutdown_rejections + (IF shutting_down THEN 1 ELSE 0)
  /\ Goto(c, IF shutting_down THEN "write" ELSE "add")
  /\ UNCHANGED <<shutting_down, in_flight, total_requests, overload_rejections, conns, ctx>>

\* LifecycleMiddleware::before_handle loads shutting_down.
CheckShutdown(c) ==
  /\ pc[c] = "check"
  /\ shutdown_rejections' = shutdown_rejections + (IF shutting_down THEN 1 ELSE 0)
  /\ Goto(c, IF shutting_down THEN "after" ELSE "add")
  /\ UNCHANGED <<shutting_down, in_flight, total_requests, overload_rejections,
                 conns, ctx>>

\* Mutant: the limit is compared with the value before the addition.
AddInflightOldValue(c) ==
  /\ pc[c] = "add"
  /\ in_flight' = in_flight + 1
  /\ counted' = [counted EXCEPT ![c] = TRUE]
  /\ Goto(c, IF in_flight > max_inflight_requests THEN "over" ELSE "auth")
  /\ UNCHANGED <<shutting_down, total_requests, overload_rejections,
                 shutdown_rejections, conns, start>>

\* Mutant: the limit itself is refused.
AddInflightStrict(c) ==
  /\ pc[c] = "add"
  /\ in_flight' = in_flight + 1
  /\ counted' = [counted EXCEPT ![c] = TRUE]
  /\ Goto(c, IF in_flight + 1 >= max_inflight_requests THEN "over" ELSE "auth")
  /\ UNCHANGED <<shutting_down, total_requests, overload_rejections,
                 shutdown_rejections, conns, start>>

\* ... adds itself to in_flight_requests and looks at the sum,
AddInflight(c) ==
  /\ pc[c] = "add"
  /\ in_flight' = in_flight + 1
  /\ counted' = [counted EXCEPT ![c] = TRUE]
  /\ Goto(c, IF in_flight + 1 > max_inflight_requests THEN "over" ELSE "auth")
  /\ UNCHANGED <<shutting_down, total_requests, overload_rejections,
                 shutdown_rejections, conns, start>>

\* Mutant: fetch_add and fetch_sub are swapped.
RejectOverloadSwapped(c) ==
  /\ pc[c] = "over"
  /\ in_flight' = in_flight + 1
  /\ counted' = [counted EXCEPT ![c] = FALSE]
  /\ overload_rejections' = overload_rejections - 1
  /\ Goto(c, "after")
  /\ UNCHANGED <<shutting_down, total_requests, shutdown_rejections, conns, start>>

\* Mutant: counted_inflight is not reset, and after_handle subtracts again.
RejectOverloadTwice(c) ==
  /\ pc[c] = "over"
  /\ in_flight' = in_flight - 1
  /\ overload_rejections' = overload_rejections + 1
  /\ Goto(c, "after")
  /\ UNCHANGED <<shutting_down, total_requests, shutdown_rejections, conns, ctx>>

\* ... and takes itself off again when the sum is above the limit.
RejectOverload(c) ==
  /\ pc[c] = "over"
  /\ in_flight' = in_flight - 1
  /\ counted' = [counted EXCEPT ![c] = FALSE]
  /\ overload_rejections' = overload_rejections + 1
  /\ Goto(c, "after")
  /\ UNCHANGED <<shutting_down, total_requests, shutdown_rejections, conns, start>>

\* Mutant: a refused request is answered without the after_handle calls.
AuthorizeWrites(c) ==
  /\ pc[c] = "auth"
  /\ Goto(c, IF req[c].key THEN "handler" ELSE "write")
  /\ UNCHANGED <<shutting_down, gauges, conns, ctx>>

\* AuthMiddleware::before_handle
Authorize(c) ==
  /\ pc[c] = "auth"
  /\ Goto(c, IF req[c].key THEN "handler" ELSE "after")
  /\ UNCHANGED <<shutting_down, gauges, conns, ctx>>

\* The route handler returns, or throws and the router makes it a 500.
RunHandler(c) ==
  /\ pc[c] = "handler"
  /\ req[c].form # "upgrade"
  /\ Goto(c, "after")
  /\ UNCHANGED <<shutting_down, gauges, conns, ctx>>

\* LifecycleMiddleware::after_handle, called after the handler or when a
\* middleware has completed the response; ErrorHandlerMiddleware comes before
\* it and touches the response only.
LeaveInflight(c) ==
  /\ pc[c] = "after"
  /\ in_flight' = in_flight - (IF counted[c] THEN 1 ELSE 0)
  /\ twice' = twice + (IF counted[c] /\ req[c].route = "none" THEN 1 ELSE 0)
  /\ Goto(c, "log")
  /\ UNCHANGED <<shutting_down, total_requests, overload_rejections,
                 shutdown_rejections, req, home, late, begun, answered, leaked,
                 max_inflight_requests, ctx>>

\* LoggingMiddleware::after_handle counts the request and observes the time
\* since start_time.
LogRequest(c) ==
  /\ pc[c] = "log"
  /\ total_requests' = total_requests + 1
  /\ Goto(c, "write")
  /\ UNCHANGED <<shutting_down, in_flight, overload_rejections,
                 shutdown_rejections, conns, ctx>>

-----------------------------------------------------------------------------
\* Connection: the end of a request

\* The connection is gone, and a new one, whose ctx_ is as constructed, takes
\* its slot, on any worker.
Fresh(c) ==
  /\ counted' = [counted EXCEPT ![c] = FALSE]
  /\ start' = [start EXCEPT ![c] = "epoch"]
  /\ \E w \in Workers : home' = [home EXCEPT ![c] = w]

ToIdle(c) ==
  /\ Goto(c, "idle")
  /\ req' = [req EXCEPT ![c] = NoRequest]
  /\ late' = [late EXCEPT ![c] = FALSE]
  /\ UNCHANGED <<shutting_down, gauges, begun, twice, max_inflight_requests>>

\* The routes are no websockets: handle_upgrade sets a 404 that nobody
\* writes, no after_handle is called, and the connection is dropped.
HandleUpgrade(c) ==
  /\ pc[c] = "handler"
  /\ req[c].form = "upgrade"
  /\ ToIdle(c) /\ Fresh(c)
  /\ leaked' = leaked + (IF counted[c] THEN 1 ELSE 0)
  /\ UNCHANGED answered

\* The response of complete_request is written and the next request awaited,
\* unless the client wants to close.
WriteResponse(c) ==
  /\ pc[c] = "write"
  /\ req[c].form # "upgrade"
  /\ ToIdle(c)
  /\ answered' = answered + (IF req[c].form = "hostless" THEN 0 ELSE 1)
  /\ UNCHANGED leaked
  /\ \/ req[c].route # "none" /\ UNCHANGED <<ctx, home>>
     \/ Fresh(c)

\* A middleware has refused the upgrade: handle_upgrade follows all the same,
\* and no response is written.
DropUpgrade(c) ==
  /\ pc[c] = "write"
  /\ req[c].form = "upgrade"
  /\ ToIdle(c) /\ Fresh(c)
  /\ answered' = answered + 1
  /\ UNCHANGED leaked

-----------------------------------------------------------------------------
\* An idle connection ends and another one is accepted.
Reconnect(c) ==
  /\ pc[c] = "idle"
  /\ Fresh(c)
  /\ UNCHANGED <<shutting_down, gauges, pc, req, late, begun, ended>>

\* The signal watcher enters drain mode.
EnterDrain ==
  /\ ~shutting_down
  /\ shutting_down' = TRUE
  /\ UNCHANGED <<gauges, pc, conns, ctx>>

Step(c) ==
  \/ CheckShutdown(c) \/ AddInflight(c) \/ RejectOverload(c) \/ Authorize(c)
  \/ RunHandler(c) \/ LeaveInflight(c) \/ LogRequest(c)
  \/ HandleUpgrade(c) \/ WriteResponse(c) \/ DropUpgrade(c)

Next ==
  \/ \E c \in Conns : HandleUrl(c) \/ Handle(c) \/ Step(c) \/ Reconnect(c)
  \/ EnterDrain

Spec == Init /\ [][Next]_vars

\* A worker that has a request goes on with it; nothing is assumed about
\* clients and signals.
FairSpec == Spec /\ \A c \in Conns : WF_vars(Step(c))

-----------------------------------------------------------------------------
\* Every variable keeps its type; in_flight_requests is an int and may be
\* below zero.
TypeOK ==
  /\ max_inflight_requests \in Limits
  /\ shutting_down \in BOOLEAN
  /\ in_flight \in Int /\ total_requests \in Nat
  /\ overload_rejections \in Nat /\ shutdown_rejections \in Nat
  /\ pc \in [Conns -> Labels] /\ req \in [Conns -> Request]
  /\ home \in [Conns -> Workers]
  /\ counted \in [Conns -> BOOLEAN]
  /\ start \in [Conns -> {"epoch", "earlier", "own"}]
  /\ late \in [Conns -> BOOLEAN]
  /\ begun \in 0..MaxRequests
  /\ answered \in Nat /\ leaked \in Nat /\ twice \in Nat

\* README: "New business requests are rejected during shutdown": an order
\* request that arrives after drain mode was entered is neither counted as
\* in flight nor handled, however the watcher and the workers interleave.
LateRejected == \A c \in Conns :
  late[c] /\ req[c].route = "order" =>
    pc[c] \in {"check", "after", "log", "write"} /\ ~counted[c]

\* total_requests counts every request that is done with exactly once,
\* whichever middleware ends the chain: matched or not, served, refused or
\* dropped after a refusal.  Only requests without Host and upgrades that pass
\* the middlewares are not counted.
TotalAccounting ==
  total_requests =
    answered + Cardinality({c \in Conns : pc[c] = "write" /\ req[c].form # "hostless"})

\* README, http_request_duration_ms_*: "Total, count, average, and max request
\* duration", and "LoggingMiddleware records start time before the handler and
\* logs latency after completion": the time that is observed starts with the
\* request that is logged.
DurationMeasured == \A c \in Conns : pc[c] = "log" => start[c] = "own"

\* The order requests between the fetch_add and the fetch_sub of
\* LifecycleMiddleware.
InFlight == {c \in Conns :
  \/ pc[c] \in {"over", "auth", "handler"} /\ req[c].route = "order"
  \/ pc[c] = "after" /\ req[c].route = "order" /\ counted[c]}

\* README, in_flight_requests: "Current business requests being processed".
InFlightExact == in_flight = Cardinality(InFlight)

\* What in_flight_requests really is: the requests being processed, plus the
\* upgrades that were never subtracted, minus the subtractions made for
\* unmatched requests; exact when clients send neither.
GaugeDrift == in_flight = Cardinality(InFlight) + leaked - twice

\* The requests that have passed the limit.
Admitted == {c \in InFlight : pc[c] # "over"}

\* No more than max_inflight_requests order requests are let in at a time, but
\* for the drift: each leaked upgrade takes a place for good, each second
\* subtraction adds one.
AdmissionLimit ==
  Cardinality(Admitted) + leaked <= max_inflight_requests + twice

\* A worker runs one request at a time, so as many requests can be in flight
\* as there are workers; a limit of at least that number rejects nobody, until
\* leaked upgrades have used up the difference.
OverloadNeedsThreads ==
  /\ in_flight <= Cardinality(Workers) + leaked
  /\ Cardinality(Workers) + leaked <= max_inflight_requests => overload_rejections = 0

\* What holds of a request r at label l, n being counted_inflight.
RequestShape(l, r, n) ==
  /\ l \in {"check", "add", "over", "auth"} => r.route = "order"
  /\ l \in {"over", "auth"} => n
  /\ l \in {"check", "add"} => ~n
  /\ l = "handler" => r.route # "none" /\ (n <=> r.route = "order")
  /\ l = "after" /\ n => r.route \in {"order", "none"}

OneAtATime == \A c, d \in Conns :
  c # d /\ home[c] = home[d] => pc[c] = "idle" \/ pc[d] = "idle"

\* The inductive invariant behind the gauge and the limit: a worker runs one
\* connection at a time, the gauge counts the requests between fetch_add and
\* fetch_sub, and those above the limit never reach AuthMiddleware.
PipelineInv ==
  /\ \A c \in Conns : RequestShape(pc[c], req[c], counted[c])
  /\ OneAtATime
  /\ GaugeDrift
  /\ AdmissionLimit
  /\ Cardinality(Workers) + leaked <= max_inflight_requests =>
       overload_rejections = 0 /\ \A c \in Conns : pc[c] # "over"

\* The business of the server: the requests in flight, and those that have
\* found shutting_down false and are about to count themselves.
Business == InFlight \cup {c \in Conns : pc[c] = "add"}

\* README: "New business requests are rejected during shutdown": the check and
\* the fetch_add of LifecycleMiddleware are two steps, but once shutting_down
\* is set nothing joins the business of the server, neither a request that
\* arrives then nor one that had arrived and was not checked yet.
DrainShrinks == [][shutting_down => shutting_down' /\ Business' \subseteq Business]_vars

\* The drain ends: once shutting_down is set, in_flight_requests goes to its
\* drift (0 without upgrades and unmatched requests) and stays there, though
\* requests keep arriving.
Drained == shutting_down ~> [](in_flight = leaked - twice)
=============================================================================
