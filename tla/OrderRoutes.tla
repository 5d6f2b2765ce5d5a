---------------------------- MODULE OrderRoutes ----------------------------
(***************************************************************************)
(* The five order handlers of src/order_routes.cpp, run by the worker      *)
(* threads of the server over one shared SQLite connection and one Redis   *)
(* client.  A handler is a sequence of atomic steps, one per access to     *)
(* shared state (an SQLite call on the serialized connection, a Redis      *)
(* command, an atomic counter, the clock); steps of different workers      *)
(* interleave.                                                             *)
(*                                                                         *)
(* Data are abstracted: an amount is a member of Amounts, an order number  *)
(* is the pair <<second, random part>> that generate_order_no prints (the  *)
(* printing is injective while a second has ten digits), a cached payload  *)
(* is the row it was rendered from.                                        *)
(***************************************************************************)
EXTENDS Integers, FiniteSets

CONSTANTS
  Workers,        \* threads that run handlers
  RandParts,      \* values of rand() % 100000
  Amounts,        \* amounts that pass is_valid_amount
  Ops,            \* the operations clients send
  CacheTTL,       \* cache_ttl_seconds
  RedisFaults,    \* may a Redis command raise sw::redis::Error
  SqliteFaults,   \* may an SQLite prepare or step fail
  NumbersRepeat,  \* may generate_order_no return a number it returned before
  ClientsGuess,   \* may clients name orders no response has told them of
  MaxClock,       \* bound: seconds that pass
  MaxRequests,    \* bound: requests that are begun
  MaxRestarts     \* bound: times the process is killed and started again

AllOps == {"create", "get", "pay", "list", "delete"}

ASSUME ConstantsAssumption ==
  /\ IsFiniteSet(Workers) /\ IsFiniteSet(RandParts)
  /\ Amounts \subseteq Nat \ {0}
  /\ Ops \subseteq AllOps
  /\ CacheTTL \in Nat \ {0}
  /\ {RedisFaults, SqliteFaults, NumbersRepeat, ClientsGuess} \subseteq BOOLEAN
  /\ MaxClock \in Nat \ {0}
  /\ MaxRequests \in Nat
  /\ MaxRestarts \in Nat

OrderNo == (1..MaxClock) \X RandParts

\* A row of the orders table; Absent stands for no row (or no cache entry).
Row == [status : {"ABSENT", "PENDING", "PAID"}, amount : Amounts \cup {0},
        created_at : 0..MaxClock, paid_at : 0..MaxClock]

Absent == [status |-> "ABSENT", amount |-> 0, created_at |-> 0, paid_at |-> 0]

Pending(a, t) ==
  [status |-> "PENDING", amount |-> a, created_at |-> t, paid_at |-> 0]

VARIABLES
  clock,            \* time(nullptr), in seconds
  db,               \* the orders table
  changes,          \* what sqlite3_changes(db) returns: one per connection
  cache, expires,   \* the Redis entries and the second their TTL runs out
  redisClient,      \* redis != nullptr
  redis_available,
  metrics,          \* the atomic counters of metrics.h the handlers use
  pc, frame,        \* where each worker is in its handler, and its locals
  begun, restarts,  \* bounded by MaxRequests and MaxRestarts
  generated,        \* history: numbers generate_order_no has returned
  repeated,         \* history: has it returned one of them again
  known,            \* history: numbers that responses have told clients of
  acked,            \* history: changes of an order that got a 200 response
  removed           \* history: rows deleted minus rows found at start-up

table   == <<db, changes>>
redisDB == <<cache, expires>>
health  == <<redis_available, metrics>>
process == <<clock, redisClient, restarts, begun>>
history == <<generated, repeated, known, acked, removed>>
vars == <<process, table, redisDB, health, pc, frame, history>>

Counters == {"orders_created", "orders_paid", "cache_hits", "cache_misses",
             "redis_errors", "sqlite_errors"}

Labels == {"idle", "reply", "record",
           "c_now", "c_insert", "c_count", "c_set",
           "g_get", "g_select",
           "p_select", "p_now", "p_update", "p_count", "p_del",
           "l_prepare", "l_scan",
           "d_delete", "d_changes", "d_del"}

Codes == {0, 200, 400, 404, 500}
Filters == {"", "PENDING", "PAID"}
Facts == SUBSET {"paid", "deleted"}

\* The locals of a handler.  row is the order read or about to be cached, ok
\* the outcome of the last Redis command, code the HTTP status of the
\* response, todo the part of the table a list has still to scan, and due the
\* changes that had been acknowledged when the request arrived.
Frame == [op : AllOps \cup {"none"}, no : OrderNo \cup {<<0, 0>>}, row : Row,
          now : 0..MaxClock, ok : BOOLEAN, code : Codes, filter : Filters,
          todo : SUBSET OrderNo, listed : SUBSET OrderNo, due : Facts]

NoFrame == [op |-> "none", no |-> <<0, 0>>, row |-> Absent, now |-> 0,
            ok |-> FALSE, code |-> 0, filter |-> "", todo |-> {},
            listed |-> {}, due |-> {}]

Exists(o) == db[o].status # "ABSENT"
Cached(o) == cache[o].status # "ABSENT"

Init ==
  /\ clock = 1 /\ begun = 0 /\ restarts = 0
  /\ db = [o \in OrderNo |-> Absent] /\ changes = 0
  /\ cache = [o \in OrderNo |-> Absent] /\ expires = [o \in OrderNo |-> 0]
  /\ redisClient \in BOOLEAN /\ redis_available = redisClient
  /\ metrics = [c \in Counters |-> 0]
  /\ pc = [w \in Workers |-> "idle"] /\ frame = [w \in Workers |-> NoFrame]
  /\ generated = {} /\ repeated = FALSE /\ known = {}
  /\ acked = [o \in OrderNo |-> {}] /\ removed = 0

-----------------------------------------------------------------------------
\* Steps shared by the handlers

Goto(w, label, f) ==
  /\ pc' = [pc EXCEPT ![w] = label]
  /\ frame' = [frame EXCEPT ![w] = f]

\* The handler has its response; what it needed on the way there is dropped.
Reply(w, c) ==
  Goto(w, "reply", [frame[w] EXCEPT !.code = c, !.ok = FALSE, !.filter = "",
                                    !.todo = {}])

Count(c) == metrics' = [metrics EXCEPT ![c] = @ + 1]

\* The step touches nothing but the worker's own locals.
Local == UNCHANGED <<process, table, redisDB, health, history>>

\* A worker takes the next request; f holds what the request says.
Begin(w, label, f) ==
  /\ pc[w] = "idle"
  /\ f.op \in Ops
  /\ begun < MaxRequests
  /\ begun' = begun + 1
  /\ Goto(w, label, f)
  /\ UNCHANGED <<clock, redisClient, restarts, table, redisDB, health, known,
                 acked, removed>>

\* Order numbers a client can put into a request.
Named == IF ClientsGuess THEN OrderNo ELSE known

\* An SQLite prepare fails, or the step of an INSERT or UPDATE does:
\* record_sqlite_failure and a 500 response.  A write that fails may leave 0
\* in sqlite3_changes.
SqliteFails(w) ==
  /\ SqliteFaults
  /\ pc[w] \in {"c_insert", "g_select", "p_select", "p_update", "l_prepare",
                "d_delete"}
  /\ \/ changes' = changes
     \/ pc[w] \in {"c_insert", "p_update"} /\ changes' = 0
  /\ Count("sqlite_errors")
  /\ Reply(w, 500)
  /\ UNCHANGED <<process, db, redisDB, redis_available, generated, repeated,
                 known, acked, removed>>

\* Mutant: delete_order does not look at the result of its step.
SqliteStepFailsUnseen(w) ==
  /\ SqliteFaults
  /\ pc[w] \in {"g_select", "p_select", "d_delete", "l_scan"}
  /\ \/ changes' = changes
     \/ pc[w] = "d_delete" /\ changes' = 0
  /\ CASE pc[w] = "d_delete" -> Goto(w, "d_changes", frame[w])
       [] pc[w] = "l_scan"   -> Reply(w, 200)
       [] OTHER              -> Reply(w, 404)
  /\ UNCHANGED <<process, db, redisDB, health, generated, repeated, known,
                 acked, removed>>

\* The step of a SELECT or DELETE fails: the handlers take whatever is not
\* SQLITE_ROW (SQLITE_DONE for DELETE) for a missing order, and list_orders
\* for the end of the table; no counter is touched.
SqliteStepFails(w) ==
  /\ SqliteFaults
  /\ pc[w] \in {"g_select", "p_select", "d_delete", "l_scan"}
  /\ \/ changes' = changes
     \/ pc[w] = "d_delete" /\ changes' = 0
  /\ Reply(w, IF pc[w] = "l_scan" THEN 200 ELSE 404)
  /\ UNCHANGED <<process, db, redisDB, health, generated, repeated, known,
                 acked, removed>>

\* The helpers on Redis do nothing but count when there is no client.
NoRedisClient(w) ==
  /\ pc[w] \in {"c_set", "g_get", "p_del", "d_del"}
  /\ ~redisClient
  /\ Count("redis_errors")
  /\ redis_available' = FALSE
  /\ IF pc[w] = "g_get" THEN Goto(w, "g_select", frame[w]) ELSE Reply(w, 200)
  /\ UNCHANGED <<process, table, redisDB, history>>

\* Does a Redis command return or raise sw::redis::Error?
Outcomes == IF RedisFaults THEN BOOLEAN ELSE {TRUE}

\* record_redis_success or record_redis_failure after a Redis command, and
\* where the handler goes from there.  The counters and the flag of one outcome
\* are set together: nothing looks at them in between but /metrics.
RecordRedis(w) ==
  LET f   == frame[w]
      get == f.op = "get"
      hit == get /\ f.ok /\ f.row # Absent
      up  == (IF f.ok THEN {} ELSE {"redis_errors"})
               \cup (IF hit THEN {"cache_hits"} ELSE {})
               \cup (IF get /\ ~hit THEN {"cache_misses"} ELSE {})
  IN  /\ pc[w] = "record"
      /\ redis_available' = f.ok
      /\ metrics' = [c \in Counters |-> metrics[c] + (IF c \in up THEN 1 ELSE 0)]
      /\ IF get /\ ~hit THEN Goto(w, "g_select", [f EXCEPT !.ok = FALSE])
         ELSE Reply(w, 200)
      /\ UNCHANGED <<process, table, redisDB, history>>

\* The handler returns and the client reads the response.
Respond(w) ==
  LET f  == frame[w]
      ok == f.code = 200
  IN  /\ pc[w] = "reply"
      /\ known' = known \cup (CASE ok /\ f.op = "create" -> {f.no}
                                [] ok /\ f.op = "list"   -> f.listed
                                [] OTHER                 -> {})
      /\ acked' = CASE ok /\ f.op = "pay"    -> [acked EXCEPT ![f.no] = @ \cup {"paid"}]
                    [] ok /\ f.op = "delete" -> [acked EXCEPT ![f.no] = @ \cup {"deleted"}]
                    [] OTHER                 -> acked
      /\ Goto(w, "idle", NoFrame)
      /\ UNCHANGED <<process, table, redisDB, health, generated, repeated, removed>>

-----------------------------------------------------------------------------
\* create_order

\* The body passes the checks; generate_order_no reads the clock and rand().
CreateOrder(w) == \E a \in Amounts, r \in RandParts :
  LET o == <<clock, r>>
  IN  /\ NumbersRepeat \/ o \notin generated
      /\ Begin(w, "c_now", [NoFrame EXCEPT !.op = "create", !.no = o,
                                           !.row = Pending(a, 0)])
      /\ generated' = generated \cup {o}
      /\ repeated' = (repeated \/ o \in generated)

\* now = time(nullptr), a second reading of the clock
CreateStamp(w) ==
  /\ pc[w] = "c_now"
  /\ Goto(w, "c_insert", [frame[w] EXCEPT !.row.created_at = clock])
  /\ Local

CreateInsert(w) ==
  /\ pc[w] = "c_insert"
  /\ ~Exists(frame[w].no)
  /\ db' = [db EXCEPT ![frame[w].no] = frame[w].row]
  /\ changes' = 1
  /\ Goto(w, "c_count", frame[w])
  /\ UNCHANGED <<process, redisDB, health, history>>

\* Mutant: the order is counted before the result of the INSERT is known.
CreateConflictCounted(w) ==
  /\ pc[w] = "c_insert"
  /\ Exists(frame[w].no)
  /\ changes' = 0
  /\ Goto(w, "c_count", frame[w])
  /\ UNCHANGED <<process, db, redisDB, health, history>>

\* Mutant: INSERT OR REPLACE.
CreateConflictReplaced(w) ==
  /\ pc[w] = "c_insert"
  /\ Exists(frame[w].no)
  /\ db' = [db EXCEPT ![frame[w].no] = frame[w].row]
  /\ changes' = 1
  /\ Goto(w, "c_count", frame[w])
  /\ UNCHANGED <<process, redisDB, health, history>>

\* The primary key is taken: the step fails and nothing is written.
CreateConflict(w) ==
  /\ pc[w] = "c_insert"
  /\ Exists(frame[w].no)
  /\ changes' = 0
  /\ Count("sqlite_errors")
  /\ Reply(w, 500)
  /\ UNCHANGED <<process, db, redisDB, redis_available, generated, repeated,
                 known, acked, removed>>

CreateCount(w) ==
  /\ pc[w] = "c_count"
  /\ Count("orders_created")
  /\ Goto(w, "c_set", frame[w])
  /\ UNCHANGED <<process, table, redisDB, redis_available, history>>

\* Mutant: the TTL is given in milliseconds.
TryCacheOrderMillis(w) ==
  /\ pc[w] = "c_set"
  /\ redisClient
  /\ cache' = [cache EXCEPT ![frame[w].no] = frame[w].row]
  /\ expires' = [expires EXCEPT ![frame[w].no] = clock + 1000 * CacheTTL]
  /\ Goto(w, "record", [frame[w] EXCEPT !.ok = TRUE])
  /\ UNCHANGED <<process, table, health, history>>

\* Mutant: the payload is rendered with another reading of the clock.
TryCacheOrderStamped(w) ==
  /\ pc[w] = "c_set"
  /\ redisClient
  /\ cache' = [cache EXCEPT ![frame[w].no] = [frame[w].row EXCEPT !.created_at = clock]]
  /\ expires' = [expires EXCEPT ![frame[w].no] = clock + CacheTTL]
  /\ Goto(w, "record", [frame[w] EXCEPT !.ok = TRUE])
  /\ UNCHANGED <<process, table, health, history>>

\* SET order:<no> with a TTL.  A failed command may have been applied.
TryCacheOrder(w) ==
  /\ pc[w] = "c_set"
  /\ redisClient
  /\ \E ok \in Outcomes :
       /\ \/ /\ cache' = [cache EXCEPT ![frame[w].no] = frame[w].row]
             /\ expires' = [expires EXCEPT ![frame[w].no] = clock + CacheTTL]
          \/ ~ok /\ UNCHANGED redisDB
       /\ Goto(w, "record", [frame[w] EXCEPT !.ok = ok])
  /\ UNCHANGED <<process, table, health, history>>

-----------------------------------------------------------------------------
\* get_order

GetOrder(w) == \E o \in Named :
  /\ Begin(w, "g_get", [NoFrame EXCEPT !.op = "get", !.no = o,
                                       !.due = acked[o]])
  /\ UNCHANGED <<generated, repeated>>

TryGetCachedOrder(w) ==
  /\ pc[w] = "g_get"
  /\ redisClient
  /\ \E ok \in Outcomes :
       Goto(w, "record",
            [frame[w] EXCEPT !.ok = ok,
                             !.row = IF ok THEN cache[frame[w].no] ELSE Absent])
  /\ Local

\* Mutant: a miss fills the cache from the row.
GetSelectFills(w) ==
  LET o == frame[w].no
  IN  /\ pc[w] = "g_select"
      /\ Goto(w, "reply", [frame[w] EXCEPT !.row = db[o],
                                           !.code = IF Exists(o) THEN 200 ELSE 404])
      /\ cache' = [cache EXCEPT ![o] = IF redisClient THEN db[o] ELSE @]
      /\ expires' = [expires EXCEPT ![o] = IF redisClient THEN clock + CacheTTL ELSE @]
      /\ UNCHANGED <<process, table, health, history>>

\* The row is rendered into the response; the cache is not filled from it.
GetSelect(w) ==
  LET o == frame[w].no
  IN  /\ pc[w] = "g_select"
      /\ Goto(w, "reply", [frame[w] EXCEPT !.row = db[o],
                                           !.code = IF Exists(o) THEN 200 ELSE 404])
      /\ Local

-----------------------------------------------------------------------------
\* pay_order

PayOrder(w) == \E o \in Named :
  /\ Begin(w, "p_select", [NoFrame EXCEPT !.op = "pay", !.no = o])
  /\ UNCHANGED <<generated, repeated>>

PaySelect(w) ==
  LET o == frame[w].no
  IN  /\ pc[w] = "p_select"
      /\ CASE ~Exists(o)             -> Reply(w, 404)
           [] db[o].status = "PAID"  -> Reply(w, 400)
           [] OTHER -> Goto(w, "p_now", [frame[w] EXCEPT !.row = db[o]])
      /\ Local

\* Mutant: the UPDATE binds now before it is set.
PayStampMissing(w) ==
  /\ pc[w] = "p_now"
  /\ Goto(w, "p_update", frame[w])
  /\ Local

PayStamp(w) ==
  /\ pc[w] = "p_now"
  /\ Goto(w, "p_update", [frame[w] EXCEPT !.now = clock])
  /\ Local

\* Mutant: the SET clause leaves out the status.
PayUpdateTimeOnly(w) ==
  /\ pc[w] = "p_update"
  /\ db' = IF Exists(frame[w].no)
             THEN [db EXCEPT ![frame[w].no].paid_at = frame[w].now] ELSE db
  /\ changes' = IF Exists(frame[w].no) THEN 1 ELSE 0
  /\ Goto(w, "p_count", frame[w])
  /\ UNCHANGED <<process, redisDB, health, history>>

\* UPDATE ... WHERE order_no = ?: it does not look at the status again, and
\* succeeds whether or not the row is still there.
PayUpdate(w) ==
  LET o == frame[w].no
  IN  /\ pc[w] = "p_update"
      /\ db' = IF Exists(o) THEN [db EXCEPT ![o].status = "PAID",
                                            ![o].paid_at = frame[w].now]
                            ELSE db
      /\ changes' = IF Exists(o) THEN 1 ELSE 0
      /\ Goto(w, "p_count", frame[w])
      /\ UNCHANGED <<process, redisDB, health, history>>

\* Mutant: a deletion that has changed no row is tried again.
DeleteChangesRetried(w) ==
  /\ pc[w] = "d_changes"
  /\ Goto(w, IF changes = 0 THEN "d_delete" ELSE "d_del", frame[w])
  /\ Local

\* Mutant: the cached order is not invalidated.
PayCountReplies(w) ==
  /\ pc[w] = "p_count"
  /\ Count("orders_paid")
  /\ Reply(w, 200)
  /\ UNCHANGED <<process, table, redisDB, redis_available, history>>

PayCount(w) ==
  /\ pc[w] = "p_count"
  /\ Count("orders_paid")
  /\ Goto(w, "p_del", frame[w])
  /\ UNCHANGED <<process, table, redisDB, redis_available, history>>

\* Mutant: DEL of another key.
InvalidateWrongKey(w) ==
  /\ pc[w] \in {"p_del", "d_del"}
  /\ redisClient
  /\ Goto(w, "record", [frame[w] EXCEPT !.ok = TRUE])
  /\ UNCHANGED <<process, table, redisDB, health, history>>

\* DEL order:<no>, for pay_order and delete_order.
InvalidateCachedOrder(w) ==
  /\ pc[w] \in {"p_del", "d_del"}
  /\ redisClient
  /\ \E ok \in Outcomes :
       /\ \/ /\ cache' = [cache EXCEPT ![frame[w].no] = Absent]
             /\ expires' = [expires EXCEPT ![frame[w].no] = 0]
          \/ ~ok /\ UNCHANGED redisDB
       /\ Goto(w, "record", [frame[w] EXCEPT !.ok = ok])
  /\ UNCHANGED <<process, table, health, history>>

-----------------------------------------------------------------------------
\* create_order and pay_order refuse a body that is not JSON or lacks a valid
\* field (400); a body that is JSON but not a container makes has() throw,
\* which the router turns into a 500.
RefuseBody(w) == \E op \in {"create", "pay"}, c \in {400, 500} :
  /\ Begin(w, "reply", [NoFrame EXCEPT !.op = op, !.code = c])
  /\ UNCHANGED <<generated, repeated>>

-----------------------------------------------------------------------------
\* list_orders

ListOrders(w) == \E q \in Filters :
  /\ Begin(w, "l_prepare", [NoFrame EXCEPT !.op = "list", !.filter = q])
  /\ UNCHANGED <<generated, repeated>>

ListPrepare(w) ==
  /\ pc[w] = "l_prepare"
  /\ Goto(w, "l_scan", [frame[w] EXCEPT !.todo = OrderNo])
  /\ Local

\* One turn of the loop on sqlite3_step.  The cursor reads the table as it is
\* when it gets there, so each order number is looked at once, some time
\* during the scan.
ListStep(w) ==
  /\ pc[w] = "l_scan"
  /\ \E o \in frame[w].todo :
       LET shown == Exists(o) /\ frame[w].filter \in {"", db[o].status}
       IN  Goto(w, "l_scan",
                [frame[w] EXCEPT !.todo = @ \ {o},
                                 !.listed = IF shown THEN @ \cup {o} ELSE @])
  /\ Local

ListDone(w) ==
  /\ pc[w] = "l_scan"
  /\ frame[w].todo = {}
  /\ Reply(w, 200)
  /\ Local

-----------------------------------------------------------------------------
\* delete_order

DeleteOrder(w) == \E o \in Named :
  /\ Begin(w, "d_delete", [NoFrame EXCEPT !.op = "delete", !.no = o])
  /\ UNCHANGED <<generated, repeated>>

DeleteStep(w) ==
  LET o == frame[w].no
      n == IF Exists(o) THEN 1 ELSE 0
  IN  /\ pc[w] = "d_delete"
      /\ db' = [db EXCEPT ![o] = Absent]
      /\ changes' = n
      /\ removed' = removed + n
      /\ Goto(w, "d_changes", frame[w])
      /\ UNCHANGED <<process, redisDB, health, generated, repeated, known, acked>>

\* Mutant: the cached order is not invalidated.
DeleteChangesReplies(w) ==
  /\ pc[w] = "d_changes"
  /\ Reply(w, IF changes = 0 THEN 404 ELSE 200)
  /\ Local

\* sqlite3_changes(db) is the count of the last write on the connection,
\* whichever worker made it.
DeleteChanges(w) ==
  /\ pc[w] = "d_changes"
  /\ IF changes = 0 THEN Reply(w, 404) ELSE Goto(w, "d_del", frame[w])
  /\ Local

-----------------------------------------------------------------------------
\* The environment

\* A second passes.  time(nullptr) is wall time, which the code takes to be
\* monotone and so does the model: no step of the clock backwards is
\* considered.  An entry set at second t with TTL n is gone by t + n + 1.
Tick ==
  /\ clock < MaxClock
  /\ clock' = clock + 1
  /\ cache' = [o \in OrderNo |-> IF expires[o] < clock' THEN Absent ELSE cache[o]]
  /\ expires' = [o \in OrderNo |-> IF expires[o] < clock' THEN 0 ELSE expires[o]]
  /\ UNCHANGED <<redisClient, restarts, begun, table, health, pc, frame, history>>

\* An entry set within second t with TTL n may go from second t + n on.
Expire(o) ==
  /\ Cached(o)
  /\ expires[o] <= clock
  /\ cache' = [cache EXCEPT ![o] = Absent]
  /\ expires' = [expires EXCEPT ![o] = 0]
  /\ UNCHANGED <<process, table, health, pc, frame, history>>

\* The process dies, at any point of its handlers, and is started again: the
\* table and Redis keep their contents, everything else starts afresh.
Restart ==
  /\ restarts < MaxRestarts
  /\ restarts' = restarts + 1
  /\ changes' = 0
  /\ redisClient' \in BOOLEAN /\ redis_available' = redisClient'
  /\ metrics' = [c \in Counters |-> 0]
  /\ pc' = [w \in Workers |-> "idle"] /\ frame' = [w \in Workers |-> NoFrame]
  /\ removed' = -Cardinality({o \in OrderNo : Exists(o)})
  /\ UNCHANGED <<clock, db, redisDB, begun, generated, repeated, known, acked>>

\* The bounds are used up: no request is left to begin and none is running.
Finished ==
  /\ begun = MaxRequests
  /\ \A w \in Workers : pc[w] = "idle"
  /\ UNCHANGED vars

Arrive(w) ==
  CreateOrder(w) \/ GetOrder(w) \/ PayOrder(w) \/ RefuseBody(w)
    \/ ListOrders(w) \/ DeleteOrder(w)

Step(w) ==
  \/ CreateStamp(w) \/ CreateInsert(w) \/ CreateConflict(w) \/ CreateCount(w)
  \/ TryCacheOrder(w) \/ TryGetCachedOrder(w) \/ GetSelect(w)
  \/ PaySelect(w) \/ PayStamp(w) \/ PayUpdate(w) \/ PayCount(w)
  \/ InvalidateCachedOrder(w) \/ ListPrepare(w) \/ ListStep(w) \/ ListDone(w)
  \/ DeleteStep(w) \/ DeleteChanges(w)
  \/ NoRedisClient(w) \/ RecordRedis(w) \/ Respond(w)
  \/ SqliteFails(w) \/ SqliteStepFails(w)

Next ==
  \/ \E w \in Workers : Arrive(w) \/ Step(w)
  \/ Tick
  \/ \E o \in OrderNo : Expire(o)
  \/ Restart
  \/ Finished

Spec == Init /\ [][Next]_vars

\* A worker inside a handler is scheduled and its calls to SQLite and Redis
\* return; nothing else is assumed to happen.
FairSpec == Spec /\ \A w \in Workers : WF_vars(Step(w))

-----------------------------------------------------------------------------
(* Properties of every environment *)

\* Every variable keeps its type; in particular a handler is always at one of
\* the labels above, with a response code once it has finished.
TypeOK ==
  /\ clock \in 1..MaxClock
  /\ db \in [OrderNo -> Row] /\ changes \in {0, 1}
  /\ cache \in [OrderNo -> Row]
  /\ expires \in [OrderNo -> 0..(MaxClock + CacheTTL)]
  /\ redisClient \in BOOLEAN /\ redis_available \in BOOLEAN
  /\ metrics \in [Counters -> Nat]
  /\ pc \in [Workers -> Labels] /\ frame \in [Workers -> Frame]
  /\ begun \in 0..MaxRequests /\ restarts \in 0..MaxRestarts
  /\ generated \subseteq OrderNo /\ known \subseteq OrderNo
  /\ repeated \in BOOLEAN
  /\ acked \in [OrderNo -> Facts]
  /\ removed \in Int

\* The orders table implements the ledger under every interleaving, fault and
\* restart: colliding order numbers never overwrite an order, amounts and
\* creation times never change, and no late step of a handler turns a paid
\* order back into a pending one or brings a deleted one back.
Ledger == INSTANCE OrderLedger WITH
  Times <- 1..MaxClock,
  ledger <- [o \in OrderNo |-> [status |-> db[o].status,
                                amount |-> db[o].amount,
                                created_at |-> db[o].created_at]]
LedgerSpec == Ledger!Spec

\* orders_created agrees with the table: it is the number of rows there and
\* rows deleted since the process started, but for the workers that have
\* inserted a row and not yet reached the fetch_add.
CreatedAccounting ==
  metrics["orders_created"] + Cardinality({w \in Workers : pc[w] = "c_count"})
    = Cardinality({o \in OrderNo : Exists(o)}) + removed

\* Every request gets its response: no handler is stuck half-way, whatever
\* the other workers do, so every worker is always free again later.
EveryRequestAnswered == \A w \in Workers : []<>(pc[w] = "idle")

-----------------------------------------------------------------------------
(* Properties that hold as long as generate_order_no has not repeated itself *)

\* A cached payload differs from the row of its order in nothing but what a
\* payment changes, even when the SET of create_order comes late or Redis
\* loses a DEL.
CachedMatchesRow == ~repeated => \A o \in OrderNo :
  Cached(o) /\ Exists(o) =>
    /\ cache[o].status = "PENDING"
    /\ cache[o].amount = db[o].amount
    /\ cache[o].created_at = db[o].created_at

\* The times of an order are in order although the handlers read the clock
\* in separate calls: number, then created_at, then paid_at; and paid_at is 0
\* (rendered as null) exactly for the orders that are not paid.  This is for
\* a clock that is never set back.
TimesOrdered == ~repeated => \A o \in OrderNo : Exists(o) =>
  /\ o[1] <= db[o].created_at
  /\ db[o].status = "PAID" => db[o].created_at <= db[o].paid_at
  /\ db[o].status = "PENDING" => db[o].paid_at = 0

\* A payment that was answered with 200 is never lost: from then on the order
\* is paid, or has been deleted, across faults and restarts.
PaymentDurable == ~repeated => \A o \in OrderNo :
  "paid" \in acked[o] => db[o].status # "PENDING"

\* A deletion that was answered with 200 has happened and lasts, although
\* delete_order reads sqlite3_changes in a call of its own, when it may be the
\* count of another worker's write, and although the INSERT of the order may
\* be in flight.  This is for clients that do not guess order numbers.
DeletionDurable == ~repeated => \A o \in OrderNo :
  "deleted" \in acked[o] => ~Exists(o)

\* A handler of create_order may still set the entry of o.
Creating(o) == \E w \in Workers :
  pc[w] \in {"c_now", "c_insert", "c_count", "c_set"} /\ frame[w].no = o

\* An entry is set by the creation of its order and by nothing later: no read,
\* payment or deletion renews it, and an entry that is gone stays away.  So an
\* entry that a lost DEL has left behind lives no longer than CacheTTL seconds
\* from its creation.
NeverRefilled == [][~repeated' => \A o \in generated : ~Creating(o) =>
  /\ ~Creating(o)'
  /\ Cached(o)' => cache'[o] = cache[o] /\ expires'[o] = expires[o]]_vars

-----------------------------------------------------------------------------
(* What the documentation says of the metrics and responses *)

\* README, orders_paid: "Orders marked as paid".  A payment that goes on to
\* be counted and answered with 200 has turned its pending order into a paid
\* one.
PayMarksOrder == [][\A w \in Workers :
  LET o == frame[w].no
  IN  pc[w] = "p_update" /\ pc'[w] = "p_count" =>
        db[o].status = "PENDING" /\ db'[o].status = "PAID"]_vars
=============================================================================
