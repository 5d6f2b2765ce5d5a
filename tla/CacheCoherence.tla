--------------------------- MODULE CacheCoherence ---------------------------
(***************************************************************************)
(* When do reads through the Redis cache of OrderRoutes agree with the     *)
(* orders table?  The cache is filled by create_order alone, so what it    *)
(* holds is the order as it was created; payments and deletions have to    *)
(* remove it.  This module states what that achieves, the environment it   *)
(* needs, and the inductive invariant behind it.                           *)
(***************************************************************************)
EXTENDS OrderRoutes

\* Redis commands do not fail, the process is not restarted, order numbers
\* are unique, and clients learn of an order from the response of its
\* creation.
QuietEnvironment ==
  /\ ~RedisFaults /\ ~NumbersRepeat /\ ~ClientsGuess
  /\ "list" \notin Ops
  /\ MaxRestarts = 0

\* "State-changing operations invalidate cached order entries": a paid order
\* is in the cache only between the UPDATE and the DEL of a payment.
PaymentInvalidates == \A o \in OrderNo :
  db[o].status = "PAID" /\ Cached(o) =>
    \E w \in Workers : pc[w] \in {"p_count", "p_del"} /\ frame[w].no = o

\* A get that arrives after a payment (a deletion) was answered with 200 never
\* shows the order as pending (never shows it at all), although the cache
\* holds nothing but pending payloads.
ReadSees(l, f) ==
  l = "reply" /\ f.op = "get" /\ f.code = 200 =>
    /\ "paid" \in f.due => f.row.status = "PAID"
    /\ "deleted" \notin f.due
ReadsSeeAcks == \A w \in Workers : ReadSees(pc[w], frame[w])

\* test "Delete order removes from Redis and database": once no delete of a
\* known order is running, an order that is not in the table is not in Redis.
DeletedNotCached == \A o \in known :
  ~Exists(o) /\ (\A w \in Workers : pc[w] # "idle" => frame[w].no # o)
    => ~Cached(o)

-----------------------------------------------------------------------------
(* The inductive invariant *)

\* A handler that has created, or may still create, a row and a cache entry.
Creator(l, f) ==
  \/ l \in {"c_now", "c_insert", "c_count", "c_set"}
  \/ f.op = "create" /\ (l = "record" \/ (l = "reply" /\ f.code = 200))

\* A handler that works on an order a client has named.
User(l, f) ==
  /\ f.op \in {"get", "pay", "delete"}
  /\ l # "idle"
  /\ l = "reply" => f.code = 200

\* A handler of op past its write to Redis.
Invalidated(l, f, op) ==
  f.op = op /\ (l = "record" \/ (l = "reply" /\ f.code = 200))

\* What holds of a worker at label l with locals f.
WorkerInv(l, f) ==
  /\ f.op # "list"
  /\ Creator(l, f) => f.no \in generated \ known
  /\ User(l, f) => f.no \in known
  /\ l \in {"p_count", "p_del"} \/ Invalidated(l, f, "pay")
       => db[f.no].status # "PENDING"
  /\ l \in {"d_changes", "d_del"} \/ Invalidated(l, f, "delete")
       => ~Exists(f.no)
  /\ Invalidated(l, f, "pay") \/ Invalidated(l, f, "delete") => ~Cached(f.no)
  /\ User(l, f) /\ f.op = "get" => f.due \subseteq acked[f.no]
  /\ l = "record" /\ f.op = "get" /\ f.due # {} => f.row = Absent

\* What holds of an order number: what was paid or acknowledged is known to
\* clients, and what was acknowledged is out of the cache for good.
OrderInv(o) ==
  /\ db[o].status = "PAID" \/ acked[o] # {} => o \in known
  /\ ~Cached(o) => cache[o] = Absent
  /\ ~redisClient => ~Cached(o)
  /\ "paid" \in acked[o] => ~Cached(o) /\ db[o].status # "PENDING"
  /\ "deleted" \in acked[o] => ~Cached(o) /\ ~Exists(o)

\* No two creators hold the same number.
DistinctCreators == \A v, w \in Workers :
  v # w /\ Creator(pc[v], frame[v]) /\ Creator(pc[w], frame[w])
    => frame[v].no # frame[w].no

\* Coherence of the cache as an inductive invariant: a number is told to
\* clients only after its creator is past the SET, so nobody refills an entry
\* that a payment or deletion has removed.
CacheInv ==
  /\ \A w \in Workers : WorkerInv(pc[w], frame[w])
  /\ DistinctCreators
  /\ known \subseteq generated
  /\ \A o \in OrderNo : OrderInv(o)
  /\ PaymentInvalidates
  /\ ReadsSeeAcks
=============================================================================
