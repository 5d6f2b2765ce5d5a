----------------------- MODULE CacheCoherence_proofs -----------------------
(***************************************************************************)
(* In a quiet environment reads through the cache see every acknowledged   *)
(* payment and deletion, for any number of workers, orders and requests.   *)
(***************************************************************************)
EXTENDS CacheCoherence, OrderRoutes_proofs

\* Known orders change in one direction only: out of the cache, out of the
\* table, out of pending; and what clients know and were told stays.
Stable ==
  /\ known \subseteq known' /\ generated \subseteq generated'
  /\ \A o \in OrderNo : acked[o] \subseteq acked'[o]
  /\ \A o \in known : /\ ~Cached(o) => ~Cached(o)'
                      /\ ~Exists(o) => ~Exists(o)'
                      /\ db[o].status # "PENDING" => db'[o].status # "PENDING"

\* What the invariant says of a worker that does not move stays true in a
\* stable step, if the step does not tell clients of the order it creates.
LEMMA OthersKept ==
  ASSUME TypeInv, CacheInv, Stable, NEW v \in Workers,
         pc'[v] = pc[v], frame'[v] = frame[v],
         Creator(pc[v], frame[v]) => frame[v].no \notin known'
  PROVE  WorkerInv(pc[v], frame[v])'
<1>. DEFINE l == pc[v]
            f == frame[v]
<1>1. WorkerInv(l, f) /\ FrameOK(l, f) /\ f \in Frame /\ known \subseteq OrderNo
  BY Zenon DEF CacheInv, TypeInv, ControlInv, DataTypeOK
<1>2. User(l, f) => f.no \in known
  BY Zenon, <1>1 DEF WorkerInv
<1>3. l \in {"p_count", "p_del"} \/ Invalidated(l, f, "pay") => f.no \in known
  BY Zenon, <1>1, <1>2 DEF User, Invalidated, FrameOK
<1>4. l \in {"d_changes", "d_del"} \/ Invalidated(l, f, "delete") => f.no \in known
  BY Zenon, <1>1, <1>2 DEF User, Invalidated, FrameOK
<1>5. /\ f.op # "list"
      /\ Creator(l, f) => f.no \in generated' \ known'
      /\ User(l, f) => f.no \in known'
      /\ l \in {"p_count", "p_del"} \/ Invalidated(l, f, "pay")
           => db'[f.no].status # "PENDING"
      /\ l \in {"d_changes", "d_del"} \/ Invalidated(l, f, "delete") => ~Exists(f.no)'
      /\ Invalidated(l, f, "pay") \/ Invalidated(l, f, "delete") => ~Cached(f.no)'
      /\ User(l, f) /\ f.op = "get" => f.due \subseteq acked'[f.no]
      /\ l = "record" /\ f.op = "get" /\ f.due # {} => f.row = Absent
  BY Zenon, <1>1, <1>2, <1>3, <1>4 DEF WorkerInv, Stable, Exists, Cached
<1>. QED  BY ZenonT(30), <1>5 DEF WorkerInv, Creator, User, Invalidated, Exists, Cached

\* A step of worker w keeps the invariant if it is stable and keeps what the
\* invariant says of w and of the orders.
LEMMA StepKept ==
  ASSUME TypeInv, CacheInv, Stable, NEW w \in Workers, Moves(w),
         WorkerInv(pc[w], frame[w])',
         \A v \in Workers \ {w} : Creator(pc[v], frame[v]) =>
            frame[v].no \notin known' /\ (Creator(pc[w], frame[w])' => frame[v].no # frame'[w].no),
         known' \subseteq generated',
         \A o \in OrderNo : OrderInv(o)',
         PaymentInvalidates',
         ReadSees(pc[w], frame[w])'
  PROVE  CacheInv'
<1>1. ASSUME NEW v \in Workers PROVE WorkerInv(pc[v], frame[v])' /\ ReadSees(pc[v], frame[v])'
  <2>1. CASE v = w
    BY Zenon, <2>1
  <2>2. CASE v # w
    <3>1. pc'[v] = pc[v] /\ frame'[v] = frame[v]
      BY Zenon, <2>2 DEF Moves
    <3>2. WorkerInv(pc[v], frame[v])'
      BY Zenon, <2>2, <3>1, OthersKept
    <3>3. ReadSees(pc[v], frame[v])
      BY Zenon DEF CacheInv, ReadsSeeAcks
    <3>4. ReadSees(pc[v], frame[v])'
      BY Zenon, <3>1, <3>3 DEF ReadSees
    <3>. QED  BY Zenon, <3>2, <3>4
  <2>. QED  BY Zenon, <2>1, <2>2
<1>2. DistinctCreators'
  <2>. SUFFICES ASSUME NEW u \in Workers, NEW v \in Workers, u # v,
                       Creator(pc[u], frame[u])', Creator(pc[v], frame[v])'
                PROVE  frame'[u].no # frame'[v].no
    BY Zenon DEF DistinctCreators
  <2>1. CASE u = w
    <3>1. pc'[v] = pc[v] /\ frame'[v] = frame[v]
      BY Zenon, <2>1 DEF Moves
    <3>2. Creator(pc[v], frame[v])
      BY Zenon, <3>1 DEF Creator
    <3>. QED  BY Zenon, <2>1, <3>1, <3>2
  <2>2. CASE v = w
    <3>1. pc'[u] = pc[u] /\ frame'[u] = frame[u]
      BY Zenon, <2>2 DEF Moves
    <3>2. Creator(pc[u], frame[u])
      BY Zenon, <3>1 DEF Creator
    <3>. QED  BY Zenon, <2>2, <3>1, <3>2
  <2>3. CASE u # w /\ v # w
    <3>1. pc'[u] = pc[u] /\ frame'[u] = frame[u] /\ pc'[v] = pc[v] /\ frame'[v] = frame[v]
      BY Zenon, <2>3 DEF Moves
    <3>2. Creator(pc[u], frame[u]) /\ Creator(pc[v], frame[v])
      BY ZenonT(30), <3>1 DEF Creator
    <3>. QED  BY Zenon, <3>1, <3>2 DEF CacheInv, DistinctCreators
  <2>. QED  BY Zenon, <2>1, <2>2, <2>3
<1>. QED  BY Zenon, <1>1, <1>2 DEF CacheInv, ReadsSeeAcks

-----------------------------------------------------------------------------
\* Steps that change nothing the invariant speaks of but the worker's locals.

shared == <<db, cache, redisClient, known, generated, acked>>

SameOrder(f, g) == f.op = g.op /\ f.no = g.no /\ f.due = g.due

\* Such a step keeps the invariant if it keeps what is said of its worker.
LEMMA LocalKept ==
  ASSUME TypeInv, CacheInv, NEW w \in Workers, Moves(w), UNCHANGED shared,
         SameOrder(frame'[w], frame[w]),
         WorkerInv(pc[w], frame[w])',
         Creator(pc[w], frame[w])' => Creator(pc[w], frame[w]),
         pc[w] \in {"p_count", "p_del"} =>
           ~Cached(frame[w].no) \/ pc'[w] \in {"p_count", "p_del"},
         ReadSees(pc[w], frame[w])'
  PROVE  CacheInv'
<1>1. Stable
  BY Zenon DEF Stable, shared, Cached, Exists
<1>2. known' \subseteq generated'
  BY Zenon DEF CacheInv, shared
<1>3. ASSUME NEW o \in OrderNo PROVE OrderInv(o)'
  <2>1. OrderInv(o)
    BY Zenon DEF CacheInv
  <2>. QED  BY Zenon, <2>1 DEF OrderInv, shared, Cached, Exists
<1>4. ASSUME NEW v \in Workers \ {w}, Creator(pc[v], frame[v])
      PROVE  frame[v].no \notin known' /\ (Creator(pc[w], frame[w])' => frame[v].no # frame'[w].no)
  <2>1. WorkerInv(pc[v], frame[v])
    BY Zenon DEF CacheInv
  <2>2. frame[v].no \notin known
    BY Zenon, <1>4, <2>1 DEF WorkerInv
  <2>3. Creator(pc[w], frame[w]) => frame[v].no # frame[w].no
    BY Zenon, <1>4 DEF CacheInv, DistinctCreators
  <2>. QED  BY Zenon, <2>2, <2>3 DEF SameOrder, shared
<1>5. PaymentInvalidates'
  <2>. SUFFICES ASSUME NEW o \in OrderNo, db'[o].status = "PAID", Cached(o)'
                PROVE  \E v \in Workers : pc'[v] \in {"p_count", "p_del"} /\ frame'[v].no = o
    BY Zenon DEF PaymentInvalidates
  <2>1. db[o].status = "PAID" /\ Cached(o)
    BY Zenon DEF shared, Cached
  <2>2. PICK v \in Workers : pc[v] \in {"p_count", "p_del"} /\ frame[v].no = o
    BY Zenon, <2>1 DEF CacheInv, PaymentInvalidates
  <2>3. CASE v = w
    BY Zenon, <2>1, <2>2, <2>3 DEF SameOrder
  <2>4. CASE v # w
    BY Zenon, <2>2, <2>4 DEF Moves
  <2>. QED  BY Zenon, <2>3, <2>4
<1>. QED  BY Zenon, <1>1, <1>2, <1>3, <1>4, <1>5, StepKept

\* The steps that only look at shared state, or count, keep the invariant.
LEMMA LocalSteps ==
  ASSUME QuietEnvironment, TypeInv, CacheInv, NEW w \in Workers, LocalStep(w)
  PROVE  CacheInv'
<1>1. /\ frame[w] \in Frame /\ FrameOK(pc[w], frame[w])
      /\ WorkerInv(pc[w], frame[w])
  BY Zenon DEF TypeInv, ControlInv, CacheInv
<1>2. frame[w].op # "list"
  BY Zenon, <1>1 DEF WorkerInv
<1>3. ~ListPrepare(w) /\ ~ListStep(w) /\ ~ListDone(w)
  BY Zenon, <1>1, <1>2 DEF FrameOK, ListPrepare, ListStep, ListDone
<1>. DEFINE Kept == /\ Moves(w) /\ UNCHANGED shared
                    /\ SameOrder(frame'[w], frame[w])
                    /\ WorkerInv(pc[w], frame[w])'
                    /\ Creator(pc[w], frame[w])' => Creator(pc[w], frame[w])
                    /\ pc[w] \in {"p_count", "p_del"} =>
                         ~Cached(frame[w].no) \/ pc'[w] \in {"p_count", "p_del"}
                    /\ ReadSees(pc[w], frame[w])'
<1>. SUFFICES Kept
  BY Zenon, LocalKept
<1>4. CASE CreateStamp(w)
  <2>1. Moves(w) /\ pc'[w] = "c_insert" /\ frame'[w] = [frame[w] EXCEPT !.row.created_at = clock]
    BY Zenon, <1>4 DEF CreateStamp, Goto, Moves, TypeInv, ControlInv
  <2>2. SameOrder(frame'[w], frame[w])
    BY Zenon, <1>1, <2>1 DEF Frame, SameOrder
  <2>3. UNCHANGED shared /\ pc[w] = "c_now"
    BY ZenonT(30), <1>4 DEF CreateStamp, Local, shared, table, redisDB, process, history
  <2>. QED  BY Zenon, <1>1, <2>1, <2>2, <2>3
            DEF WorkerInv, Creator, User, Invalidated, SameOrder, shared, ReadSees, FrameOK
<1>5. CASE CreateConflict(w) \/ SqliteFails(w) \/ SqliteStepFails(w)
  <2>1. PICK c \in {404, 500} : Reply(w, c)
    BY ZenonT(30), <1>1, <1>2, <1>5 DEF CreateConflict, SqliteFails, SqliteStepFails, FrameOK
  <2>2. UNCHANGED shared /\ pc[w] \notin {"p_count", "p_del"}
    BY Zenon, <1>5 DEF CreateConflict, SqliteFails, SqliteStepFails, shared, table, redisDB, process
  <2>3. /\ Moves(w) /\ pc'[w] = "reply" /\ SameOrder(frame'[w], frame[w])
        /\ frame'[w].code # 200
    BY <2>1, ReplyMoves, RefusalCodes DEF SameOrder
  <2>. QED  BY ZenonT(30), <1>1, <2>2, <2>3
            DEF WorkerInv, Creator, User, Invalidated, SameOrder, shared, ReadSees
<1>6. CASE CreateCount(w) \/ PayCount(w)
  <2>1. /\ Moves(w) /\ frame'[w] = frame[w]
        /\ \/ pc[w] = "c_count" /\ pc'[w] = "c_set"
           \/ pc[w] = "p_count" /\ pc'[w] = "p_del"
    BY Zenon, <1>6 DEF CreateCount, PayCount, Goto, Moves, TypeInv, ControlInv
  <2>2. UNCHANGED shared
    BY Zenon, <1>6 DEF CreateCount, PayCount, shared, table, redisDB, process, history
  <2>. QED  BY ZenonT(60), <1>1, <2>1, <2>2
            DEF WorkerInv, Creator, User, Invalidated, SameOrder, shared, ReadSees, FrameOK, Exists, Cached
<1>7. CASE TryGetCachedOrder(w)
  <2>1. PICK ok \in Outcomes :
          Goto(w, "record", [frame[w] EXCEPT !.ok = ok,
                               !.row = IF ok THEN cache[frame[w].no] ELSE Absent])
    BY Zenon, <1>7 DEF TryGetCachedOrder
  <2>2. ok
    BY Zenon, <2>1 DEF Outcomes, QuietEnvironment
  <2>3. /\ Moves(w) /\ pc'[w] = "record"
        /\ frame'[w] = [frame[w] EXCEPT !.ok = ok,
                          !.row = IF ok THEN cache[frame[w].no] ELSE Absent]
    BY Zenon, <2>1 DEF Goto, Moves, TypeInv, ControlInv
  <2>4. SameOrder(frame'[w], frame[w]) /\ frame'[w].row = cache[frame[w].no]
    BY Zenon, <1>1, <2>2, <2>3 DEF Frame, SameOrder
  <2>5. UNCHANGED shared /\ pc[w] = "g_get"
    BY Zenon, <1>7 DEF TryGetCachedOrder, Local, shared, table, redisDB, process, history
  <2>6. frame[w].op = "get" /\ frame[w].no \in OrderNo
    BY Zenon, <1>1, <2>5 DEF FrameOK
  <2>7. frame[w].due # {} => cache[frame[w].no] = Absent
    <3>1. OrderInv(frame[w].no) /\ frame[w].due \in Facts /\ frame[w].due \subseteq acked[frame[w].no]
      BY Zenon, <1>1, <2>5, <2>6 DEF CacheInv, WorkerInv, User, Frame
    <3>. QED  BY Zenon, <3>1 DEF OrderInv, Facts
  <2>. QED  BY Zenon, <1>1, <2>3, <2>4, <2>5, <2>6, <2>7
            DEF WorkerInv, Creator, User, Invalidated, SameOrder, shared, ReadSees, Cached
<1>8. CASE GetSelect(w)
  <2>1. /\ Moves(w) /\ pc'[w] = "reply"
        /\ frame'[w] = [frame[w] EXCEPT !.row = db[frame[w].no],
                          !.code = IF Exists(frame[w].no) THEN 200 ELSE 404]
    BY Zenon, <1>8 DEF GetSelect, Goto, Moves, TypeInv, ControlInv
  <2>2. /\ SameOrder(frame'[w], frame[w]) /\ frame'[w].row = db[frame[w].no]
        /\ frame'[w].code = 200 => Exists(frame[w].no)
    BY <1>1, <2>1, RefusalCodes DEF Frame, SameOrder
  <2>3. UNCHANGED shared /\ pc[w] = "g_select"
    BY Zenon, <1>8 DEF GetSelect, Local, shared, table, redisDB, process, history
  <2>4. frame[w].op = "get" /\ frame[w].no \in OrderNo
    BY Zenon, <1>1, <2>3 DEF FrameOK
  <2>5. /\ "paid" \in frame[w].due => db[frame[w].no].status # "PENDING"
        /\ "deleted" \in frame[w].due => ~Exists(frame[w].no)
    <3>1. OrderInv(frame[w].no) /\ frame[w].due \subseteq acked[frame[w].no]
      BY Zenon, <1>1, <2>3, <2>4 DEF CacheInv, WorkerInv, User
    <3>. QED  BY ZenonT(30), <3>1 DEF OrderInv
  <2>6. db[frame[w].no].status \in {"ABSENT", "PENDING", "PAID"}
    BY Zenon, <2>4 DEF TypeInv, DataTypeOK, Row
  <2>7. ReadSees(pc[w], frame[w])'
    BY Zenon, <2>1, <2>2, <2>5, <2>6 DEF ReadSees, SameOrder, Exists
  <2>. QED  BY Zenon, <1>1, <2>1, <2>2, <2>3, <2>4, <2>7
            DEF WorkerInv, Creator, User, Invalidated, SameOrder, shared
<1>9. CASE PaySelect(w)
  <2>1. UNCHANGED shared /\ pc[w] = "p_select"
    BY ZenonT(30), <1>9 DEF PaySelect, Local, shared, table, redisDB, process, history
  <2>2. CASE \E c \in {400, 404} : Reply(w, c)
    <3>1. PICK c \in {400, 404} : Reply(w, c)
      BY Zenon, <2>2
    <3>2. /\ Moves(w) /\ pc'[w] = "reply" /\ SameOrder(frame'[w], frame[w])
          /\ frame'[w].code # 200
      BY <3>1, ReplyMoves, RefusalCodes DEF SameOrder
    <3>. QED  BY Zenon, <1>1, <2>1, <3>2
              DEF WorkerInv, Creator, User, Invalidated, SameOrder, shared, ReadSees
  <2>3. CASE Goto(w, "p_now", [frame[w] EXCEPT !.row = db[frame[w].no]])
    <3>1. /\ Moves(w) /\ pc'[w] = "p_now"
          /\ frame'[w] = [frame[w] EXCEPT !.row = db[frame[w].no]]
      BY Zenon, <2>3 DEF Goto, Moves, TypeInv, ControlInv
    <3>2. SameOrder(frame'[w], frame[w])
      BY Zenon, <1>1, <3>1 DEF Frame, SameOrder
    <3>. QED  BY Zenon, <1>1, <2>1, <3>1, <3>2
              DEF WorkerInv, Creator, User, Invalidated, SameOrder, shared, ReadSees, FrameOK
  <2>. QED  BY ZenonT(30), <1>9, <2>2, <2>3 DEF PaySelect
<1>10. CASE PayStamp(w)
  <2>1. Moves(w) /\ pc'[w] = "p_update" /\ frame'[w] = [frame[w] EXCEPT !.now = clock]
    BY Zenon, <1>10 DEF PayStamp, Goto, Moves, TypeInv, ControlInv
  <2>2. SameOrder(frame'[w], frame[w])
    BY Zenon, <1>1, <2>1 DEF Frame, SameOrder
  <2>3. UNCHANGED shared /\ pc[w] = "p_now"
    BY ZenonT(30), <1>10 DEF PayStamp, Local, shared, table, redisDB, process, history
  <2>. QED  BY Zenon, <1>1, <2>1, <2>2, <2>3
            DEF WorkerInv, Creator, User, Invalidated, SameOrder, shared, ReadSees, FrameOK
<1>11. CASE DeleteChanges(w)
  <2>1. UNCHANGED shared /\ pc[w] = "d_changes"
    BY Zenon, <1>11 DEF DeleteChanges, Local, shared, table, redisDB, process, history
  <2>2. /\ Moves(w) /\ SameOrder(frame'[w], frame[w])
        /\ pc'[w] = "d_del" \/ (pc'[w] = "reply" /\ frame'[w].code # 200)
    <3>1. CASE Reply(w, 404)
      <4>1. /\ Moves(w) /\ pc'[w] = "reply" /\ frame'[w].code = 404
            /\ frame'[w].op = frame[w].op /\ frame'[w].no = frame[w].no
            /\ frame'[w].due = frame[w].due
        BY <3>1, ReplyMoves
      <4>2. frame'[w].code # 200
        BY <4>1, RefusalCodes
      <4>. QED  BY Zenon, <4>1, <4>2 DEF SameOrder
    <3>2. CASE Goto(w, "d_del", frame[w])
      BY <3>2, GotoMoves DEF SameOrder
    <3>. QED  BY Zenon, <1>11, <3>1, <3>2 DEF DeleteChanges
  <2>. QED  BY ZenonT(30), <1>1, <2>1, <2>2
            DEF WorkerInv, Creator, User, Invalidated, SameOrder, shared, ReadSees, FrameOK, Exists
<1>12. CASE NoRedisClient(w)
  <2>1. /\ UNCHANGED shared /\ ~redisClient
        /\ pc[w] \in {"c_set", "g_get", "p_del", "d_del"}
    BY Zenon, <1>12 DEF NoRedisClient, shared, table, redisDB, process, history
  <2>2. ~Cached(frame[w].no)
    BY Zenon, <1>1, <2>1 DEF CacheInv, OrderInv, FrameOK
  <2>3. /\ Moves(w) /\ SameOrder(frame'[w], frame[w])
        /\ IF pc[w] = "g_get" THEN pc'[w] = "g_select" ELSE pc'[w] = "reply"
    <3>1. CASE pc[w] = "g_get"
      <4>1. Goto(w, "g_select", frame[w])
        BY Zenon, <1>12, <3>1 DEF NoRedisClient
      <4>. QED  BY Zenon, <3>1, <4>1 DEF Goto, Moves, TypeInv, ControlInv, SameOrder
    <3>2. CASE pc[w] # "g_get"
      <4>1. Reply(w, 200)
        BY ZenonT(30), <1>12, <3>2 DEF NoRedisClient
      <4>. QED  BY Zenon, <3>2, <4>1, ReplyMoves DEF SameOrder
    <3>. QED  BY Zenon, <3>1, <3>2
  <2>. QED  BY ZenonT(60), <1>1, <2>1, <2>2, <2>3
            DEF WorkerInv, Creator, User, Invalidated, SameOrder, shared, ReadSees, FrameOK, Exists, Cached
<1>13. CASE RecordRedis(w)
  <2>1. UNCHANGED shared /\ pc[w] = "record"
    BY Zenon, <1>13 DEF RecordRedis, shared, table, redisDB, process, history
  <2>2. CASE Goto(w, "g_select", [frame[w] EXCEPT !.ok = FALSE]) /\ frame[w].op = "get"
    <3>0. Moves(w) /\ pc'[w] = "g_select" /\ frame'[w] = [frame[w] EXCEPT !.ok = FALSE]
      BY Zenon, <2>2 DEF Goto, Moves, TypeInv, ControlInv
    <3>1. Moves(w) /\ pc'[w] = "g_select" /\ SameOrder(frame'[w], frame[w])
      BY Zenon, <1>1, <3>0 DEF SameOrder, Frame
    <3>. QED  BY Zenon, <1>1, <2>1, <2>2, <3>1
              DEF WorkerInv, Creator, User, Invalidated, SameOrder, shared, ReadSees
  <2>3. CASE Reply(w, 200) /\ (frame[w].op = "get" => frame[w].row # Absent)
    <3>1. /\ Moves(w) /\ pc'[w] = "reply" /\ SameOrder(frame'[w], frame[w])
          /\ frame'[w].code = 200
      BY ZenonT(30), <2>3, ReplyMoves DEF SameOrder
    <3>2. frame[w].op = "get" => frame[w].due = {}
      BY Zenon, <1>1, <2>1, <2>3 DEF WorkerInv
    <3>. QED  BY ZenonT(60), <1>1, <2>1, <3>1, <3>2
              DEF WorkerInv, Creator, User, Invalidated, SameOrder, shared, ReadSees, Exists, Cached
  <2>. QED  BY ZenonT(30), <1>13, <2>2, <2>3 DEF RecordRedis
<1>. QED  BY Zenon, <1>3, <1>4, <1>5, <1>6, <1>7, <1>8, <1>9, <1>10, <1>11, <1>12, <1>13 DEF LocalStep

-----------------------------------------------------------------------------
\* Steps that write the table, the cache or the history.

\* A creator's number is its own: not known, and no other creator's.
LEMMA CreatorAlone ==
  ASSUME TypeInv, CacheInv, NEW w \in Workers, Creator(pc[w], frame[w])
  PROVE  /\ frame[w].no \in generated \ known
         /\ \A v \in Workers \ {w} : Creator(pc[v], frame[v]) =>
              frame[v].no \notin known /\ frame[v].no # frame[w].no
<1>1. WorkerInv(pc[w], frame[w])
  BY ZenonT(30) DEF CacheInv
<1>2. ASSUME NEW v \in Workers \ {w}, Creator(pc[v], frame[v])
      PROVE  frame[v].no \notin known /\ frame[v].no # frame[w].no
  <2>1. WorkerInv(pc[v], frame[v])
    BY Zenon DEF CacheInv
  <2>. QED  BY Zenon, <1>2, <2>1 DEF WorkerInv, CacheInv, DistinctCreators
<1>. QED  BY Zenon, <1>1, <1>2 DEF WorkerInv

\* Clients do not know a number whose creation has not been answered.
LEMMA CreatorsUnknown ==
  ASSUME TypeInv, CacheInv, NEW v \in Workers, Creator(pc[v], frame[v])
  PROVE  frame[v].no \notin known
<1>1. WorkerInv(pc[v], frame[v])
  BY Zenon DEF CacheInv
<1>. QED  BY Zenon, <1>1 DEF WorkerInv

\* The INSERT of create_order keeps the invariant: the row is pending and its
\* number is known to nobody.
LEMMA InsertKept ==
  ASSUME TypeInv, CacheInv, NEW w \in Workers, CreateInsert(w)
  PROVE  CacheInv'
<1>1. /\ frame[w] \in Frame /\ FrameOK(pc[w], frame[w]) /\ WorkerInv(pc[w], frame[w])
      /\ pc[w] = "c_insert" /\ known \subseteq OrderNo
  BY Zenon DEF TypeInv, ControlInv, DataTypeOK, CacheInv, CreateInsert
<1>2. PICK o \in OrderNo : o = frame[w].no
  BY Zenon, <1>1 DEF FrameOK
<1>3. frame[w].op = "create" /\ frame[w].row.status = "PENDING" /\ Creator(pc[w], frame[w])
  BY Zenon, <1>1 DEF FrameOK, Creator
<1>4. /\ o \in generated \ known
      /\ \A v \in Workers \ {w} : Creator(pc[v], frame[v]) =>
           frame[v].no \notin known /\ frame[v].no # o
  BY Zenon, <1>2, <1>3, CreatorAlone
<1>5. Moves(w) /\ pc'[w] = "c_count" /\ frame'[w] = frame[w]
  BY Zenon DEF CreateInsert, Goto, Moves, TypeInv, ControlInv
<1>6. /\ UNCHANGED <<cache, redisClient, known, generated, acked>>
      /\ db' = [db EXCEPT ![o] = frame[w].row]
  BY Zenon, <1>2 DEF CreateInsert, redisDB, process, history
<1>7. ASSUME NEW p \in OrderNo, p # o PROVE db'[p] = db[p]
  BY Zenon, <1>6, <1>7 DEF TypeInv, DataTypeOK
<1>8. db'[o].status = "PENDING"
  BY Zenon, <1>3, <1>6 DEF TypeInv, DataTypeOK
<1>9. Stable
  BY ZenonT(30), <1>1, <1>4, <1>6, <1>7 DEF Stable, Cached, Exists
<1>10. WorkerInv(pc[w], frame[w])'
  BY ZenonT(30), <1>1, <1>2, <1>3, <1>4, <1>5, <1>6 DEF WorkerInv, Creator, User, Invalidated
<1>11. ReadSees(pc[w], frame[w])'
  BY Zenon, <1>5 DEF ReadSees
<1>12. ASSUME NEW p \in OrderNo PROVE OrderInv(p)'
  <2>1. OrderInv(p)
    BY Zenon DEF CacheInv
  <2>2. CASE p # o
    BY Zenon, <1>6, <1>7, <2>1, <2>2 DEF OrderInv, Cached, Exists
  <2>3. CASE p = o
    <3>1. acked[p] = {}
      BY Zenon, <1>4, <2>1, <2>3 DEF OrderInv
    <3>. QED  BY ZenonT(30), <1>6, <1>8, <2>1, <2>3, <3>1 DEF OrderInv, Cached, Exists
  <2>. QED  BY ZenonT(30), <2>2, <2>3
<1>13. PaymentInvalidates'
  <2>. SUFFICES ASSUME NEW p \in OrderNo, db'[p].status = "PAID", Cached(p)'
                PROVE  \E v \in Workers : pc'[v] \in {"p_count", "p_del"} /\ frame'[v].no = p
    BY Zenon DEF PaymentInvalidates
  <2>1. db[p].status = "PAID" /\ Cached(p)
    BY Zenon, <1>6, <1>7, <1>8 DEF Cached
  <2>2. PICK v \in Workers : pc[v] \in {"p_count", "p_del"} /\ frame[v].no = p
    BY Zenon, <2>1 DEF CacheInv, PaymentInvalidates
  <2>. QED  BY Zenon, <1>1, <1>5, <2>2 DEF Moves
<1>14. known' \subseteq generated'
  BY Zenon, <1>6 DEF CacheInv
<1>. QED  BY Zenon, <1>2, <1>4, <1>5, <1>6, <1>9, <1>10, <1>11, <1>12, <1>13, <1>14, StepKept

\* pay_order marks a known order: either it was pending, or paid before, or
\* it is gone.  It goes on to its own DEL, so PaymentInvalidates holds.
LEMMA UpdateKept ==
  ASSUME TypeInv, CacheInv, NEW w \in Workers, PayUpdate(w)
  PROVE  CacheInv'
<1>1. /\ frame[w] \in Frame /\ FrameOK(pc[w], frame[w]) /\ WorkerInv(pc[w], frame[w])
      /\ pc[w] = "p_update" /\ known \subseteq OrderNo
  BY Zenon DEF TypeInv, ControlInv, DataTypeOK, CacheInv, PayUpdate
<1>2. PICK o \in OrderNo : o = frame[w].no
  BY ZenonT(30), <1>1 DEF FrameOK
<1>3. frame[w].op = "pay" /\ o \in known
  BY ZenonT(30), <1>1, <1>2 DEF FrameOK, WorkerInv, User
<1>4. Moves(w) /\ pc'[w] = "p_count" /\ frame'[w] = frame[w]
  BY Zenon DEF PayUpdate, Goto, Moves, TypeInv, ControlInv
<1>5. /\ UNCHANGED <<cache, redisClient, known, generated, acked>>
      /\ db' = IF Exists(o) THEN [db EXCEPT ![o].status = "PAID",
                                            ![o].paid_at = frame[w].now]
                            ELSE db
  BY Zenon, <1>2 DEF PayUpdate, redisDB, process, history
<1>6. ASSUME NEW p \in OrderNo, p # o PROVE db'[p] = db[p]
  BY Zenon, <1>5, <1>6 DEF TypeInv, DataTypeOK
<1>7. /\ db'[o].status # "PENDING" /\ (~Exists(o) => ~Exists(o)')
      /\ db'[o].status = "ABSENT" => db[o].status = "ABSENT"
  <2>1. CASE ~Exists(o)
    BY Zenon, <1>5, <2>1 DEF Exists
  <2>2. CASE Exists(o)
    <3>1. db' = [db EXCEPT ![o] = [db[o] EXCEPT !.status = "PAID", !.paid_at = frame[w].now]]
      BY Zenon, <1>2, <2>2, UpdateWrites
    <3>2. db'[o].status = "PAID"
      BY Zenon, <1>2, <3>1 DEF TypeInv, DataTypeOK, Row
    <3>. QED  BY Zenon, <2>2, <3>2 DEF Exists
  <2>. QED  BY Zenon, <2>1, <2>2
<1>8. Stable
  BY ZenonT(60), <1>1, <1>5, <1>6, <1>7 DEF Stable, Cached, Exists
<1>9. WorkerInv(pc[w], frame[w])'
  BY Zenon, <1>1, <1>2, <1>3, <1>4, <1>5, <1>7 DEF WorkerInv, Creator, User, Invalidated
<1>10. ReadSees(pc[w], frame[w])'
  BY Zenon, <1>4 DEF ReadSees
<1>11. ASSUME NEW p \in OrderNo PROVE OrderInv(p)'
  <2>1. OrderInv(p)
    BY Zenon DEF CacheInv
  <2>2. CASE p # o
    BY Zenon, <1>5, <1>6, <2>1, <2>2 DEF OrderInv, Cached, Exists
  <2>3. CASE p = o
    BY Zenon, <1>3, <1>5, <1>7, <2>1, <2>3 DEF OrderInv, Cached, Exists
  <2>. QED  BY Zenon, <2>2, <2>3
<1>12. PaymentInvalidates'
  <2>. SUFFICES ASSUME NEW p \in OrderNo, db'[p].status = "PAID", Cached(p)'
                PROVE  \E v \in Workers : pc'[v] \in {"p_count", "p_del"} /\ frame'[v].no = p
    BY Zenon DEF PaymentInvalidates
  <2>1. CASE p = o
    BY Zenon, <1>2, <1>4, <2>1
  <2>2. CASE p # o
    <3>1. db[p].status = "PAID" /\ Cached(p)
      BY Zenon, <1>5, <1>6, <2>2 DEF Cached
    <3>2. PICK v \in Workers : pc[v] \in {"p_count", "p_del"} /\ frame[v].no = p
      BY Zenon, <3>1 DEF CacheInv, PaymentInvalidates
    <3>. QED  BY Zenon, <1>1, <1>4, <3>2 DEF Moves
  <2>. QED  BY Zenon, <2>1, <2>2
<1>13. known' \subseteq generated'
  BY Zenon, <1>5 DEF CacheInv
<1>14. ~Creator(pc[w], frame[w])'
  BY ZenonT(30), <1>3, <1>4 DEF Creator
<1>. QED  BY Zenon, <1>4, <1>5, <1>8, <1>9, <1>10, <1>11, <1>12, <1>13, <1>14, CreatorsUnknown, StepKept

\* delete_order removes a known order.
LEMMA DeleteKept ==
  ASSUME TypeInv, CacheInv, NEW w \in Workers, DeleteStep(w)
  PROVE  CacheInv'
<1>1. /\ frame[w] \in Frame /\ FrameOK(pc[w], frame[w]) /\ WorkerInv(pc[w], frame[w])
      /\ pc[w] = "d_delete" /\ known \subseteq OrderNo
  BY Zenon DEF TypeInv, ControlInv, DataTypeOK, CacheInv, DeleteStep
<1>2. PICK o \in OrderNo : o = frame[w].no
  BY ZenonT(30), <1>1 DEF FrameOK
<1>3. frame[w].op = "delete" /\ o \in known
  BY ZenonT(30), <1>1, <1>2 DEF FrameOK, WorkerInv, User
<1>4. Moves(w) /\ pc'[w] = "d_changes" /\ frame'[w] = frame[w]
  BY Zenon DEF DeleteStep, Goto, Moves, TypeInv, ControlInv
<1>5. /\ UNCHANGED <<cache, redisClient, known, generated, acked>>
      /\ db' = [db EXCEPT ![o] = Absent]
  BY Zenon, <1>2 DEF DeleteStep, redisDB, process
<1>6. ASSUME NEW p \in OrderNo, p # o PROVE db'[p] = db[p]
  BY Zenon, <1>5, <1>6 DEF TypeInv, DataTypeOK
<1>7. db'[o].status = "ABSENT"
  BY Zenon, <1>5 DEF TypeInv, DataTypeOK, Absent
<1>8. Stable
  BY Zenon, <1>1, <1>5, <1>6, <1>7 DEF Stable, Cached, Exists
<1>9. WorkerInv(pc[w], frame[w])'
  BY Zenon, <1>1, <1>2, <1>3, <1>4, <1>5, <1>7 DEF WorkerInv, Creator, User, Invalidated, Exists
<1>10. ReadSees(pc[w], frame[w])'
  BY Zenon, <1>4 DEF ReadSees
<1>11. ASSUME NEW p \in OrderNo PROVE OrderInv(p)'
  <2>1. OrderInv(p)
    BY Zenon DEF CacheInv
  <2>2. CASE p # o
    BY Zenon, <1>5, <1>6, <2>1, <2>2 DEF OrderInv, Cached, Exists
  <2>3. CASE p = o
    BY ZenonT(30), <1>3, <1>5, <1>7, <2>1, <2>3 DEF OrderInv, Cached, Exists
  <2>. QED  BY Zenon, <2>2, <2>3
<1>12. PaymentInvalidates'
  <2>. SUFFICES ASSUME NEW p \in OrderNo, db'[p].status = "PAID", Cached(p)'
                PROVE  \E v \in Workers : pc'[v] \in {"p_count", "p_del"} /\ frame'[v].no = p
    BY Zenon DEF PaymentInvalidates
  <2>1. db[p].status = "PAID" /\ Cached(p)
    BY Zenon, <1>5, <1>6, <1>7 DEF Cached
  <2>2. PICK v \in Workers : pc[v] \in {"p_count", "p_del"} /\ frame[v].no = p
    BY Zenon, <2>1 DEF CacheInv, PaymentInvalidates
  <2>. QED  BY Zenon, <1>1, <1>4, <2>2 DEF Moves
<1>13. known' \subseteq generated'
  BY Zenon, <1>5 DEF CacheInv
<1>14. ~Creator(pc[w], frame[w])'
  BY Zenon, <1>3, <1>4 DEF Creator
<1>. QED  BY ZenonT(30), <1>4, <1>5, <1>8, <1>9, <1>10, <1>11, <1>12, <1>13, <1>14, CreatorsUnknown, StepKept

\* The SET of create_order fills the entry of an order nobody knows of yet.
LEMMA SetKept ==
  ASSUME QuietEnvironment, TypeInv, CacheInv, NEW w \in Workers, TryCacheOrder(w)
  PROVE  CacheInv'
<1>1. /\ frame[w] \in Frame /\ FrameOK(pc[w], frame[w]) /\ WorkerInv(pc[w], frame[w])
      /\ pc[w] = "c_set" /\ known \subseteq OrderNo
  BY Zenon DEF TypeInv, ControlInv, DataTypeOK, CacheInv, TryCacheOrder
<1>2. PICK o \in OrderNo : o = frame[w].no
  BY Zenon, <1>1 DEF FrameOK
<1>3. frame[w].op = "create" /\ frame[w].row.status = "PENDING" /\ Creator(pc[w], frame[w])
  BY Zenon, <1>1 DEF FrameOK, Creator
<1>4. /\ o \in generated \ known
      /\ \A v \in Workers \ {w} : Creator(pc[v], frame[v]) =>
           frame[v].no \notin known /\ frame[v].no # o
  BY Zenon, <1>2, <1>3, CreatorAlone
<1>5. PICK ok \in Outcomes :
        /\ \/ cache' = [cache EXCEPT ![o] = frame[w].row]
           \/ ~ok /\ UNCHANGED redisDB
        /\ Goto(w, "record", [frame[w] EXCEPT !.ok = ok])
  BY Zenon, <1>2 DEF TryCacheOrder
<1>6. cache' = [cache EXCEPT ![o] = frame[w].row]
  BY Zenon, <1>5 DEF Outcomes, QuietEnvironment
<1>7. Moves(w) /\ pc'[w] = "record" /\ frame'[w] = [frame[w] EXCEPT !.ok = ok]
  BY Zenon, <1>5 DEF Goto, Moves, TypeInv, ControlInv
<1>8. frame'[w].op = "create" /\ frame'[w].no = o
  BY Zenon, <1>1, <1>2, <1>3, <1>7 DEF Frame
<1>9. redisClient /\ UNCHANGED <<db, redisClient, known, generated, acked>>
  BY Zenon DEF TryCacheOrder, table, process, history
<1>10. ASSUME NEW p \in OrderNo, p # o PROVE cache'[p] = cache[p]
  BY Zenon, <1>6, <1>10 DEF TypeInv, DataTypeOK
<1>11. cache'[o].status = "PENDING"
  BY ZenonT(30), <1>3, <1>6 DEF TypeInv, DataTypeOK
<1>12. Stable
  BY Zenon, <1>1, <1>4, <1>9, <1>10 DEF Stable, Cached, Exists
<1>13. WorkerInv(pc[w], frame[w])'
  BY Zenon, <1>4, <1>7, <1>8, <1>9 DEF WorkerInv, Creator, User, Invalidated
<1>14. ReadSees(pc[w], frame[w])'
  BY Zenon, <1>7 DEF ReadSees
<1>15. ASSUME NEW p \in OrderNo PROVE OrderInv(p)'
  <2>1. OrderInv(p)
    BY Zenon DEF CacheInv
  <2>2. CASE p # o
    BY Zenon, <1>9, <1>10, <2>1, <2>2 DEF OrderInv, Cached, Exists
  <2>3. CASE p = o
    <3>1. acked[p] = {} /\ db[p].status # "PAID"
      BY Zenon, <1>4, <2>1, <2>3 DEF OrderInv
    <3>. QED  BY ZenonT(30), <1>9, <1>11, <2>1, <2>3, <3>1 DEF OrderInv, Cached, Exists
  <2>. QED  BY Zenon, <2>2, <2>3
<1>16. PaymentInvalidates'
  <2>. SUFFICES ASSUME NEW p \in OrderNo, db'[p].status = "PAID", Cached(p)'
                PROVE  \E v \in Workers : pc'[v] \in {"p_count", "p_del"} /\ frame'[v].no = p
    BY ZenonT(30) DEF PaymentInvalidates
  <2>1. p # o
    <3>1. OrderInv(o)
      BY ZenonT(30) DEF CacheInv
    <3>. QED  BY ZenonT(30), <1>4, <1>9, <3>1 DEF OrderInv
  <2>2. db[p].status = "PAID" /\ Cached(p)
    BY ZenonT(30), <1>9, <1>10, <2>1 DEF Cached
  <2>3. PICK v \in Workers : pc[v] \in {"p_count", "p_del"} /\ frame[v].no = p
    BY Zenon, <2>2 DEF CacheInv, PaymentInvalidates
  <2>. QED  BY Zenon, <1>1, <1>7, <2>3 DEF Moves
<1>17. known' \subseteq generated'
  BY Zenon, <1>9 DEF CacheInv
<1>. QED  BY Zenon, <1>4, <1>7, <1>8, <1>9, <1>12, <1>13, <1>14, <1>15, <1>16, <1>17, StepKept

\* The DEL of pay_order and delete_order empties the entry of its order, so
\* PaymentInvalidates no longer needs this worker as a witness for it.
LEMMA DelKept ==
  ASSUME QuietEnvironment, TypeInv, CacheInv, NEW w \in Workers, InvalidateCachedOrder(w)
  PROVE  CacheInv'
<1>1. /\ frame[w] \in Frame /\ FrameOK(pc[w], frame[w]) /\ WorkerInv(pc[w], frame[w])
      /\ pc[w] \in {"p_del", "d_del"} /\ known \subseteq OrderNo
  BY Zenon DEF TypeInv, ControlInv, DataTypeOK, CacheInv, InvalidateCachedOrder
<1>2. PICK o \in OrderNo : o = frame[w].no
  BY ZenonT(30), <1>1 DEF FrameOK
<1>3. /\ frame[w].op = (IF pc[w] = "p_del" THEN "pay" ELSE "delete") /\ o \in known
      /\ frame[w].op = "pay" => db[o].status # "PENDING"
      /\ frame[w].op = "delete" => ~Exists(o)
  BY ZenonT(30), <1>1, <1>2 DEF FrameOK, WorkerInv, User
<1>4. PICK ok \in Outcomes :
        /\ \/ cache' = [cache EXCEPT ![o] = Absent]
           \/ ~ok /\ UNCHANGED redisDB
        /\ Goto(w, "record", [frame[w] EXCEPT !.ok = ok])
  BY Zenon, <1>2 DEF InvalidateCachedOrder
<1>5. cache' = [cache EXCEPT ![o] = Absent]
  BY Zenon, <1>4 DEF Outcomes, QuietEnvironment
<1>6. Moves(w) /\ pc'[w] = "record" /\ frame'[w] = [frame[w] EXCEPT !.ok = ok]
  BY Zenon, <1>4 DEF Goto, Moves, TypeInv, ControlInv
<1>7. frame'[w].op = frame[w].op /\ frame'[w].no = o
  BY Zenon, <1>1, <1>2, <1>6 DEF Frame
<1>8. UNCHANGED <<db, redisClient, known, generated, acked>>
  BY Zenon DEF InvalidateCachedOrder, table, process, history
<1>9. ASSUME NEW p \in OrderNo, p # o PROVE cache'[p] = cache[p]
  BY Zenon, <1>5, <1>9 DEF TypeInv, DataTypeOK
<1>10. cache'[o] = Absent /\ ~Cached(o)'
  BY Zenon, <1>5 DEF TypeInv, DataTypeOK, Absent, Cached
<1>11. Stable
  BY Zenon, <1>1, <1>8, <1>9, <1>10 DEF Stable, Cached, Exists
<1>12. WorkerInv(pc[w], frame[w])'
  BY ZenonT(30), <1>3, <1>6, <1>7, <1>8, <1>10 DEF WorkerInv, Creator, User, Invalidated, Exists, Cached
<1>13. ReadSees(pc[w], frame[w])'
  BY Zenon, <1>6 DEF ReadSees
<1>14. ASSUME NEW p \in OrderNo PROVE OrderInv(p)'
  <2>1. OrderInv(p)
    BY Zenon DEF CacheInv
  <2>2. CASE p # o
    BY Zenon, <1>8, <1>9, <2>1, <2>2 DEF OrderInv, Cached, Exists
  <2>3. CASE p = o
    BY Zenon, <1>8, <1>10, <2>1, <2>3 DEF OrderInv, Cached, Exists
  <2>. QED  BY Zenon, <2>2, <2>3
<1>15. PaymentInvalidates'
  <2>. SUFFICES ASSUME NEW p \in OrderNo, db'[p].status = "PAID", Cached(p)'
                PROVE  \E v \in Workers : pc'[v] \in {"p_count", "p_del"} /\ frame'[v].no = p
    BY Zenon DEF PaymentInvalidates
  <2>1. p # o
    BY Zenon, <1>10
  <2>2. db[p].status = "PAID" /\ Cached(p)
    BY ZenonT(30), <1>8, <1>9, <2>1 DEF Cached
  <2>3. PICK v \in Workers : pc[v] \in {"p_count", "p_del"} /\ frame[v].no = p
    BY ZenonT(30), <2>2 DEF CacheInv, PaymentInvalidates
  <2>. QED  BY Zenon, <1>2, <1>6, <2>1, <2>3 DEF Moves
<1>16. known' \subseteq generated'
  BY Zenon, <1>8 DEF CacheInv
<1>17. ~Creator(pc[w], frame[w])'
  BY ZenonT(30), <1>3, <1>6, <1>7 DEF Creator
<1>. QED  BY Zenon, <1>6, <1>8, <1>11, <1>12, <1>13, <1>14, <1>15, <1>16, <1>17, CreatorsUnknown, StepKept

\* A response tells the client: an order it created, or that a payment or a
\* deletion is done, which is when the entry is out of the cache.
LEMMA RespondKept ==
  ASSUME QuietEnvironment, TypeInv, CacheInv, NEW w \in Workers, Respond(w)
  PROVE  CacheInv'
<1>. DEFINE f == frame[w]
            told == IF f.code = 200 /\ f.op = "create" THEN {f.no} ELSE {}
<1>1. /\ f \in Frame /\ FrameOK(pc[w], f) /\ WorkerInv(pc[w], f)
      /\ pc[w] = "reply" /\ known \subseteq OrderNo
  BY ZenonT(30) DEF TypeInv, ControlInv, DataTypeOK, CacheInv, Respond
<1>2. f.op # "list"
  BY Zenon, <1>1 DEF WorkerInv
<1>3. known' = known \cup told
  BY Zenon, <1>2 DEF Respond
<1>4. \A v \in Workers \ {w} : Creator(pc[v], frame[v]) => frame[v].no \notin known'
  <2>1. CASE f.code = 200 /\ f.op = "create"
    <3>1. Creator(pc[w], frame[w])
      BY Zenon, <1>1, <2>1 DEF Creator
    <3>2. \A v \in Workers \ {w} : Creator(pc[v], frame[v]) =>
            frame[v].no \notin known /\ frame[v].no # f.no
      BY Zenon, <3>1, CreatorAlone
    <3>. QED  BY Zenon, <1>3, <2>1, <3>2
  <2>2. CASE ~(f.code = 200 /\ f.op = "create")
    BY ZenonT(30), <1>3, <2>2, CreatorsUnknown
  <2>. QED  BY Zenon, <2>1, <2>2
<1>5. told \subseteq generated
  BY Zenon, <1>1 DEF WorkerInv, Creator
<1>6. UNCHANGED <<db, cache, redisClient, generated>>
  BY Zenon DEF Respond, table, redisDB, process
<1>7. Moves(w) /\ pc'[w] = "idle" /\ frame'[w] = NoFrame
  BY ZenonT(30) DEF Respond, Goto, Moves, TypeInv, ControlInv
<1>8. ASSUME NEW p \in OrderNo
      PROVE  /\ acked[p] \subseteq acked'[p] /\ acked'[p] \subseteq acked[p] \cup {"paid", "deleted"}
             /\ "paid" \in acked'[p] \ acked[p] => f.code = 200 /\ f.op = "pay" /\ f.no = p
             /\ "deleted" \in acked'[p] \ acked[p] => f.code = 200 /\ f.op = "delete" /\ f.no = p
  <2>1. acked' = acked \/ (f.code = 200 /\ f.op = "pay" /\ acked' = [acked EXCEPT ![f.no] = @ \cup {"paid"}])
          \/ (f.code = 200 /\ f.op = "delete" /\ acked' = [acked EXCEPT ![f.no] = @ \cup {"deleted"}])
    BY Zenon DEF Respond
  <2>2. acked \in [OrderNo -> Facts]
    BY Zenon DEF TypeInv, DataTypeOK
  <2>. QED  BY <2>1, <2>2
<1>9. Stable
  BY ZenonT(60), <1>1, <1>3, <1>6, <1>8 DEF Stable, Cached, Exists
<1>10. WorkerInv(pc[w], frame[w])' /\ ~Creator(pc[w], frame[w])'
  <2>1. NoFrame.op = "none"
    BY Zenon DEF NoFrame
  <2>. QED  BY Zenon, <1>7, <2>1 DEF WorkerInv, Creator, User, Invalidated
<1>11. ReadSees(pc[w], frame[w])'
  BY Zenon, <1>7 DEF ReadSees
<1>12. ASSUME NEW p \in OrderNo PROVE OrderInv(p)'
  <2>1. OrderInv(p)
    BY ZenonT(30) DEF CacheInv
  <2>2. "paid" \in acked'[p] \ acked[p] => ~Cached(p) /\ db[p].status # "PENDING" /\ p \in known
    <3>. SUFFICES ASSUME "paid" \in acked'[p] \ acked[p]
                  PROVE  ~Cached(p) /\ db[p].status # "PENDING" /\ p \in known
      OBVIOUS
    <3>1. f.code = 200 /\ f.op = "pay" /\ f.no = p
      BY Zenon, <1>8
    <3>2. Invalidated(pc[w], f, "pay") /\ User(pc[w], f)
      BY Zenon, <1>1, <3>1 DEF Invalidated, User
    <3>. QED  BY Zenon, <1>1, <3>1, <3>2 DEF WorkerInv
  <2>3. "deleted" \in acked'[p] \ acked[p] => ~Cached(p) /\ ~Exists(p) /\ p \in known
    <3>. SUFFICES ASSUME "deleted" \in acked'[p] \ acked[p]
                  PROVE  ~Cached(p) /\ ~Exists(p) /\ p \in known
      OBVIOUS
    <3>1. f.code = 200 /\ f.op = "delete" /\ f.no = p
      BY Zenon, <1>8
    <3>2. Invalidated(pc[w], f, "delete") /\ User(pc[w], f)
      BY Zenon, <1>1, <3>1 DEF Invalidated, User
    <3>. QED  BY Zenon, <1>1, <3>1, <3>2 DEF WorkerInv
  <2>4. acked'[p] # {} => acked[p] # {} \/ "paid" \in acked'[p] \ acked[p] \/ "deleted" \in acked'[p] \ acked[p]
    BY SMTT(30), <1>8
  <2>. QED  BY ZenonT(60), <1>3, <1>6, <2>1, <2>2, <2>3, <2>4 DEF OrderInv, Cached, Exists
<1>13. PaymentInvalidates'
  <2>. SUFFICES ASSUME NEW p \in OrderNo, db'[p].status = "PAID", Cached(p)'
                PROVE  \E v \in Workers : pc'[v] \in {"p_count", "p_del"} /\ frame'[v].no = p
    BY Zenon DEF PaymentInvalidates
  <2>1. db[p].status = "PAID" /\ Cached(p)
    BY Zenon, <1>6 DEF Cached
  <2>2. PICK v \in Workers : pc[v] \in {"p_count", "p_del"} /\ frame[v].no = p
    BY Zenon, <2>1 DEF CacheInv, PaymentInvalidates
  <2>. QED  BY ZenonT(30), <1>1, <1>7, <2>2 DEF Moves
<1>14. known' \subseteq generated'
  BY ZenonT(30), <1>3, <1>5, <1>6 DEF CacheInv
<1>. QED  BY ZenonT(30), <1>4, <1>7, <1>9, <1>10, <1>11, <1>12, <1>13, <1>14, StepKept

-----------------------------------------------------------------------------
\* Arrivals, and the theorem.

\* A request begins without touching table or cache.
LEMMA BeginKept ==
  ASSUME TypeInv, CacheInv, NEW w \in Workers, NEW l, NEW f, Begin(w, l, f),
         generated \subseteq generated',
         WorkerInv(pc[w], frame[w])',
         Creator(pc[w], frame[w])' => frame'[w].no \notin generated,
         ReadSees(pc[w], frame[w])'
  PROVE  CacheInv'
<1>1. Moves(w) /\ pc[w] = "idle" /\ UNCHANGED <<db, cache, redisClient, known, acked>>
  BY ZenonT(30), GotoMoves DEF Begin, table, redisDB
<1>2. Stable
  BY ZenonT(30), <1>1 DEF Stable, Cached, Exists
<1>3. known' \subseteq generated'
  BY ZenonT(30), <1>1 DEF CacheInv
<1>4. ASSUME NEW o \in OrderNo PROVE OrderInv(o)'
  <2>1. OrderInv(o)
    BY Zenon DEF CacheInv
  <2>. QED  BY ZenonT(30), <1>1, <2>1 DEF OrderInv, Cached, Exists
<1>5. ASSUME NEW v \in Workers \ {w}, Creator(pc[v], frame[v])
      PROVE  frame[v].no \notin known' /\ (Creator(pc[w], frame[w])' => frame[v].no # frame'[w].no)
  <2>1. WorkerInv(pc[v], frame[v])
    BY Zenon DEF CacheInv
  <2>. QED  BY Zenon, <1>1, <1>5, <2>1 DEF WorkerInv
<1>6. PaymentInvalidates'
  <2>. SUFFICES ASSUME NEW o \in OrderNo, db'[o].status = "PAID", Cached(o)'
                PROVE  \E v \in Workers : pc'[v] \in {"p_count", "p_del"} /\ frame'[v].no = o
    BY ZenonT(30) DEF PaymentInvalidates
  <2>1. db[o].status = "PAID" /\ Cached(o)
    BY ZenonT(30), <1>1 DEF Cached
  <2>2. PICK v \in Workers : pc[v] \in {"p_count", "p_del"} /\ frame[v].no = o
    BY Zenon, <2>1 DEF CacheInv, PaymentInvalidates
  <2>. QED  BY ZenonT(30), <1>1, <2>2 DEF Moves
<1>. QED  BY ZenonT(60), <1>1, <1>2, <1>3, <1>4, <1>5, <1>6, StepKept

\* Clients name known orders; a new order gets a number of its own.
LEMMA ArriveKept ==
  ASSUME QuietEnvironment, TypeInv, CacheInv, NEW w \in Workers, Arrive(w)
  PROVE  CacheInv'
<1>. USE NoFrameType
<1>1. Named = known /\ known \subseteq OrderNo
  BY Zenon DEF Named, QuietEnvironment, TypeInv, DataTypeOK
<1>2. CASE CreateOrder(w)
  <2>1. PICK a \in Amounts, r \in RandParts :
          /\ <<clock, r>> \notin generated
          /\ Begin(w, "c_now", [NoFrame EXCEPT !.op = "create", !.no = <<clock, r>>,
                                               !.row = Pending(a, 0)])
          /\ generated' = generated \cup {<<clock, r>>}
    BY Zenon, <1>2 DEF CreateOrder, QuietEnvironment
  <2>. DEFINE f == [NoFrame EXCEPT !.op = "create", !.no = <<clock, r>>, !.row = Pending(a, 0)]
  <2>2. f.op = "create" /\ f.no = <<clock, r>>
    BY Zenon DEF Frame
  <2>3. Begin(w, "c_now", f)
    BY ZenonT(30), <2>1
  <2>. HIDE DEF f
  <2>4. pc'[w] = "c_now" /\ frame'[w] = f /\ known' = known
    BY Zenon, <2>3, GotoMoves DEF Begin
  <2>5. WorkerInv(pc[w], frame[w])' /\ ReadSees(pc[w], frame[w])'
    BY ZenonT(30), <2>1, <2>2, <2>4 DEF WorkerInv, Creator, User, Invalidated, ReadSees, CacheInv
  <2>. QED  BY Zenon, <2>1, <2>2, <2>3, <2>4, <2>5, BeginKept
<1>3. CASE GetOrder(w)
  <2>1. PICK o \in known :
          /\ Begin(w, "g_get", [NoFrame EXCEPT !.op = "get", !.no = o, !.due = acked[o]])
          /\ UNCHANGED <<generated, repeated>>
    BY Zenon, <1>1, <1>3 DEF GetOrder
  <2>. DEFINE f == [NoFrame EXCEPT !.op = "get", !.no = o, !.due = acked[o]]
  <2>2. f.op = "get" /\ f.no = o /\ f.due = acked[o]
    BY Zenon DEF Frame
  <2>3. Begin(w, "g_get", f)
    BY Zenon, <2>1
  <2>. HIDE DEF f
  <2>4. pc'[w] = "g_get" /\ frame'[w] = f /\ known' = known /\ acked' = acked
    BY Zenon, <2>3, GotoMoves DEF Begin
  <2>5. WorkerInv(pc[w], frame[w])' /\ ReadSees(pc[w], frame[w])' /\ ~Creator(pc[w], frame[w])'
    BY Zenon, <2>1, <2>2, <2>4 DEF WorkerInv, Creator, User, Invalidated, ReadSees
  <2>. QED  BY Zenon, <2>1, <2>3, <2>5, BeginKept
<1>4. CASE PayOrder(w)
  <2>1. PICK o \in known : /\ Begin(w, "p_select", [NoFrame EXCEPT !.op = "pay", !.no = o])
                           /\ UNCHANGED <<generated, repeated>>
    BY Zenon, <1>1, <1>4 DEF PayOrder
  <2>. DEFINE f == [NoFrame EXCEPT !.op = "pay", !.no = o]
  <2>2. f.op = "pay" /\ f.no = o
    BY Zenon DEF Frame
  <2>3. Begin(w, "p_select", f)
    BY Zenon, <2>1
  <2>. HIDE DEF f
  <2>4. pc'[w] = "p_select" /\ frame'[w] = f /\ known' = known
    BY Zenon, <2>3, GotoMoves DEF Begin
  <2>5. WorkerInv(pc[w], frame[w])' /\ ReadSees(pc[w], frame[w])' /\ ~Creator(pc[w], frame[w])'
    BY Zenon, <2>1, <2>2, <2>4 DEF WorkerInv, Creator, User, Invalidated, ReadSees
  <2>. QED  BY Zenon, <2>1, <2>3, <2>5, BeginKept
<1>5. CASE DeleteOrder(w)
  <2>1. PICK o \in known : /\ Begin(w, "d_delete", [NoFrame EXCEPT !.op = "delete", !.no = o])
                           /\ UNCHANGED <<generated, repeated>>
    BY Zenon, <1>1, <1>5 DEF DeleteOrder
  <2>. DEFINE f == [NoFrame EXCEPT !.op = "delete", !.no = o]
  <2>2. f.op = "delete" /\ f.no = o
    BY Zenon DEF Frame
  <2>3. Begin(w, "d_delete", f)
    BY Zenon, <2>1
  <2>. HIDE DEF f
  <2>4. pc'[w] = "d_delete" /\ frame'[w] = f /\ known' = known
    BY Zenon, <2>3, GotoMoves DEF Begin
  <2>5. WorkerInv(pc[w], frame[w])' /\ ReadSees(pc[w], frame[w])' /\ ~Creator(pc[w], frame[w])'
    BY Zenon, <2>1, <2>2, <2>4 DEF WorkerInv, Creator, User, Invalidated, ReadSees
  <2>. QED  BY Zenon, <2>1, <2>3, <2>5, BeginKept
<1>6. CASE RefuseBody(w)
  <2>1. PICK op \in {"create", "pay"}, c \in {400, 500} :
          /\ Begin(w, "reply", [NoFrame EXCEPT !.op = op, !.code = c])
          /\ UNCHANGED <<generated, repeated>>
    BY Zenon, <1>6 DEF RefuseBody
  <2>. DEFINE f == [NoFrame EXCEPT !.op = op, !.code = c]
  <2>2. f.op \in {"create", "pay"} /\ f.code # 200
    BY RefusalCodes, NoFrameType DEF Frame
  <2>3. Begin(w, "reply", f)
    BY Zenon, <2>1
  <2>. HIDE DEF f
  <2>4. pc'[w] = "reply" /\ frame'[w] = f
    BY <2>3, BeginMoves
  <2>5. WorkerInv(pc[w], frame[w])' /\ ReadSees(pc[w], frame[w])' /\ ~Creator(pc[w], frame[w])'
    BY ZenonT(60), <2>2, <2>4 DEF WorkerInv, Creator, User, Invalidated, ReadSees
  <2>. QED  BY Zenon, <2>1, <2>3, <2>5, BeginKept
<1>7. ~ListOrders(w)
  <2>. SUFFICES ASSUME NEW q \in Filters,
                       Begin(w, "l_prepare", [NoFrame EXCEPT !.op = "list", !.filter = q])
                PROVE  FALSE
    BY Zenon DEF ListOrders
  <2>. DEFINE f == [NoFrame EXCEPT !.op = "list", !.filter = q]
  <2>2. f.op = "list"
    BY Zenon DEF Frame
  <2>. QED  BY Zenon, <2>2 DEF Begin, QuietEnvironment
<1>. QED  BY Zenon, <1>2, <1>3, <1>4, <1>5, <1>6, <1>7 DEF Arrive

\* Entries that expire.
LEMMA ShrinkKept ==
  ASSUME TypeInv, CacheInv,
         UNCHANGED <<pc, frame, db, redisClient, known, generated, acked>>,
         \A o \in OrderNo : cache'[o] \in {cache[o], Absent}
  PROVE  CacheInv'
<1>1. ASSUME NEW o \in OrderNo PROVE Cached(o)' => Cached(o)
  <2>1. Absent.status = "ABSENT"
    BY Zenon DEF Absent
  <2>. QED  BY Zenon, <2>1 DEF Cached
<1>2. Stable
  BY Zenon, <1>1 DEF Stable, Exists, TypeInv, DataTypeOK
<1>3. ASSUME NEW v \in Workers PROVE WorkerInv(pc[v], frame[v])'
  BY ZenonT(30), <1>2, OthersKept, CreatorsUnknown
<1>4. ASSUME NEW o \in OrderNo PROVE OrderInv(o)'
  <2>1. OrderInv(o)
    BY ZenonT(30) DEF CacheInv
  <2>2. cache'[o] = cache[o] \/ (cache'[o] = Absent /\ ~Cached(o)')
    <3>1. Absent.status = "ABSENT"
      BY Zenon DEF Absent
    <3>. QED  BY Zenon, <3>1 DEF Cached
  <2>. QED  BY Zenon, <1>1, <2>1, <2>2 DEF OrderInv, Cached, Exists
<1>5. PaymentInvalidates'
  <2>. SUFFICES ASSUME NEW o \in OrderNo, db'[o].status = "PAID", Cached(o)'
                PROVE  \E v \in Workers : pc'[v] \in {"p_count", "p_del"} /\ frame'[v].no = o
    BY ZenonT(30) DEF PaymentInvalidates
  <2>. QED  BY ZenonT(30), <1>1 DEF CacheInv, PaymentInvalidates
<1>6. DistinctCreators'
  BY DEF CacheInv, DistinctCreators, Creator
<1>7. ReadsSeeAcks' /\ known' \subseteq generated'
  BY Zenon DEF CacheInv, ReadsSeeAcks, ReadSees
<1>. QED  BY Zenon, <1>3, <1>4, <1>5, <1>6, <1>7 DEF CacheInv

\* In a quiet environment the cache invariant holds throughout: the numbers
\* that payments and deletions work on have left their creators, so after the
\* DEL of invalidate_cached_order nothing sets the entry again.
THEOREM CacheInvariant ==
  ASSUME QuietEnvironment
  PROVE  Spec => []CacheInv
<1>1. Init => CacheInv
  <2>. SUFFICES ASSUME Init PROVE CacheInv
    OBVIOUS
  <2>1. NoFrame.op = "none" /\ Absent.status = "ABSENT"
    BY Zenon DEF NoFrame, Absent
  <2>2. /\ \A w \in Workers : pc[w] = "idle" /\ frame[w] = NoFrame
        /\ \A o \in OrderNo : db[o] = Absent /\ cache[o] = Absent /\ acked[o] = {}
        /\ known = {}
    BY Zenon DEF Init
  <2>. QED
    BY ZenonT(30), <2>1, <2>2 DEF CacheInv, WorkerInv, Creator, User, Invalidated, DistinctCreators,
                      OrderInv, Cached, Exists, PaymentInvalidates, ReadsSeeAcks, ReadSees
<1>2. TypeInv /\ CacheInv /\ [Next]_vars => CacheInv'
  <2>. SUFFICES ASSUME TypeInv, CacheInv, [Next]_vars PROVE CacheInv'
    OBVIOUS
  <2>1. ASSUME NEW w \in Workers, Arrive(w) PROVE CacheInv'
    BY Zenon, <2>1, ArriveKept
  <2>2. ASSUME NEW w \in Workers, Step(w) PROVE CacheInv'
    BY Zenon, <2>2, LocalSteps, InsertKept, UpdateKept, DeleteKept, SetKept, DelKept, RespondKept
       DEF Step, LocalStep
  <2>3. CASE Tick
    BY Zenon, <2>3, ShrinkKept DEF Tick, table, history
  <2>4. ASSUME NEW o \in OrderNo, Expire(o) PROVE CacheInv'
    <3>1. \A p \in OrderNo : cache'[p] \in {cache[p], Absent}
      BY ZenonT(30), <2>4 DEF Expire, TypeInv, DataTypeOK
    <3>. QED  BY Zenon, <2>4, <3>1, ShrinkKept DEF Expire, process, table, history
  <2>5. ~Restart
    BY ConstantsAssumption DEF Restart, QuietEnvironment, TypeInv, DataTypeOK
  <2>6. CASE UNCHANGED vars
    <3>1. \A p \in OrderNo : cache'[p] \in {cache[p], Absent}
      BY Zenon, <2>6 DEF vars, redisDB
    <3>. QED  BY Zenon, <2>6, <3>1, ShrinkKept DEF vars, process, table, history
  <2>. QED  BY <2>1, <2>2, <2>3, <2>4, <2>5, <2>6 DEF Next, Finished
<1>. QED  BY <1>1, <1>2, TypeInvariant, PTL DEF Spec

\* In a quiet environment a paid order is cached only while the payment that
\* marked it is on its way to the DEL ("State-changing operations invalidate
\* cached order entries").
THEOREM PaymentInvalidatesCorrect ==
  ASSUME QuietEnvironment
  PROVE  Spec => []PaymentInvalidates
<1>1. CacheInv => PaymentInvalidates
  BY Zenon DEF CacheInv
<1>. QED  BY <1>1, CacheInvariant, PTL

\* In a quiet environment get_order, which answers from the cache when it can,
\* shows every payment and deletion acknowledged before the get arrived.
THEOREM ReadsSeeAcksCorrect ==
  ASSUME QuietEnvironment
  PROVE  Spec => []ReadsSeeAcks
<1>1. CacheInv => ReadsSeeAcks
  BY Zenon DEF CacheInv
<1>. QED  BY <1>1, CacheInvariant, PTL
=============================================================================
