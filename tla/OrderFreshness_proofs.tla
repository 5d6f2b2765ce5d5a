------------------------ MODULE OrderFreshness_proofs ------------------------
(***************************************************************************)
(* As long as generate_order_no has not repeated a number, the times of an *)
(* order are in order, acknowledged payments and deletions last, cached    *)
(* payloads agree with their rows and a stale entry lives no longer than   *)
(* its TTL: for any number of workers, under every fault and restart, and  *)
(* (but for deletions) whatever numbers clients send.                      *)
(***************************************************************************)
EXTENDS OrderRoutes_proofs

\* The worker has a number and has not yet inserted its row.
Inserting(l) == l \in {"c_now", "c_insert"}

\* No row will be inserted under number o any more.
Closed(o) ==
  /\ o \in generated
  /\ \A w \in Workers : Inserting(pc[w]) => frame[w].no # o

\* The UPDATE of pay_order lies behind the worker.
Marked(l, f) ==
  \/ l \in {"p_count", "p_del"}
  \/ f.op = "pay" /\ (l = "record" \/ (l = "reply" /\ f.code = 200))

\* What holds for a worker at label l with locals f.
WorkerFresh(l, f) ==
  /\ Inserting(l) => f.no \in generated /\ f.no[1] <= clock /\ f.row.paid_at = 0
  /\ l = "c_insert" => f.no[1] <= f.row.created_at /\ f.row.created_at <= clock
  /\ l \in {"c_count", "c_set"} =>
       /\ Closed(f.no)
       /\ Exists(f.no) => /\ db[f.no].amount = f.row.amount
                          /\ db[f.no].created_at = f.row.created_at
  /\ l \in {"p_now", "p_update"} => Closed(f.no)
  /\ l = "p_update" /\ Exists(f.no) => db[f.no].created_at <= f.now
  /\ Marked(l, f) => Closed(f.no) /\ db[f.no].status # "PENDING"

\* What holds for an order number.
OrderFresh(o) ==
  /\ Exists(o) \/ Cached(o) \/ "paid" \in acked[o] => Closed(o)
  /\ Exists(o) => /\ o[1] <= db[o].created_at /\ db[o].created_at <= clock
                  /\ db[o].status = "PAID" => db[o].created_at <= db[o].paid_at
                  /\ db[o].status = "PENDING" => db[o].paid_at = 0
  /\ Cached(o) => cache[o].status = "PENDING"
  /\ Cached(o) /\ Exists(o) => /\ cache[o].amount = db[o].amount
                               /\ cache[o].created_at = db[o].created_at
  /\ "paid" \in acked[o] => db[o].status # "PENDING"

DistinctInserts == \A v, w \in Workers :
  v # w /\ Inserting(pc[v]) /\ Inserting(pc[w]) => frame[v].no # frame[w].no

\* The inductive invariant.
FreshInv ==
  /\ \A w \in Workers : WorkerFresh(pc[w], frame[w])
  /\ DistinctInserts
  /\ \A o \in OrderNo : OrderFresh(o)

-----------------------------------------------------------------------------
\* What no step undoes: numbers stay closed, time goes on, and a closed number
\* gets no new row, keeps its amount and creation time and never becomes
\* pending again.
Kept ==
  /\ \A o \in OrderNo : Closed(o) => Closed(o)'
  /\ clock <= clock' /\ generated \subseteq generated'
  /\ \A o \in OrderNo : Closed(o) =>
       /\ Exists(o)' => /\ Exists(o)
                        /\ db'[o].amount = db[o].amount
                        /\ db'[o].created_at = db[o].created_at
       /\ db[o].status # "PENDING" => db'[o].status # "PENDING"

\* The numbers and times that the invariant compares are integers.
LEMMA FreshTypes ==
  ASSUME TypeInv
  PROVE  /\ clock \in Int
         /\ \A o \in OrderNo : /\ o[1] \in Int
                               /\ db[o].created_at \in Int /\ db[o].paid_at \in Int
         /\ \A w \in Workers :
              frame[w].row.created_at \in Int /\ frame[w].now \in Int
<1>1. clock \in Int
  BY ConstantsAssumption DEF TypeInv, DataTypeOK
<1>2. ASSUME NEW o \in OrderNo
      PROVE  o[1] \in Int /\ db[o].created_at \in Int /\ db[o].paid_at \in Int
  <2>1. db[o] \in Row
    BY Zenon DEF TypeInv, DataTypeOK
  <2>. QED  BY <2>1, ConstantsAssumption DEF OrderNo, Row
<1>3. ASSUME NEW w \in Workers
      PROVE  frame[w].row.created_at \in Int /\ frame[w].now \in Int
  <2>1. frame[w] \in Frame
    BY Zenon DEF TypeInv, ControlInv
  <2>2. frame[w].row \in Row /\ frame[w].now \in 0..MaxClock
    BY Zenon, <2>1 DEF Frame
  <2>. QED  BY <2>2, ConstantsAssumption DEF Row
<1>. QED  BY Zenon, <1>1, <1>2, <1>3

\* A clock that does not change has not gone back.
LEMMA ClockStands ==
  ASSUME TypeInv, clock' = clock
  PROVE  clock <= clock'
  BY FreshTypes

\* A worker that does not move keeps what the invariant says of it.
LEMMA OthersFresh ==
  ASSUME TypeInv, TypeInv', FreshInv, Kept, NEW v \in Workers,
         pc'[v] = pc[v], frame'[v] = frame[v]
  PROVE  WorkerFresh(pc[v], frame[v])'
<1>. DEFINE l == pc[v]
            f == frame[v]
<1>1. WorkerFresh(l, f) /\ FrameOK(l, f) /\ f \in Frame
  BY Zenon DEF FreshInv, TypeInv, ControlInv
<1>2. /\ clock \in Int /\ clock' \in Int /\ f.row.created_at \in Int
      /\ f.no \in OrderNo => f.no[1] \in Int
  <2>1. clock \in Int /\ f.row.created_at \in Int /\ (f.no \in OrderNo => f.no[1] \in Int)
    BY Zenon, FreshTypes
  <2>2. clock' \in Int
    BY ConstantsAssumption DEF TypeInv, DataTypeOK
  <2>. QED  BY Zenon, <2>1, <2>2
<1>3. /\ Inserting(l) => f.no \in OrderNo
      /\ l \in {"c_count", "c_set", "p_now", "p_update"} => f.no \in OrderNo
      /\ Marked(l, f) => f.no \in OrderNo
  BY Zenon, <1>1 DEF FrameOK, Inserting, Marked
<1>4. /\ Inserting(l) => f.no \in generated' /\ f.no[1] <= clock' /\ f.row.paid_at = 0
      /\ l = "c_insert" => f.no[1] <= f.row.created_at /\ f.row.created_at <= clock'
  BY <1>1, <1>2, <1>3 DEF WorkerFresh, Kept, Inserting
<1>5. l \in {"c_count", "c_set"} =>
        /\ Closed(f.no)'
        /\ Exists(f.no)' => /\ db'[f.no].amount = f.row.amount
                            /\ db'[f.no].created_at = f.row.created_at
  BY Zenon, <1>1, <1>3 DEF WorkerFresh, Kept
<1>6. /\ l \in {"p_now", "p_update"} => Closed(f.no)'
      /\ l = "p_update" /\ Exists(f.no)' => db'[f.no].created_at <= f.now
  BY Zenon, <1>1, <1>3 DEF WorkerFresh, Kept
<1>7. Marked(l, f) => Closed(f.no)' /\ db'[f.no].status # "PENDING"
  BY Zenon, <1>1, <1>3 DEF WorkerFresh, Kept
<1>. QED  BY ZenonT(30), <1>4, <1>5, <1>6, <1>7 DEF WorkerFresh, Marked, Inserting

\* A step of w closes numbers for good, if w takes up no number to insert but
\* one that was never generated.
LEMMA StaysClosed ==
  ASSUME NEW w \in Workers, Moves(w), generated \subseteq generated',
         Inserting(pc'[w]) => \/ Inserting(pc[w]) /\ frame'[w].no = frame[w].no
                              \/ frame'[w].no \notin generated
  PROVE  \A o \in OrderNo : Closed(o) => Closed(o)'
  BY Zenon DEF Closed, Moves, Inserting

\* A step of w keeps the invariant if it keeps what is said of w and of the
\* orders.
LEMMA StepFresh ==
  ASSUME TypeInv, TypeInv', FreshInv, Kept, NEW w \in Workers, Moves(w),
         WorkerFresh(pc[w], frame[w])',
         Inserting(pc'[w]) => \/ Inserting(pc[w]) /\ frame'[w].no = frame[w].no
                              \/ frame'[w].no \notin generated,
         \A o \in OrderNo : OrderFresh(o)'
  PROVE  FreshInv'
<1>1. ASSUME NEW v \in Workers PROVE WorkerFresh(pc[v], frame[v])'
  <2>1. CASE v = w
    BY Zenon, <2>1
  <2>2. CASE v # w
    BY Zenon, <2>2, OthersFresh DEF Moves
  <2>. QED  BY Zenon, <2>1, <2>2
<1>2. ASSUME NEW v \in Workers \ {w}, Inserting(pc[v]), Inserting(pc'[w])
      PROVE  frame[v].no # frame'[w].no
  <2>1. frame[v].no \in generated
    BY Zenon, <1>2 DEF FreshInv, WorkerFresh
  <2>2. Inserting(pc[w]) => frame[v].no # frame[w].no
    BY Zenon, <1>2 DEF FreshInv, DistinctInserts
  <2>. QED  BY Zenon, <1>2, <2>1, <2>2
<1>3. DistinctInserts'
  BY ZenonT(30), <1>2 DEF Moves, DistinctInserts, FreshInv
<1>. QED  BY Zenon, <1>1, <1>3 DEF FreshInv

\* The orders keep what is said of them while nothing they depend on changes
\* but entries that leave the cache and time that passes.
LEMMA OrdersFresh ==
  ASSUME TypeInv, TypeInv', FreshInv, UNCHANGED <<db, acked>>, clock <= clock',
         \A o \in OrderNo : Closed(o) => Closed(o)',
         \A o \in OrderNo : cache'[o] \in {cache[o], Absent}
  PROVE  \A o \in OrderNo : OrderFresh(o)'
<1>. SUFFICES ASSUME NEW o \in OrderNo PROVE OrderFresh(o)'
  OBVIOUS
<1>1. OrderFresh(o)
  BY Zenon DEF FreshInv
<1>2. cache'[o] = cache[o] \/ ~Cached(o)'
  BY DEF Cached, Absent
<1>3. clock \in Int /\ clock' \in Int /\ db[o].created_at \in Int
  <2>1. clock \in Int /\ db[o].created_at \in Int
    BY Zenon, FreshTypes
  <2>2. clock' \in Int
    BY ConstantsAssumption DEF TypeInv, DataTypeOK
  <2>. QED  BY Zenon, <2>1, <2>2
<1>4. Exists(o)' => db[o].created_at <= clock'
  BY <1>1, <1>3 DEF OrderFresh, Exists
<1>. QED  BY Zenon, <1>1, <1>2, <1>4 DEF OrderFresh, Exists, Cached

-----------------------------------------------------------------------------
\* Steps that change nothing of the orders.

orders == <<clock, db, cache, generated, acked>>

LEMMA LocalFresh ==
  ASSUME TypeInv, TypeInv', FreshInv, NEW w \in Workers, Moves(w), UNCHANGED orders,
         WorkerFresh(pc[w], frame[w])',
         Inserting(pc'[w]) => Inserting(pc[w]) /\ frame'[w].no = frame[w].no
  PROVE  FreshInv'
<1>1. \A o \in OrderNo : Closed(o) => Closed(o)'
  BY Zenon, StaysClosed DEF orders
<1>2. clock <= clock'
  BY FreshTypes DEF orders
<1>3. Kept
  BY Zenon, <1>1, <1>2 DEF Kept, orders, Exists
<1>4. \A o \in OrderNo : OrderFresh(o)'
  BY Zenon, <1>1, <1>2, OrdersFresh DEF orders
<1>. QED  BY Zenon, <1>3, <1>4, StepFresh

\* The steps that only look at the orders, or count, keep the invariant.
LEMMA LocalStepsFresh ==
  ASSUME TypeInv, TypeInv', FreshInv, NEW w \in Workers, LocalStep(w)
  PROVE  FreshInv'
<1>1. /\ frame[w] \in Frame /\ FrameOK(pc[w], frame[w])
      /\ WorkerFresh(pc[w], frame[w])
  BY Zenon DEF TypeInv, ControlInv, FreshInv
<1>. DEFINE Quiet == /\ Moves(w) /\ UNCHANGED orders
                     /\ WorkerFresh(pc[w], frame[w])'
                     /\ Inserting(pc'[w]) => Inserting(pc[w]) /\ frame'[w].no = frame[w].no
<1>. SUFFICES Quiet
  BY Zenon, LocalFresh
<1>2. UNCHANGED orders
  BY ZenonT(60) DEF LocalStep, CreateStamp, CreateConflict, CreateCount, TryGetCachedOrder,
       GetSelect, PaySelect, PayStamp, PayCount, ListPrepare, ListStep, ListDone,
       DeleteChanges, NoRedisClient, RecordRedis, SqliteFails, SqliteStepFails,
       Local, orders, table, redisDB, process, history
<1>3. ASSUME NEW c, Reply(w, c), c = 200 => frame[w].op # "pay"
      PROVE  Quiet
  <2>1. Moves(w) /\ pc'[w] = "reply" /\ frame'[w].op = frame[w].op /\ frame'[w].code = c
    BY Zenon, <1>3, ReplyMoves
  <2>2. ~Marked(pc[w], frame[w])'
    BY Zenon, <1>3, <2>1 DEF Marked
  <2>3. WorkerFresh(pc[w], frame[w])' /\ ~Inserting(pc'[w])
    BY Zenon, <2>1, <2>2 DEF WorkerFresh, Inserting
  <2>. QED  BY Zenon, <1>2, <2>1, <2>3
<1>4. ASSUME NEW l, NEW f, Goto(w, l, f), ~Marked(l, f),
             l \notin {"c_now", "c_insert", "c_count", "c_set", "p_now", "p_update"}
      PROVE  Quiet
  <2>1. Moves(w) /\ pc'[w] = l /\ frame'[w] = f
    BY Zenon, <1>4, GotoMoves
  <2>2. WorkerFresh(pc[w], frame[w])' /\ ~Inserting(pc'[w])
    BY Zenon, <1>4, <2>1 DEF WorkerFresh, Inserting, Marked
  <2>. QED  BY Zenon, <1>2, <2>1, <2>2
<1>5. \A o \in OrderNo : Closed(o) /\ Moves(w) /\ (Inserting(pc'[w]) =>
        Inserting(pc[w]) /\ frame'[w].no = frame[w].no) => Closed(o)'
  BY Zenon, <1>2, StaysClosed DEF orders
<1>6. ASSUME Reply(w, 200), Marked(pc[w], frame[w]) PROVE Quiet
  <2>1. /\ Moves(w) /\ pc'[w] = "reply" /\ frame'[w].op = frame[w].op
        /\ frame'[w].no = frame[w].no
    BY ZenonT(30), <1>6, ReplyMoves
  <2>2. frame[w].no \in OrderNo /\ Closed(frame[w].no) /\ db[frame[w].no].status # "PENDING"
    BY Zenon, <1>1, <1>6 DEF WorkerFresh, FrameOK, Marked
  <2>3. ~Inserting(pc'[w])
    BY Zenon, <2>1 DEF Inserting
  <2>4. PICK o \in OrderNo : o = frame[w].no
    BY Zenon, <2>2
  <2>5. Closed(o)' /\ db'[o].status # "PENDING" /\ frame'[w].no = o
    BY Zenon, <1>2, <1>5, <2>1, <2>2, <2>3, <2>4 DEF orders
  <2>6. WorkerFresh(pc[w], frame[w])'
    BY Zenon, <2>1, <2>3, <2>5 DEF WorkerFresh, Inserting
  <2>. QED  BY Zenon, <1>2, <2>1, <2>3, <2>6
<1>7. CASE CreateStamp(w)
  <2>. DEFINE f == [frame[w] EXCEPT !.row.created_at = clock]
  <2>1. /\ frame[w].row \in Row /\ pc[w] = "c_now" /\ Goto(w, "c_insert", f)
        /\ frame[w].no \in OrderNo
    BY Zenon, <1>1, <1>7 DEF CreateStamp, Frame, FrameOK
  <2>2. f.row = [frame[w].row EXCEPT !.created_at = clock] /\ f.no = frame[w].no
    BY Zenon, <1>1 DEF Frame
  <2>3. f.row.created_at = clock /\ f.row.paid_at = frame[w].row.paid_at
    BY Zenon, <2>1, <2>2 DEF Row
  <2>. HIDE DEF f
  <2>4. Moves(w) /\ pc'[w] = "c_insert" /\ frame'[w] = f
    BY Zenon, <2>1, GotoMoves
  <2>5. /\ f.no \in generated' /\ f.no[1] <= clock' /\ f.row.paid_at = 0
        /\ f.no[1] <= f.row.created_at /\ f.row.created_at <= clock'
    BY <1>1, <1>2, <2>1, <2>2, <2>3, FreshTypes DEF WorkerFresh, Inserting, orders
  <2>6. WorkerFresh(pc[w], frame[w])'
    BY Zenon, <2>4, <2>5 DEF WorkerFresh, Inserting, Marked
  <2>. QED  BY Zenon, <1>2, <2>1, <2>2, <2>4, <2>6 DEF Inserting
<1>8. CASE CreateConflict(w) \/ SqliteFails(w) \/ SqliteStepFails(w) \/ ListDone(w)
  <2>1. \E c : Reply(w, c) /\ (c = 200 => frame[w].op # "pay")
    BY <1>1, <1>8 DEF CreateConflict, SqliteFails, SqliteStepFails, ListDone, FrameOK
  <2>. QED  BY Zenon, <1>3, <2>1
<1>9. CASE CreateCount(w)
  <2>1. Moves(w) /\ frame'[w] = frame[w] /\ pc[w] = "c_count" /\ pc'[w] = "c_set"
    BY Zenon, <1>9, GotoMoves DEF CreateCount
  <2>2. PICK o \in OrderNo : o = frame[w].no
    BY ZenonT(30), <1>1, <2>1 DEF FrameOK
  <2>3. /\ Closed(o)
        /\ Exists(o) => db[o].amount = frame[w].row.amount /\ db[o].created_at = frame[w].row.created_at
    BY Zenon, <1>1, <2>1, <2>2 DEF WorkerFresh
  <2>4. Closed(o)' /\ ~Inserting(pc'[w])
    BY Zenon, <1>5, <2>1, <2>3 DEF Inserting
  <2>5. Exists(o)' => db'[o].amount = frame[w].row.amount /\ db'[o].created_at = frame[w].row.created_at
    BY Zenon, <1>2, <2>3 DEF orders, Exists
  <2>6. WorkerFresh(pc[w], frame[w])'
    BY Zenon, <2>1, <2>2, <2>4, <2>5 DEF WorkerFresh, Inserting, Marked
  <2>. QED  BY Zenon, <1>2, <2>1, <2>4, <2>6
<1>10. CASE PayCount(w)
  <2>1. Moves(w) /\ frame'[w] = frame[w] /\ pc[w] = "p_count" /\ pc'[w] = "p_del"
    BY Zenon, <1>10, GotoMoves DEF PayCount
  <2>2. PICK o \in OrderNo : o = frame[w].no
    BY Zenon, <1>1, <2>1 DEF FrameOK
  <2>3. Closed(o) /\ db[o].status # "PENDING"
    BY Zenon, <1>1, <2>1, <2>2 DEF WorkerFresh, Marked
  <2>4. Closed(o)' /\ ~Inserting(pc'[w]) /\ db'[o].status # "PENDING"
    BY Zenon, <1>2, <1>5, <2>1, <2>3 DEF Inserting, orders
  <2>5. WorkerFresh(pc[w], frame[w])'
    BY Zenon, <2>1, <2>2, <2>4 DEF WorkerFresh, Inserting
  <2>. QED  BY Zenon, <1>2, <2>1, <2>4, <2>5
<1>11. CASE TryGetCachedOrder(w) \/ GetSelect(w)
  <2>1. frame[w].op = "get"
    BY ZenonT(30), <1>1, <1>11 DEF FrameOK, TryGetCachedOrder, GetSelect
  <2>2. PICK l, f : l \in {"record", "reply"} /\ Goto(w, l, f) /\ f.op = frame[w].op
    <3>1. CASE TryGetCachedOrder(w)
      <4>1. PICK ok \in Outcomes :
              Goto(w, "record", [frame[w] EXCEPT !.ok = ok,
                                   !.row = IF ok THEN cache[frame[w].no] ELSE Absent])
        BY Zenon, <3>1 DEF TryGetCachedOrder
      <4>2. [frame[w] EXCEPT !.ok = ok,
               !.row = IF ok THEN cache[frame[w].no] ELSE Absent].op = frame[w].op
        BY Zenon, <1>1 DEF Frame
      <4>. QED  BY ZenonT(30), <4>1, <4>2
    <3>2. CASE GetSelect(w)
      <4>1. Goto(w, "reply", [frame[w] EXCEPT !.row = db[frame[w].no],
                                !.code = IF Exists(frame[w].no) THEN 200 ELSE 404])
        BY Zenon, <3>2 DEF GetSelect
      <4>2. [frame[w] EXCEPT !.row = db[frame[w].no],
               !.code = IF Exists(frame[w].no) THEN 200 ELSE 404].op = frame[w].op
        BY Zenon, <1>1 DEF Frame
      <4>. QED  BY ZenonT(30), <4>1, <4>2
    <3>. QED  BY Zenon, <1>11, <3>1, <3>2
  <2>3. ~Marked(l, f)
    BY Zenon, <2>1, <2>2 DEF Marked
  <2>. QED  BY Zenon, <1>4, <2>2, <2>3
<1>12. CASE PaySelect(w)
  <2>. DEFINE f == [frame[w] EXCEPT !.row = db[frame[w].no]]
  <2>1. \/ Reply(w, 404) \/ Reply(w, 400)
        \/ Goto(w, "p_now", f) /\ Exists(frame[w].no)
    BY Zenon, <1>12 DEF PaySelect
  <2>2. CASE Reply(w, 404) \/ Reply(w, 400)
    BY <1>3, <2>2
  <2>3. CASE Goto(w, "p_now", f) /\ Exists(frame[w].no)
    <3>1. f.no = frame[w].no
      BY Zenon, <1>1 DEF Frame
    <3>. HIDE DEF f
    <3>2. Moves(w) /\ pc'[w] = "p_now" /\ frame'[w] = f
      BY Zenon, <2>3, GotoMoves
    <3>3. PICK o \in OrderNo : o = frame[w].no
      BY Zenon, <1>1, <1>12 DEF PaySelect, FrameOK
    <3>4. Closed(o)
      BY Zenon, <2>3, <3>3 DEF FreshInv, OrderFresh
    <3>5. Closed(o)' /\ ~Inserting(pc'[w]) /\ frame'[w].no = o
      BY Zenon, <1>5, <3>1, <3>2, <3>3, <3>4 DEF Inserting
    <3>6. WorkerFresh(pc[w], frame[w])'
      BY Zenon, <3>2, <3>5 DEF WorkerFresh, Inserting, Marked
    <3>. QED  BY Zenon, <1>2, <3>2, <3>5, <3>6
  <2>. QED  BY Zenon, <2>1, <2>2, <2>3
<1>13. CASE PayStamp(w)
  <2>. DEFINE f == [frame[w] EXCEPT !.now = clock]
  <2>1. Goto(w, "p_update", f) /\ pc[w] = "p_now"
    BY Zenon, <1>13 DEF PayStamp
  <2>2. f.no = frame[w].no /\ f.now = clock
    BY Zenon, <1>1 DEF Frame
  <2>. HIDE DEF f
  <2>3. Moves(w) /\ pc'[w] = "p_update" /\ frame'[w] = f
    BY Zenon, <2>1, GotoMoves
  <2>4. PICK o \in OrderNo : o = frame[w].no
    BY Zenon, <1>1, <2>1 DEF FrameOK
  <2>5. Closed(o) /\ (Exists(o) => db[o].created_at <= clock)
    BY ZenonT(30), <1>1, <2>1, <2>4 DEF WorkerFresh, FreshInv, OrderFresh
  <2>6. Closed(o)' /\ ~Inserting(pc'[w]) /\ frame'[w].no = o
    BY Zenon, <1>5, <2>2, <2>3, <2>4, <2>5 DEF Inserting
  <2>7. Exists(o)' => db'[o].created_at <= frame'[w].now
    BY Zenon, <1>2, <2>2, <2>3, <2>5 DEF orders, Exists
  <2>8. WorkerFresh(pc[w], frame[w])'
    BY ZenonT(30), <2>3, <2>6, <2>7 DEF WorkerFresh, Inserting, Marked
  <2>. QED  BY Zenon, <1>2, <2>3, <2>6, <2>8
<1>14. CASE ListPrepare(w) \/ ListStep(w)
  <2>1. PICK f : Goto(w, "l_scan", f)
    BY Zenon, <1>14 DEF ListPrepare, ListStep
  <2>2. ~Marked("l_scan", f)
    BY Zenon DEF Marked
  <2>. QED  BY Zenon, <1>4, <2>1, <2>2
<1>15. CASE DeleteChanges(w)
  <2>1. Reply(w, 404) \/ (Goto(w, "d_del", frame[w]) /\ ~Marked("d_del", frame[w]))
    BY ZenonT(30), <1>15 DEF DeleteChanges, Marked
  <2>. QED  BY <1>3, <1>4, <2>1
<1>16. CASE NoRedisClient(w)
  <2>1. \/ Goto(w, "g_select", frame[w])
        \/ Reply(w, 200) /\ pc[w] = "p_del"
        \/ Reply(w, 200) /\ pc[w] \in {"c_set", "d_del"}
    BY Zenon, <1>16 DEF NoRedisClient
  <2>2. ~Marked("g_select", frame[w]) /\ (pc[w] = "p_del" => Marked(pc[w], frame[w]))
    BY Zenon DEF Marked
  <2>3. pc[w] \in {"c_set", "d_del"} => frame[w].op # "pay"
    BY ZenonT(30), <1>1 DEF FrameOK
  <2>. QED  BY Zenon, <1>3, <1>4, <1>6, <2>1, <2>2, <2>3
<1>17. CASE RecordRedis(w)
  <2>. DEFINE f == [frame[w] EXCEPT !.ok = FALSE]
  <2>1. pc[w] = "record" /\ (Goto(w, "g_select", f) \/ Reply(w, 200))
    BY Zenon, <1>17 DEF RecordRedis
  <2>. HIDE DEF f
  <2>2. ~Marked("g_select", f) /\ (frame[w].op = "pay" => Marked(pc[w], frame[w]))
    BY Zenon, <2>1 DEF Marked
  <2>. QED  BY ZenonT(30), <1>3, <1>4, <1>6, <2>1, <2>2
<1>. HIDE DEF Quiet
<1>. QED
  BY Zenon, <1>7, <1>8, <1>9, <1>10, <1>11, <1>12, <1>13, <1>14, <1>15, <1>16, <1>17
     DEF LocalStep

-----------------------------------------------------------------------------
\* Steps that write the table, the cache or the history.

\* A step of w that touches order o alone and takes up no number to insert
\* keeps the invariant, if o and w keep theirs.
LEMMA WriteFresh ==
  ASSUME TypeInv, TypeInv', FreshInv, NEW w \in Workers, Moves(w), ~Inserting(pc'[w]),
         NEW o \in OrderNo, UNCHANGED <<clock, generated>>,
         \A p \in OrderNo \ {o} : /\ db'[p] = db[p] /\ cache'[p] = cache[p]
                                  /\ acked'[p] = acked[p],
         Closed(o) => /\ Exists(o)' => /\ Exists(o)
                                       /\ db'[o].amount = db[o].amount
                                       /\ db'[o].created_at = db[o].created_at
                      /\ db[o].status # "PENDING" => db'[o].status # "PENDING",
         WorkerFresh(pc[w], frame[w])', OrderFresh(o)'
  PROVE  FreshInv'
<1>1. \A p \in OrderNo : Closed(p) => Closed(p)'
  BY Zenon, StaysClosed
<1>2. clock <= clock'
  BY FreshTypes
<1>3. Kept
  <2>1. ASSUME NEW p \in OrderNo, p # o
        PROVE  /\ Exists(p)' <=> Exists(p)
               /\ db'[p] = db[p]
    BY Zenon, <2>1 DEF Exists
  <2>. QED  BY Zenon, <1>1, <1>2, <2>1 DEF Kept
<1>4. ASSUME NEW p \in OrderNo PROVE OrderFresh(p)'
  <2>1. CASE p = o
    BY Zenon, <2>1
  <2>2. CASE p # o
    <3>1. OrderFresh(p) /\ db'[p] = db[p] /\ cache'[p] = cache[p] /\ acked'[p] = acked[p]
      BY ZenonT(30), <2>2 DEF FreshInv
    <3>. QED  BY ZenonT(30), <1>1, <3>1 DEF OrderFresh, Exists, Cached
  <2>. QED  BY Zenon, <2>1, <2>2
<1>. QED  BY Zenon, <1>3, <1>4, StepFresh

\* The INSERT of create_order closes its number.
LEMMA InsertFresh ==
  ASSUME TypeInv, TypeInv', FreshInv, NEW w \in Workers, CreateInsert(w)
  PROVE  FreshInv'
<1>1. /\ FrameOK(pc[w], frame[w]) /\ WorkerFresh(pc[w], frame[w]) /\ pc[w] = "c_insert"
  BY Zenon DEF TypeInv, ControlInv, FreshInv, CreateInsert
<1>2. PICK o \in OrderNo : o = frame[w].no
  BY Zenon, <1>1 DEF FrameOK
<1>3. Moves(w) /\ pc'[w] = "c_count" /\ frame'[w] = frame[w]
  BY Zenon, GotoMoves DEF CreateInsert
<1>4. /\ UNCHANGED <<clock, generated, cache, acked>>
      /\ db' = [db EXCEPT ![o] = frame[w].row]
  BY Zenon, <1>2 DEF CreateInsert, redisDB, process, history
<1>5. db'[o] = frame[w].row /\ \A p \in OrderNo \ {o} : db'[p] = db[p]
  BY Zenon, <1>4 DEF TypeInv, DataTypeOK
<1>6. ~Inserting(pc'[w]) /\ Inserting(pc[w])
  BY ZenonT(30), <1>1, <1>3 DEF Inserting
<1>7. ~Closed(o) /\ o \in generated
  BY Zenon, <1>1, <1>2, <1>6 DEF Closed, WorkerFresh
<1>8. Closed(o)'
  <2>1. ASSUME NEW v \in Workers, Inserting(pc'[v]) PROVE frame'[v].no # o
    <3>1. v # w /\ pc'[v] = pc[v] /\ frame'[v] = frame[v]
      BY ZenonT(30), <1>3, <1>6, <2>1 DEF Moves
    <3>. QED  BY Zenon, <1>2, <1>6, <2>1, <3>1 DEF FreshInv, DistinctInserts
  <2>. QED  BY Zenon, <1>4, <1>7, <2>1 DEF Closed
<1>9. ~Cached(o) /\ "paid" \notin acked[o]
  BY Zenon, <1>7 DEF FreshInv, OrderFresh
<1>10. OrderFresh(o)'
  <2>1. /\ frame[w].row.status = "PENDING" /\ frame[w].row.paid_at = 0
        /\ o[1] <= frame[w].row.created_at /\ frame[w].row.created_at <= clock
    BY ZenonT(30), <1>1, <1>2, <1>6 DEF FrameOK, WorkerFresh
  <2>. QED  BY ZenonT(30), <1>4, <1>5, <1>8, <1>9, <2>1 DEF OrderFresh, Cached, Exists
<1>11. WorkerFresh(pc[w], frame[w])'
  BY ZenonT(30), <1>2, <1>3, <1>5, <1>8 DEF WorkerFresh, Inserting, Marked
<1>. QED  BY ZenonT(30), <1>3, <1>4, <1>5, <1>6, <1>7, <1>10, <1>11, WriteFresh

\* The UPDATE of pay_order marks the row, if it is still there.
LEMMA UpdateFresh ==
  ASSUME TypeInv, TypeInv', FreshInv, NEW w \in Workers, PayUpdate(w)
  PROVE  FreshInv'
<1>1. /\ FrameOK(pc[w], frame[w]) /\ WorkerFresh(pc[w], frame[w]) /\ pc[w] = "p_update"
  BY Zenon DEF TypeInv, ControlInv, FreshInv, PayUpdate
<1>2. PICK o \in OrderNo : o = frame[w].no
  BY Zenon, <1>1 DEF FrameOK
<1>3. Moves(w) /\ pc'[w] = "p_count" /\ frame'[w] = frame[w]
  BY Zenon, GotoMoves DEF PayUpdate
<1>4. UNCHANGED <<clock, generated, cache, acked>>
  BY Zenon DEF PayUpdate, redisDB, process, history
<1>5. /\ \A p \in OrderNo \ {o} : db'[p] = db[p]
      /\ ~Exists(o) => db' = db
      /\ Exists(o) => /\ db'[o].status = "PAID" /\ db'[o].paid_at = frame[w].now
                      /\ db'[o].amount = db[o].amount
                      /\ db'[o].created_at = db[o].created_at
  <2>1. /\ ~Exists(o) => db' = db
        /\ Exists(o) =>
             db' = [db EXCEPT ![o] = [db[o] EXCEPT !.status = "PAID", !.paid_at = frame[w].now]]
    BY ZenonT(30), <1>2, UpdateWrites
  <2>2. db \in [OrderNo -> Row] /\ db[o] \in Row
    BY Zenon DEF TypeInv, DataTypeOK
  <2>. DEFINE r == [db[o] EXCEPT !.status = "PAID", !.paid_at = frame[w].now]
  <2>3. /\ r.status = "PAID" /\ r.paid_at = frame[w].now
        /\ r.amount = db[o].amount /\ r.created_at = db[o].created_at
    BY Zenon, <2>2 DEF Row
  <2>4. Exists(o) => db' = [db EXCEPT ![o] = r]
    BY ZenonT(30), <2>1
  <2>. HIDE DEF r
  <2>. QED  BY Zenon, <2>1, <2>2, <2>3, <2>4
<1>6. ~Inserting(pc'[w]) /\ Closed(o)
  BY ZenonT(30), <1>1, <1>2, <1>3 DEF Inserting, WorkerFresh
<1>7. Closed(o)'
  BY Zenon, <1>3, <1>4, <1>6, StaysClosed
<1>8. /\ Exists(o)' <=> Exists(o)
      /\ db'[o].status # "PENDING"
  BY Zenon, <1>5 DEF Exists
<1>9. OrderFresh(o)'
  <2>1. OrderFresh(o) /\ (Exists(o) => db[o].created_at <= frame[w].now)
    BY ZenonT(30), <1>1, <1>2 DEF FreshInv, WorkerFresh
  <2>. QED  BY ZenonT(30), <1>4, <1>5, <1>7, <1>8, <2>1 DEF OrderFresh, Cached
<1>10. WorkerFresh(pc[w], frame[w])'
  BY ZenonT(30), <1>2, <1>3, <1>7, <1>8 DEF WorkerFresh, Inserting
<1>. QED  BY Zenon, <1>3, <1>4, <1>5, <1>6, <1>8, <1>9, <1>10, WriteFresh

\* The DELETE of delete_order leaves no row, so nothing is left to say of it.
LEMMA DeleteFresh ==
  ASSUME TypeInv, TypeInv', FreshInv, NEW w \in Workers, DeleteStep(w)
  PROVE  FreshInv'
<1>1. FrameOK(pc[w], frame[w]) /\ pc[w] = "d_delete"
  BY Zenon DEF TypeInv, ControlInv, DeleteStep
<1>2. PICK o \in OrderNo : o = frame[w].no
  BY ZenonT(30), <1>1 DEF FrameOK
<1>3. Moves(w) /\ pc'[w] = "d_changes" /\ frame'[w] = frame[w]
  BY Zenon, GotoMoves DEF DeleteStep
<1>4. /\ UNCHANGED <<clock, generated, cache, acked>>
      /\ db' = [db EXCEPT ![o] = Absent]
  BY Zenon, <1>2 DEF DeleteStep, redisDB, process
<1>5. db'[o] = Absent /\ \A p \in OrderNo \ {o} : db'[p] = db[p]
  BY Zenon, <1>4 DEF TypeInv, DataTypeOK
<1>6. ~Inserting(pc'[w])
  BY Zenon, <1>3 DEF Inserting
<1>7. ~Exists(o)' /\ db'[o].status # "PENDING"
  BY SMTT(30), <1>5 DEF Exists, Absent
<1>8. OrderFresh(o)'
  <2>1. OrderFresh(o) /\ (Closed(o) => Closed(o)')
    BY ZenonT(30), <1>3, <1>4, <1>6, StaysClosed DEF FreshInv
  <2>. QED  BY ZenonT(30), <1>4, <1>7, <2>1 DEF OrderFresh, Cached
<1>9. WorkerFresh(pc[w], frame[w])'
  BY Zenon, <1>3 DEF WorkerFresh, Inserting, Marked
<1>. QED  BY ZenonT(30), <1>3, <1>4, <1>5, <1>6, <1>7, <1>8, <1>9, WriteFresh

\* The SET of create_order, however late, writes what the INSERT wrote.
LEMMA SetFresh ==
  ASSUME TypeInv, TypeInv', FreshInv, NEW w \in Workers, TryCacheOrder(w)
  PROVE  FreshInv'
<1>1. /\ frame[w] \in Frame /\ FrameOK(pc[w], frame[w])
      /\ WorkerFresh(pc[w], frame[w]) /\ pc[w] = "c_set"
  BY Zenon DEF TypeInv, ControlInv, FreshInv, TryCacheOrder
<1>2. PICK o \in OrderNo : o = frame[w].no
  BY Zenon, <1>1 DEF FrameOK
<1>3. /\ UNCHANGED <<clock, generated, db, acked>>
      /\ cache' = [cache EXCEPT ![o] = frame[w].row] \/ cache' = cache
  BY Zenon, <1>2 DEF TryCacheOrder, redisDB, process, table, history
<1>4. PICK ok : Goto(w, "record", [frame[w] EXCEPT !.ok = ok])
  BY Zenon DEF TryCacheOrder
<1>5. Moves(w) /\ pc'[w] = "record" /\ frame'[w] = [frame[w] EXCEPT !.ok = ok]
  BY Zenon, <1>4, GotoMoves
<1>6. frame'[w].op = "create"
  BY Zenon, <1>1, <1>5 DEF Frame, FrameOK
<1>7. /\ cache'[o] = frame[w].row \/ cache'[o] = cache[o]
      /\ \A p \in OrderNo \ {o} : cache'[p] = cache[p]
  BY Zenon, <1>3 DEF TypeInv, DataTypeOK
<1>8. ~Inserting(pc'[w])
  BY ZenonT(30), <1>5 DEF Inserting
<1>9. OrderFresh(o)'
  <2>1. /\ Closed(o) /\ frame[w].row.status = "PENDING"
        /\ Exists(o) => /\ db[o].amount = frame[w].row.amount
                        /\ db[o].created_at = frame[w].row.created_at
    BY ZenonT(30), <1>1, <1>2 DEF WorkerFresh, FrameOK
  <2>2. OrderFresh(o) /\ Closed(o)'
    BY Zenon, <1>3, <1>5, <1>8, <2>1, StaysClosed DEF FreshInv
  <2>. QED  BY ZenonT(30), <1>3, <1>7, <2>1, <2>2 DEF OrderFresh, Cached, Exists
<1>10. WorkerFresh(pc[w], frame[w])'
  BY Zenon, <1>5, <1>6 DEF WorkerFresh, Inserting, Marked
<1>. QED  BY Zenon, <1>3, <1>5, <1>7, <1>8, <1>9, <1>10, WriteFresh DEF Exists

\* The DEL of pay_order and delete_order.
LEMMA DelFresh ==
  ASSUME TypeInv, TypeInv', FreshInv, NEW w \in Workers, InvalidateCachedOrder(w)
  PROVE  FreshInv'
<1>1. /\ frame[w] \in Frame /\ FrameOK(pc[w], frame[w])
      /\ WorkerFresh(pc[w], frame[w]) /\ pc[w] \in {"p_del", "d_del"}
  BY Zenon DEF TypeInv, ControlInv, FreshInv, InvalidateCachedOrder
<1>2. PICK o \in OrderNo : o = frame[w].no
  BY Zenon, <1>1 DEF FrameOK
<1>3. /\ UNCHANGED <<clock, generated, db, acked>>
      /\ cache' = [cache EXCEPT ![o] = Absent] \/ cache' = cache
  BY Zenon, <1>2 DEF InvalidateCachedOrder, redisDB, process, table, history
<1>4. PICK ok : Goto(w, "record", [frame[w] EXCEPT !.ok = ok])
  BY Zenon DEF InvalidateCachedOrder
<1>5. Moves(w) /\ pc'[w] = "record" /\ frame'[w] = [frame[w] EXCEPT !.ok = ok]
  BY Zenon, <1>4, GotoMoves
<1>6. frame'[w].op = frame[w].op /\ frame'[w].no = o
  BY Zenon, <1>1, <1>2, <1>5 DEF Frame
<1>7. \A p \in OrderNo : cache'[p] \in {cache[p], Absent}
  BY Zenon, <1>3 DEF TypeInv, DataTypeOK
<1>8. ~Inserting(pc'[w]) /\ \A p \in OrderNo : Closed(p) => Closed(p)'
  BY Zenon, <1>3, <1>5, StaysClosed DEF Inserting
<1>9. clock <= clock'
  BY <1>3, FreshTypes
<1>10. \A p \in OrderNo : OrderFresh(p)'
  BY Zenon, <1>3, <1>7, <1>8, <1>9, OrdersFresh
<1>11. Kept
  BY ZenonT(30), <1>3, <1>8, <1>9 DEF Kept, Exists
<1>12. Marked(pc[w], frame[w])' => Closed(o)' /\ db'[o].status # "PENDING"
  <2>1. Marked(pc[w], frame[w])' => pc[w] = "p_del"
    BY ZenonT(30), <1>1, <1>5, <1>6 DEF Marked, FrameOK
  <2>2. pc[w] = "p_del" => Closed(o) /\ db[o].status # "PENDING"
    BY Zenon, <1>1, <1>2 DEF WorkerFresh, Marked
  <2>. QED  BY Zenon, <1>3, <1>8, <2>1, <2>2
<1>13. WorkerFresh(pc[w], frame[w])'
  BY ZenonT(30), <1>5, <1>6, <1>12 DEF WorkerFresh, Inserting
<1>. QED  BY Zenon, <1>5, <1>8, <1>10, <1>11, <1>13, StepFresh

\* A payment is acknowledged by a worker that has marked the order.
LEMMA RespondFresh ==
  ASSUME TypeInv, TypeInv', FreshInv, NEW w \in Workers, Respond(w)
  PROVE  FreshInv'
<1>1. FrameOK(pc[w], frame[w]) /\ WorkerFresh(pc[w], frame[w]) /\ pc[w] = "reply"
  BY Zenon DEF TypeInv, ControlInv, FreshInv, Respond
<1>2. Moves(w) /\ pc'[w] = "idle" /\ frame'[w] = NoFrame
  BY Zenon, GotoMoves DEF Respond
<1>3. UNCHANGED <<clock, generated, db, cache>>
  BY Zenon DEF Respond, process, table, redisDB
<1>4. NoFrame.op = "none"
  BY Zenon DEF NoFrame
<1>5. ~Inserting(pc'[w]) /\ \A p \in OrderNo : Closed(p) => Closed(p)'
  BY ZenonT(30), <1>2, <1>3, StaysClosed DEF Inserting
<1>6. WorkerFresh(pc[w], frame[w])'
  BY ZenonT(30), <1>2, <1>4 DEF WorkerFresh, Inserting, Marked
<1>7. Kept
  BY ZenonT(30), <1>3, <1>5, ClockStands DEF Kept, Exists
<1>8. ASSUME NEW p \in OrderNo, "paid" \in acked'[p], "paid" \notin acked[p]
      PROVE  Marked(pc[w], frame[w]) /\ p = frame[w].no
  <2>1. acked \in [OrderNo -> Facts]
    BY Zenon DEF TypeInv, DataTypeOK
  <2>2. CASE frame[w].code = 200 /\ frame[w].op = "pay"
    <3>1. acked' = [acked EXCEPT ![frame[w].no] = @ \cup {"paid"}]
      BY Zenon, <2>2 DEF Respond
    <3>. QED  BY <1>1, <1>8, <2>1, <2>2, <3>1 DEF Marked
  <2>3. CASE frame[w].code = 200 /\ frame[w].op = "delete"
    <3>1. acked' = [acked EXCEPT ![frame[w].no] = @ \cup {"deleted"}]
      BY Zenon, <2>3 DEF Respond
    <3>. QED  BY Zenon, <1>8, <2>1, <3>1
  <2>4. CASE ~(frame[w].code = 200 /\ frame[w].op \in {"pay", "delete"})
    <3>1. acked' = acked
      BY ZenonT(30), <2>4 DEF Respond
    <3>. QED  BY Zenon, <1>8, <3>1
  <2>. QED  BY Zenon, <2>2, <2>3, <2>4
<1>9. ASSUME NEW p \in OrderNo PROVE OrderFresh(p)'
  <2>1. OrderFresh(p)
    BY ZenonT(30) DEF FreshInv
  <2>2. "paid" \in acked'[p] => Closed(p) /\ db[p].status # "PENDING"
    BY ZenonT(30), <1>1, <1>8, <2>1 DEF OrderFresh, WorkerFresh
  <2>. QED  BY Zenon, <1>3, <1>5, <2>1, <2>2 DEF OrderFresh, Exists, Cached
<1>. QED  BY ZenonT(30), <1>2, <1>5, <1>6, <1>7, <1>9, StepFresh

-----------------------------------------------------------------------------
\* Arrivals, time and restarts.

\* A new order takes a number that was never generated; no other arrival
\* takes one.
LEMMA ArriveFresh ==
  ASSUME TypeInv, TypeInv', FreshInv, NEW w \in Workers, Arrive(w), ~repeated'
  PROVE  FreshInv'
<1>. USE NoFrameType
<1>1. ASSUME NEW l, NEW f, Begin(w, l, f), generated \subseteq generated',
             WorkerFresh(pc[w], frame[w])',
             Inserting(l) => f.no \notin generated
      PROVE  FreshInv'
  <2>1. Moves(w) /\ pc'[w] = l /\ frame'[w] = f /\ UNCHANGED <<clock, db, cache, acked>>
    BY ZenonT(30), <1>1, BeginMoves
  <2>2. (\A p \in OrderNo : Closed(p) => Closed(p)') /\ clock <= clock'
    BY ZenonT(30), <1>1, <2>1, StaysClosed, ClockStands
  <2>3. Kept
    BY Zenon, <1>1, <2>1, <2>2 DEF Kept, Exists
  <2>4. \A p \in OrderNo : OrderFresh(p)'
    BY Zenon, <2>1, <2>2, OrdersFresh
  <2>. QED  BY ZenonT(30), <1>1, <2>1, <2>3, <2>4, StepFresh
<1>2. CASE CreateOrder(w)
  <2>1. PICK a \in Amounts, r \in RandParts :
          /\ <<clock, r>> \notin generated
          /\ Begin(w, "c_now", [NoFrame EXCEPT !.op = "create", !.no = <<clock, r>>,
                                               !.row = Pending(a, 0)])
          /\ generated' = generated \cup {<<clock, r>>}
    BY Zenon, <1>2 DEF CreateOrder
  <2>. DEFINE f == [NoFrame EXCEPT !.op = "create", !.no = <<clock, r>>, !.row = Pending(a, 0)]
  <2>2. f.op = "create" /\ f.no = <<clock, r>> /\ f.row = Pending(a, 0)
    BY Zenon DEF Frame
  <2>3. Begin(w, "c_now", f)
    BY Zenon, <2>1
  <2>. HIDE DEF f
  <2>4. pc'[w] = "c_now" /\ frame'[w] = f /\ clock' = clock
    BY ZenonT(30), <2>3, BeginMoves
  <2>5. f.no[1] <= clock /\ f.row.paid_at = 0
    BY <2>2, FreshTypes DEF Pending
  <2>6. WorkerFresh(pc[w], frame[w])'
    BY ZenonT(30), <2>1, <2>2, <2>4, <2>5 DEF WorkerFresh, Inserting, Marked
  <2>. QED  BY Zenon, <1>1, <2>1, <2>2, <2>3, <2>6
<1>3. ASSUME NEW l \in {"g_get", "p_select", "l_prepare", "d_delete"}, NEW f,
             Begin(w, l, f), UNCHANGED <<generated, repeated>>
      PROVE  FreshInv'
  <2>1. pc'[w] = l /\ ~Inserting(l)
    BY ZenonT(30), <1>3, BeginMoves DEF Inserting
  <2>2. WorkerFresh(pc[w], frame[w])'
    BY Zenon, <2>1 DEF WorkerFresh, Inserting, Marked
  <2>. QED  BY Zenon, <1>1, <1>3, <2>1, <2>2
<1>4. CASE GetOrder(w) \/ PayOrder(w) \/ ListOrders(w) \/ DeleteOrder(w)
  <2>1. PICK l \in {"g_get", "p_select", "l_prepare", "d_delete"} :
          \E f : Begin(w, l, f) /\ UNCHANGED <<generated, repeated>>
    BY ZenonT(30), <1>4 DEF GetOrder, PayOrder, ListOrders, DeleteOrder
  <2>. QED  BY Zenon, <1>3, <2>1
<1>5. CASE RefuseBody(w)
  <2>1. PICK op \in {"create", "pay"}, c \in {400, 500} :
          /\ Begin(w, "reply", [NoFrame EXCEPT !.op = op, !.code = c])
          /\ UNCHANGED <<generated, repeated>>
    BY Zenon, <1>5 DEF RefuseBody
  <2>. DEFINE f == [NoFrame EXCEPT !.op = op, !.code = c]
  <2>2. f.code # 200
    BY DEF Frame
  <2>3. Begin(w, "reply", f)
    BY ZenonT(30), <2>1
  <2>. HIDE DEF f
  <2>4. ~Inserting("reply")
    BY Zenon DEF Inserting
  <2>5. pc'[w] = "reply" /\ frame'[w] = f
    BY SMTT(30), <2>3, BeginMoves
  <2>6. WorkerFresh(pc[w], frame[w])'
    BY ZenonT(30), <2>2, <2>5 DEF WorkerFresh, Inserting, Marked
  <2>. QED  BY Zenon, <1>1, <2>1, <2>3, <2>4, <2>6
<1>. QED  BY Zenon, <1>2, <1>4, <1>5 DEF Arrive

\* Time passes and entries expire.
LEMMA PassFresh ==
  ASSUME TypeInv, TypeInv', FreshInv, clock <= clock',
         UNCHANGED <<pc, frame, db, generated, acked>>,
         \A o \in OrderNo : cache'[o] \in {cache[o], Absent}
  PROVE  FreshInv'
<1>1. \A p \in OrderNo : Closed(p) => Closed(p)'
  BY Zenon DEF Closed
<1>2. Kept
  BY Zenon, <1>1 DEF Kept, Exists
<1>3. \A p \in OrderNo : OrderFresh(p)'
  BY Zenon, <1>1, OrdersFresh
<1>4. \A v \in Workers : WorkerFresh(pc[v], frame[v])'
  BY Zenon, <1>2, OthersFresh
<1>5. DistinctInserts'
  BY Zenon DEF FreshInv, DistinctInserts
<1>. QED  BY ZenonT(30), <1>3, <1>4, <1>5 DEF FreshInv

\* A restart forgets the workers and keeps table and cache.
LEMMA RestartFresh ==
  ASSUME TypeInv, TypeInv', FreshInv, Restart
  PROVE  FreshInv'
<1>1. /\ \A w \in Workers : pc'[w] = "idle" /\ frame'[w] = NoFrame
      /\ UNCHANGED <<clock, db, cache, generated, acked>>
  BY Zenon DEF Restart, redisDB
<1>2. NoFrame.op = "none"
  BY Zenon DEF NoFrame
<1>3. \A p \in OrderNo : Closed(p) => Closed(p)'
  BY Zenon, <1>1 DEF Closed, Inserting
<1>4. clock <= clock'
  BY <1>1, FreshTypes
<1>5. \A p \in OrderNo : OrderFresh(p)'
  BY ZenonT(30), <1>1, <1>3, <1>4, OrdersFresh
<1>6. (\A w \in Workers : WorkerFresh(pc[w], frame[w])') /\ DistinctInserts'
  BY Zenon, <1>1, <1>2 DEF WorkerFresh, Inserting, Marked, DistinctInserts
<1>. QED  BY Zenon, <1>5, <1>6 DEF FreshInv

-----------------------------------------------------------------------------
\* The history of generate_order_no only grows.
LEMMA HistoryGrows ==
  ASSUME [Next]_vars
  PROVE  generated \subseteq generated' /\ (repeated => repeated')
<1>. DEFINE Grows == generated \subseteq generated' /\ (repeated => repeated')
<1>0. ASSUME UNCHANGED <<generated, repeated>> PROVE Grows
  BY Zenon, <1>0
<1>1. ASSUME NEW w \in Workers, Arrive(w) PROVE Grows
  <2>1. ASSUME CreateOrder(w) PROVE Grows
    <3>1. PICK o : /\ generated' = generated \cup {o}
                   /\ repeated' = (repeated \/ o \in generated)
      BY Zenon, <2>1 DEF CreateOrder
    <3>. QED  BY Zenon, <3>1
  <2>2. ASSUME ~CreateOrder(w) PROVE UNCHANGED <<generated, repeated>>
    BY ZenonT(30), <1>1, <2>2 DEF Arrive, GetOrder, PayOrder, RefuseBody, ListOrders, DeleteOrder
  <2>. QED  BY Zenon, <1>0, <2>1, <2>2
<1>2. ASSUME NEW w \in Workers, Step(w) PROVE UNCHANGED <<generated, repeated>>
  BY ZenonT(30), <1>2
     DEF Step, CreateStamp, CreateInsert, CreateConflict, CreateCount, TryCacheOrder,
         TryGetCachedOrder, GetSelect, PaySelect, PayStamp, PayUpdate, PayCount,
         InvalidateCachedOrder, ListPrepare, ListStep, ListDone, DeleteStep, DeleteChanges,
         NoRedisClient, RecordRedis, Respond, SqliteFails, SqliteStepFails, Local, history
<1>3. ASSUME Tick \/ (\E p \in OrderNo : Expire(p)) \/ Restart \/ UNCHANGED vars
      PROVE  UNCHANGED <<generated, repeated>>
  BY Zenon, <1>3 DEF Tick, Expire, Restart, vars, history
<1>. HIDE DEF Grows
<1>4. Grows
  BY Zenon, <1>0, <1>1, <1>2, <1>3 DEF Next, Finished
<1>. QED  BY Zenon, <1>4 DEF Grows

\* While order numbers do not repeat, the invariant holds throughout: after
\* its INSERT a number is closed, so a payment or a SET that comes late finds
\* the row its handler knew, or none.
THEOREM FreshInvariant == Spec => [](repeated \/ FreshInv)
<1>1. Init => FreshInv
  <2>. SUFFICES ASSUME Init PROVE FreshInv
    OBVIOUS
  <2>1. NoFrame.op = "none" /\ Absent.status = "ABSENT"
    BY Zenon DEF NoFrame, Absent
  <2>2. /\ \A w \in Workers : pc[w] = "idle" /\ frame[w] = NoFrame
        /\ \A o \in OrderNo : db[o] = Absent /\ cache[o] = Absent /\ acked[o] = {}
    BY Zenon DEF Init
  <2>. QED  BY Zenon, <2>1, <2>2 DEF FreshInv, WorkerFresh, Inserting, Marked, DistinctInserts,
                              OrderFresh, Exists, Cached
<1>2. TypeInv /\ TypeInv' /\ (repeated \/ FreshInv) /\ [Next]_vars => (repeated \/ FreshInv)'
  <2>. SUFFICES ASSUME TypeInv, TypeInv', FreshInv, [Next]_vars, ~repeated' PROVE FreshInv'
    BY Zenon, HistoryGrows
  <2>1. ASSUME NEW w \in Workers, Arrive(w) PROVE FreshInv'
    BY Zenon, <2>1, ArriveFresh
  <2>2. ASSUME NEW w \in Workers, Step(w) PROVE FreshInv'
    BY ZenonT(30), <2>2, LocalStepsFresh, InsertFresh, UpdateFresh, DeleteFresh, SetFresh, DelFresh,
       RespondFresh DEF Step, LocalStep
  <2>3. CASE Tick
    <3>1. /\ clock' = clock + 1 /\ UNCHANGED <<pc, frame, db, generated, acked>>
          /\ cache' = [o \in OrderNo |-> IF expires[o] < clock' THEN Absent ELSE cache[o]]
      BY Zenon, <2>3 DEF Tick, table, history
    <3>2. \A p \in OrderNo : cache'[p] \in {cache[p], Absent}
      BY Zenon, <3>1
    <3>3. clock <= clock'
      BY <3>1, FreshTypes
    <3>. QED  BY ZenonT(30), <3>1, <3>2, <3>3, PassFresh
  <2>4. ASSUME NEW o \in OrderNo, Expire(o) PROVE FreshInv'
    <3>1. /\ UNCHANGED <<clock, pc, frame, db, generated, acked>>
          /\ cache' = [cache EXCEPT ![o] = Absent]
      BY Zenon, <2>4 DEF Expire, table, process, history
    <3>2. \A p \in OrderNo : cache'[p] \in {cache[p], Absent}
      BY Zenon, <3>1 DEF TypeInv, DataTypeOK
    <3>3. clock <= clock'
      BY <3>1, FreshTypes
    <3>. QED  BY ZenonT(30), <3>1, <3>2, <3>3, PassFresh
  <2>5. CASE Restart
    BY Zenon, <2>5, RestartFresh
  <2>6. CASE UNCHANGED vars
    <3>1. UNCHANGED <<clock, pc, frame, db, cache, generated, acked>>
      BY Zenon, <2>6 DEF vars, table, redisDB, process, history
    <3>2. clock <= clock'
      BY <3>1, FreshTypes
    <3>. QED  BY Zenon, <3>1, <3>2, PassFresh
  <2>. QED  BY <2>1, <2>2, <2>3, <2>4, <2>5, <2>6 DEF Next, Finished
<1>. QED  BY <1>1, <1>2, TypeInvariant, PTL DEF Spec

\* The times of an order are in order (number, created_at, paid_at) although
\* create_order and pay_order read the clock in separate calls.
THEOREM TimesOrderedCorrect == Spec => []TimesOrdered
<1>1. repeated \/ FreshInv => TimesOrdered
  BY ZenonT(30) DEF FreshInv, OrderFresh, TimesOrdered
<1>. QED  BY <1>1, FreshInvariant, PTL

\* A payment answered with 200 is never lost, across faults and restarts:
\* the order is paid, or has been deleted.
THEOREM PaymentDurableCorrect == Spec => []PaymentDurable
<1>1. repeated \/ FreshInv => PaymentDurable
  BY ZenonT(30) DEF FreshInv, OrderFresh, PaymentDurable
<1>. QED  BY <1>1, FreshInvariant, PTL

\* A cached payload agrees with the row of its order in amount and creation
\* time, even when the SET of create_order comes late or a DEL is lost.
THEOREM CachedMatchesRowCorrect == Spec => []CachedMatchesRow
<1>1. repeated \/ FreshInv => CachedMatchesRow
  BY Zenon DEF FreshInv, OrderFresh, CachedMatchesRow
<1>. QED  BY <1>1, FreshInvariant, PTL

-----------------------------------------------------------------------------
\* The life of a cached entry.

\* The entry of o is as it was.
EntryKept(o) == cache'[o] = cache[o] /\ expires'[o] = expires[o]

\* Only the SET, the DEL and the passing of time touch Redis or the clock.
LEMMA RedisStands ==
  ASSUME NEW w \in Workers,
         \/ Arrive(w) \/ LocalStep(w) \/ Respond(w)
         \/ CreateInsert(w) \/ PayUpdate(w) \/ DeleteStep(w)
  PROVE  UNCHANGED <<clock, cache, expires>>
<1>1. CASE Arrive(w)
  BY ZenonT(30), <1>1 DEF Arrive, CreateOrder, GetOrder, PayOrder, RefuseBody, ListOrders,
                          DeleteOrder, Begin, redisDB
<1>2. CASE Respond(w) \/ CreateInsert(w) \/ PayUpdate(w) \/ DeleteStep(w)
  BY Zenon, <1>2 DEF Respond, CreateInsert, PayUpdate, DeleteStep, redisDB, process
<1>3. CASE LocalStep(w)
  BY ZenonT(30), <1>3
     DEF LocalStep, CreateStamp, CreateConflict, CreateCount, TryGetCachedOrder, GetSelect,
         PaySelect, PayStamp, PayCount, ListPrepare, ListStep, ListDone, DeleteChanges,
         NoRedisClient, RecordRedis, SqliteFails, SqliteStepFails, Local, redisDB, process
<1>. QED  BY Zenon, <1>1, <1>2, <1>3

\* What a step makes of an entry: it is gone, or as it was and not run out, or
\* set by the handler that creates its order.
LEMMA EntrySteps ==
  ASSUME TypeInv, [Next]_vars, NEW o \in OrderNo
  PROVE  \/ ~Cached(o)'
         \/ EntryKept(o) /\ (clock' = clock \/ (clock' = clock + 1 /\ ~(expires[o] < clock')))
         \/ /\ clock' = clock /\ expires'[o] = clock + CacheTTL
            /\ \E w \in Workers : pc[w] = "c_set" /\ frame[w].no = o
<1>. DEFINE Goal == \/ ~Cached(o)'
                    \/ EntryKept(o) /\ (clock' = clock \/ (clock' = clock + 1 /\ ~(expires[o] < clock')))
                    \/ /\ clock' = clock /\ expires'[o] = clock + CacheTTL
                       /\ \E w \in Workers : pc[w] = "c_set" /\ frame[w].no = o
<1>1. Absent.status = "ABSENT"
  BY Zenon DEF Absent
<1>2. cache \in [OrderNo -> Row] /\ expires \in [OrderNo -> 0..(MaxClock + CacheTTL)]
  BY Zenon DEF TypeInv, DataTypeOK
<1>3. ASSUME UNCHANGED <<clock, cache, expires>> PROVE Goal
  BY Zenon, <1>3 DEF EntryKept
<1>4. ASSUME NEW p \in OrderNo, clock' = clock,
             cache' = [cache EXCEPT ![p] = Absent], expires' = [expires EXCEPT ![p] = 0]
      PROVE  Goal
  BY Zenon, <1>1, <1>2, <1>4 DEF EntryKept, Cached
<1>5. ASSUME NEW w \in Workers, Step(w) PROVE Goal
  <2>1. CASE TryCacheOrder(w)
    <3>1. clock' = clock /\ pc[w] = "c_set"
      BY Zenon, <2>1 DEF TryCacheOrder, process
    <3>2. CASE UNCHANGED redisDB
      BY Zenon, <1>3, <3>1, <3>2 DEF redisDB
    <3>3. CASE /\ cache' = [cache EXCEPT ![frame[w].no] = frame[w].row]
               /\ expires' = [expires EXCEPT ![frame[w].no] = clock + CacheTTL]
      BY Zenon, <1>2, <3>1, <3>3 DEF EntryKept
    <3>. QED  BY Zenon, <2>1, <3>2, <3>3 DEF TryCacheOrder
  <2>2. CASE InvalidateCachedOrder(w)
    <3>1. clock' = clock /\ frame[w].no \in OrderNo
      BY Zenon, <2>2 DEF InvalidateCachedOrder, process, TypeInv, ControlInv, FrameOK
    <3>2. CASE UNCHANGED redisDB
      BY Zenon, <1>3, <3>1, <3>2 DEF redisDB
    <3>3. CASE /\ cache' = [cache EXCEPT ![frame[w].no] = Absent]
               /\ expires' = [expires EXCEPT ![frame[w].no] = 0]
      BY Zenon, <1>4, <3>1, <3>3
    <3>. QED  BY Zenon, <2>2, <3>2, <3>3 DEF InvalidateCachedOrder
  <2>. QED  BY Zenon, <1>3, <1>5, <2>1, <2>2, RedisStands DEF Step, LocalStep
<1>6. ASSUME Tick PROVE Goal
  BY Zenon, <1>1, <1>6 DEF Tick, EntryKept, Cached
<1>7. ASSUME NEW p \in OrderNo, Expire(p) PROVE Goal
  BY Zenon, <1>4, <1>7 DEF Expire, process
<1>8. ASSUME Restart \/ UNCHANGED vars PROVE Goal
  BY Zenon, <1>3, <1>8 DEF Restart, vars, redisDB, process
<1>9. ASSUME NEW w \in Workers, Arrive(w) PROVE Goal
  BY Zenon, <1>3, <1>9, RedisStands
<1>. HIDE DEF Goal
<1>10. Goal
  BY Zenon, <1>5, <1>6, <1>7, <1>8, <1>9 DEF Next, Finished
<1>. QED  BY Zenon, <1>10 DEF Goal

\* An entry of Redis is gone when its TTL has run out, and never has more than
\* CacheTTL seconds left.
EntryExpires == \A o \in OrderNo :
  Cached(o) => clock <= expires[o] /\ expires[o] <= clock + CacheTTL

\* It is so in every environment, whichever commands fail.
LEMMA EntriesExpire == Spec => []EntryExpires
<1>1. Init => EntryExpires
  <2>. SUFFICES ASSUME Init, NEW o \in OrderNo PROVE ~Cached(o)
    BY Zenon DEF EntryExpires
  <2>1. cache[o] = Absent
    BY Zenon DEF Init
  <2>2. Absent.status = "ABSENT"
    BY Zenon DEF Absent
  <2>. QED  BY Zenon, <2>1, <2>2 DEF Cached
<1>2. TypeInv /\ EntryExpires /\ [Next]_vars => EntryExpires'
  <2>. SUFFICES ASSUME TypeInv, EntryExpires, [Next]_vars, NEW o \in OrderNo, Cached(o)'
                PROVE  clock' <= expires'[o] /\ expires'[o] <= clock' + CacheTTL
    BY Zenon DEF EntryExpires
  <2>1. clock \in Int /\ expires[o] \in Int /\ CacheTTL \in Nat
    BY ConstantsAssumption DEF TypeInv, DataTypeOK
  <2>2. CASE EntryKept(o) /\ (clock' = clock \/ (clock' = clock + 1 /\ ~(expires[o] < clock')))
    <3>1. clock <= expires[o] /\ expires[o] <= clock + CacheTTL /\ expires'[o] = expires[o]
      BY Zenon, <2>2 DEF EntryExpires, EntryKept, Cached
    <3>. QED  BY <2>1, <2>2, <3>1
  <2>3. CASE clock' = clock /\ expires'[o] = clock + CacheTTL
    BY <2>1, <2>3
  <2>. QED  BY Zenon, <2>2, <2>3, EntrySteps
<1>. QED  BY <1>1, <1>2, TypeInvariant, PTL DEF Spec

\* The labels at which a handler may still set the entry of its order.
CreateLabels == {"c_now", "c_insert", "c_count", "c_set"}

\* A handler at one of them was at one of them before, with the same number.
LEMMA StaysCreating ==
  ASSUME TypeInv, NEW w \in Workers, Step(w), pc'[w] \in CreateLabels
  PROVE  /\ pc[w] \in CreateLabels /\ frame'[w].no = frame[w].no
         /\ Inserting(pc'[w]) => Inserting(pc[w])
<1>1. CASE CreateStamp(w)
  <2>1. frame[w] \in Frame
    BY Zenon DEF TypeInv, ControlInv
  <2>2. pc[w] = "c_now" /\ frame'[w] = [frame[w] EXCEPT !.row.created_at = clock]
    BY Zenon, <1>1, GotoMoves DEF CreateStamp
  <2>. QED  BY Zenon, <2>1, <2>2 DEF Frame, CreateLabels, Inserting
<1>2. CASE CreateInsert(w) \/ CreateCount(w)
  <2>1. /\ pc[w] \in {"c_insert", "c_count"} /\ pc'[w] \in {"c_count", "c_set"}
        /\ frame'[w] = frame[w]
    BY Zenon, <1>2, GotoMoves DEF CreateInsert, CreateCount
  <2>. QED  BY Zenon, <2>1 DEF CreateLabels, Inserting
<1>. DEFINE Others == {"idle", "reply", "record", "g_select", "p_now", "p_update", "p_count",
                       "p_del", "l_scan", "d_changes", "d_del"}
<1>3. \A l \in Others : l \notin CreateLabels
  BY Zenon DEF CreateLabels
<1>4. \A c : Reply(w, c) => \E l \in Others : \E f : Goto(w, l, f)
  BY Zenon DEF Reply
<1>5. ASSUME \/ CreateConflict(w) \/ PaySelect(w) \/ ListDone(w) \/ DeleteChanges(w)
             \/ NoRedisClient(w) \/ RecordRedis(w) \/ SqliteFails(w) \/ SqliteStepFails(w)
      PROVE  \E l \in Others : \E f : Goto(w, l, f)
  BY ZenonT(30), <1>4, <1>5
     DEF CreateConflict, PaySelect, ListDone, DeleteChanges, NoRedisClient, RecordRedis,
         SqliteFails, SqliteStepFails
<1>6. ASSUME TryCacheOrder(w) \/ TryGetCachedOrder(w) \/ InvalidateCachedOrder(w)
      PROVE  \E l \in Others : \E f : Goto(w, l, f)
  BY ZenonT(30), <1>6 DEF TryCacheOrder, TryGetCachedOrder, InvalidateCachedOrder
<1>7. ASSUME GetSelect(w) \/ PayStamp(w) \/ ListPrepare(w) \/ ListStep(w)
      PROVE  \E l \in Others : \E f : Goto(w, l, f)
  <2>1. CASE GetSelect(w)
    <3>1. \E f : Goto(w, "reply", f)
      BY Zenon, <2>1 DEF GetSelect
    <3>. QED  BY Zenon, <3>1
  <2>2. CASE ListStep(w)
    <3>1. \E f : Goto(w, "l_scan", f)
      BY Zenon, <2>2 DEF ListStep
    <3>. QED  BY Zenon, <3>1
  <2>. QED  BY Zenon, <1>7, <2>1, <2>2 DEF PayStamp, ListPrepare
<1>8. ASSUME PayUpdate(w) \/ PayCount(w) \/ DeleteStep(w) \/ Respond(w)
      PROVE  \E l \in Others : \E f : Goto(w, l, f)
  BY ZenonT(30), <1>8 DEF PayUpdate, PayCount, DeleteStep, Respond
<1>. HIDE DEF Others
<1>9. ASSUME NEW l \in Others, NEW f, Goto(w, l, f) PROVE FALSE
  BY Zenon, <1>3, <1>9, GotoMoves
<1>. QED  BY Zenon, <1>1, <1>2, <1>5, <1>6, <1>7, <1>8, <1>9 DEF Step

\* Every step of a worker is a jump.
LEMMA StepMoves ==
  ASSUME TypeInv, NEW w \in Workers, Step(w)
  PROVE  Moves(w)
<1>1. ASSUME NEW l, NEW f, Goto(w, l, f) PROVE Moves(w)
  BY Zenon, <1>1, GotoMoves
<1>2. ASSUME NEW c, Reply(w, c) PROVE Moves(w)
  BY Zenon, <1>1, <1>2 DEF Reply
<1>3. CASE \/ CreateConflict(w) \/ PaySelect(w) \/ ListDone(w) \/ DeleteChanges(w)
          \/ NoRedisClient(w) \/ RecordRedis(w) \/ SqliteFails(w) \/ SqliteStepFails(w)
  BY ZenonT(30), <1>1, <1>2, <1>3
     DEF CreateConflict, PaySelect, ListDone, DeleteChanges, NoRedisClient, RecordRedis,
         SqliteFails, SqliteStepFails
<1>4. CASE \/ TryCacheOrder(w) \/ TryGetCachedOrder(w) \/ GetSelect(w) \/ PayStamp(w)
          \/ PayUpdate(w) \/ PayCount(w) \/ InvalidateCachedOrder(w) \/ ListPrepare(w)
          \/ ListStep(w) \/ DeleteStep(w) \/ Respond(w)
          \/ CreateStamp(w) \/ CreateInsert(w) \/ CreateCount(w)
  BY ZenonT(30), <1>1, <1>4
     DEF TryCacheOrder, TryGetCachedOrder, GetSelect, PayStamp, PayUpdate, PayCount,
         InvalidateCachedOrder, ListPrepare, ListStep, DeleteStep, Respond, CreateStamp,
         CreateInsert, CreateCount
<1>. QED  BY Zenon, <1>3, <1>4 DEF Step

\* A request that begins takes no number that is out.
LEMMA ArriveOutside ==
  ASSUME NEW w \in Workers, Arrive(w), ~repeated'
  PROVE  \E l, f : Begin(w, l, f) /\ (l \in CreateLabels => f.no \notin generated)
<1>. USE NoFrameType
<1>1. CASE CreateOrder(w)
  <2>1. PICK a \in Amounts, r \in RandParts :
          /\ <<clock, r>> \notin generated
          /\ Begin(w, "c_now", [NoFrame EXCEPT !.op = "create", !.no = <<clock, r>>,
                                               !.row = Pending(a, 0)])
    BY Zenon, <1>1 DEF CreateOrder
  <2>2. [NoFrame EXCEPT !.op = "create", !.no = <<clock, r>>, !.row = Pending(a, 0)].no
          = <<clock, r>>
    BY Zenon DEF Frame
  <2>. QED  BY Zenon, <2>1, <2>2
<1>2. CASE GetOrder(w) \/ PayOrder(w) \/ ListOrders(w) \/ DeleteOrder(w) \/ RefuseBody(w)
  <2>1. PICK l \in {"g_get", "p_select", "l_prepare", "d_delete", "reply"} :
          \E f : Begin(w, l, f)
    BY ZenonT(30), <1>2 DEF GetOrder, PayOrder, ListOrders, DeleteOrder, RefuseBody
  <2>. QED  BY Zenon, <2>1 DEF CreateLabels
<1>. QED  BY Zenon, <1>1, <1>2 DEF Arrive

\* While numbers do not repeat, no handler takes up the creation of an order
\* whose number is out.
LEMMA NoSecondCreation ==
  ASSUME TypeInv, [Next]_vars, ~repeated', NEW o \in generated, Creating(o)'
  PROVE  Creating(o)
<1>. USE DEF Creating
<1>1. PICK v \in Workers : pc'[v] \in CreateLabels /\ frame'[v].no = o
  BY Zenon DEF CreateLabels
<1>2. ASSUME pc'[v] = pc[v], frame'[v] = frame[v] PROVE Creating(o)
  BY Zenon, <1>1, <1>2 DEF CreateLabels
<1>3. ASSUME NEW w \in Workers, Step(w) PROVE Creating(o)
  <2>1. CASE w = v
    BY Zenon, <1>1, <1>3, <2>1, StaysCreating DEF CreateLabels
  <2>2. CASE w # v
    BY Zenon, <1>2, <1>3, <2>2, StepMoves DEF Moves
  <2>. QED  BY Zenon, <2>1, <2>2
<1>4. ASSUME NEW w \in Workers, Arrive(w) PROVE Creating(o)
  <2>1. PICK l, f : /\ Begin(w, l, f)
                    /\ l \in CreateLabels => f.no \notin generated
    BY Zenon, <1>4, ArriveOutside
  <2>2. Moves(w) /\ pc'[w] = l /\ frame'[w] = f
    BY Zenon, <2>1, BeginMoves
  <2>. QED  BY Zenon, <1>1, <1>2, <2>1, <2>2 DEF Moves
<1>5. CASE Tick \/ (\E p \in OrderNo : Expire(p)) \/ UNCHANGED vars
  BY Zenon, <1>2, <1>5 DEF Tick, Expire, vars
<1>6. CASE Restart
  BY Zenon, <1>1, <1>6 DEF Restart, CreateLabels
<1>. QED  BY Zenon, <1>3, <1>4, <1>5, <1>6 DEF Next, Finished

\* An entry is set by the creation of its order and by nothing later.
THEOREM NeverRefilledCorrect == Spec => NeverRefilled
<1>. DEFINE A == ~repeated' => \A o \in generated : ~Creating(o) =>
                  /\ ~Creating(o)'
                  /\ Cached(o)' => cache'[o] = cache[o] /\ expires'[o] = expires[o]
<1>1. TypeInv /\ [Next]_vars => [A]_vars
  <2>. SUFFICES ASSUME TypeInv, [Next]_vars, ~repeated', NEW o \in generated,
                       ~Creating(o), Cached(o)'
                PROVE  EntryKept(o)
    BY Zenon, NoSecondCreation DEF EntryKept
  <2>1. o \in OrderNo
    BY Zenon DEF TypeInv, DataTypeOK
  <2>2. ASSUME NEW w \in Workers, pc[w] = "c_set", frame[w].no = o PROVE FALSE
    BY Zenon, <2>2 DEF Creating
  <2>. QED  BY Zenon, <2>1, <2>2, EntrySteps
<1>. QED  BY <1>1, TypeInvariant, PTL DEF Spec, NeverRefilled

\* Sealed for good: the number of o is out, no handler may set its entry any
\* more, and the entry, if there is one, runs out by second t.
RunsOutBy(o, t) ==
  /\ o \in generated /\ ~Creating(o)
  /\ Cached(o) => expires[o] <= t

\* How stale a read from the cache can be: CacheTTL seconds after create_order
\* of o is past its SET the entry is gone for good, although every DEL of a
\* payment or deletion may have been lost to Redis errors or a crash.
THEOREM StaleBounded ==
  ASSUME NEW o \in OrderNo, NEW t \in Nat
  PROVE  Spec => [](o \in generated /\ ~Creating(o) /\ clock = t
                      => [](repeated \/ (Cached(o) => clock <= t + CacheTTL)))
<1>1. TypeInv /\ EntryExpires /\ o \in generated /\ ~Creating(o) /\ clock = t
        => RunsOutBy(o, t + CacheTTL)
  BY Zenon DEF EntryExpires, RunsOutBy
<1>2. TypeInv /\ (repeated \/ RunsOutBy(o, t + CacheTTL)) /\ [Next]_vars
        => (repeated \/ RunsOutBy(o, t + CacheTTL))'
  <2>. SUFFICES ASSUME TypeInv, RunsOutBy(o, t + CacheTTL), [Next]_vars, ~repeated'
                PROVE  RunsOutBy(o, t + CacheTTL)'
    BY Zenon, HistoryGrows
  <2>1. o \in generated' /\ ~Creating(o)'
    BY Zenon, HistoryGrows, NoSecondCreation DEF RunsOutBy
  <2>2. ASSUME Cached(o)' PROVE EntryKept(o)
    BY Zenon, <2>2, EntrySteps DEF RunsOutBy, Creating
  <2>. QED  BY Zenon, <2>1, <2>2 DEF RunsOutBy, EntryKept, Cached
<1>3. TypeInv /\ EntryExpires /\ RunsOutBy(o, t + CacheTTL)
        => (Cached(o) => clock <= t + CacheTTL)
  BY ConstantsAssumption DEF EntryExpires, RunsOutBy, TypeInv, DataTypeOK
<1>. QED  BY <1>1, <1>2, <1>3, TypeInvariant, EntriesExpire, PTL DEF Spec

-----------------------------------------------------------------------------
\* Acknowledged deletions.

\* A handler of op past its last write to the table or to Redis.
Done(l, f, op) == f.op = op /\ (l = "record" \/ (l = "reply" /\ f.code = 200))

\* What holds for a worker: the numbers it may tell clients of, or was told of,
\* are closed, and a deletion that goes on to be answered has left no row.
WorkerGone(l, f) ==
  /\ Done(l, f, "create") => Closed(f.no)
  /\ \A o \in f.listed : Closed(o)
  /\ f.op = "delete" => Closed(f.no)
  /\ l \in {"d_changes", "d_del"} \/ Done(l, f, "delete") => ~Exists(f.no)

GoneInv ==
  /\ \A w \in Workers : WorkerGone(pc[w], frame[w])
  /\ \A o \in known : Closed(o)
  /\ \A o \in OrderNo : "deleted" \in acked[o] => Closed(o) /\ ~Exists(o)

\* No step opens a closed number or gives it a row.
StaysGone == \A o \in OrderNo : Closed(o) => Closed(o)' /\ (Exists(o)' => Exists(o))

\* While numbers do not repeat that holds of every step.
LEMMA NextGone ==
  ASSUME TypeInv, FreshInv, [Next]_vars, ~repeated'
  PROVE  StaysGone
<1>. DEFINE Shut == \A o \in OrderNo : Closed(o) => Closed(o)'
            Empty == \A o \in OrderNo : Closed(o) /\ Exists(o)' => Exists(o)
<1>1. generated \subseteq generated' /\ db \in [OrderNo -> Row]
  BY Zenon, HistoryGrows DEF TypeInv, DataTypeOK
<1>2. ASSUME UNCHANGED db PROVE Empty
  BY Zenon, <1>2 DEF Exists
<1>3. ASSUME NEW w \in Workers, Arrive(w) PROVE Shut /\ Empty
  <2>1. PICK l, f : Begin(w, l, f) /\ (l \in CreateLabels => f.no \notin generated)
    BY Zenon, <1>3, ArriveOutside
  <2>2. Moves(w) /\ pc'[w] = l /\ frame'[w] = f /\ UNCHANGED db
    BY Zenon, <2>1, BeginMoves
  <2>3. Inserting(pc'[w]) => frame'[w].no \notin generated
    BY Zenon, <2>1, <2>2 DEF Inserting, CreateLabels
  <2>. QED  BY Zenon, <1>1, <1>2, <2>2, <2>3, StaysClosed
<1>4. ASSUME NEW w \in Workers, Step(w) PROVE Shut
  <2>1. Inserting(pc'[w]) => Inserting(pc[w]) /\ frame'[w].no = frame[w].no
    BY Zenon, <1>4, StaysCreating DEF Inserting, CreateLabels
  <2>. QED  BY Zenon, <1>1, <1>4, <2>1, StepMoves, StaysClosed
<1>5. ASSUME NEW w \in Workers, Step(w) PROVE Empty
  <2>1. CASE CreateInsert(w)
    <3>1. Inserting(pc[w]) /\ db' = [db EXCEPT ![frame[w].no] = frame[w].row]
      BY Zenon, <2>1 DEF CreateInsert, Inserting
    <3>2. ASSUME NEW o \in OrderNo, Closed(o) PROVE db'[o] = db[o]
      BY Zenon, <1>1, <3>1, <3>2 DEF Closed
    <3>. QED  BY Zenon, <3>2 DEF Exists
  <2>2. CASE PayUpdate(w)
    <3>1. ~Exists(frame[w].no) => db' = db
      BY Zenon, <2>2, UpdateWrites
    <3>2. ASSUME NEW o \in OrderNo, o # frame[w].no PROVE db'[o] = db[o]
      BY ZenonT(30), <1>1, <2>2, <3>2, UpdateWrites
    <3>. QED  BY Zenon, <3>1, <3>2 DEF Exists
  <2>3. CASE DeleteStep(w)
    <3>1. frame[w].no \in OrderNo /\ db' = [db EXCEPT ![frame[w].no] = Absent]
      BY Zenon, <2>3, DeleteWrites
    <3>2. Absent.status = "ABSENT"
      BY Zenon DEF Absent
    <3>. QED  BY Zenon, <1>1, <3>1, <3>2 DEF Exists
  <2>4. CASE LocalStep(w)
    <3>1. UNCHANGED db
      BY ZenonT(60), <2>4
         DEF LocalStep, CreateStamp, CreateConflict, CreateCount, TryGetCachedOrder, GetSelect,
             PaySelect, PayStamp, PayCount, ListPrepare, ListStep, ListDone, DeleteChanges,
             NoRedisClient, RecordRedis, SqliteFails, SqliteStepFails, Local, table
    <3>. QED  BY Zenon, <1>2, <3>1
  <2>5. CASE TryCacheOrder(w) \/ InvalidateCachedOrder(w) \/ Respond(w)
    BY Zenon, <1>2, <2>5 DEF TryCacheOrder, InvalidateCachedOrder, Respond, table
  <2>. QED  BY Zenon, <1>5, <2>1, <2>2, <2>3, <2>4, <2>5 DEF Step, LocalStep
<1>6. ASSUME Tick \/ (\E p \in OrderNo : Expire(p)) \/ UNCHANGED vars PROVE Shut /\ Empty
  <2>1. UNCHANGED <<pc, frame, db>>
    BY Zenon, <1>6 DEF Tick, Expire, vars, table
  <2>. QED  BY Zenon, <1>1, <1>2, <2>1 DEF Closed
<1>7. ASSUME Restart PROVE Shut /\ Empty
  BY Zenon, <1>1, <1>2, <1>7 DEF Restart, Closed, Inserting
<1>. HIDE DEF Shut, Empty
<1>8. Shut /\ Empty
  BY Zenon, <1>3, <1>4, <1>5, <1>6, <1>7 DEF Next, Finished
<1>. QED  BY Zenon, <1>8 DEF StaysGone, Shut, Empty

\* A worker that stands still keeps what is said of it.
LEMMA OthersGone ==
  ASSUME TypeInv, StaysGone, NEW l, NEW f, WorkerGone(l, f), FrameOK(l, f)
  PROVE  WorkerGone(l, f)'
<1>1. \A o : Closed(o) => Closed(o)' /\ (Exists(o)' => Exists(o))
  BY Zenon DEF StaysGone, Closed, TypeInv, DataTypeOK
<1>2. Done(l, f, "delete") \/ l \in {"d_changes", "d_del"} => Closed(f.no) /\ ~Exists(f.no)
  BY Zenon DEF WorkerGone, Done, FrameOK
<1>3. /\ Done(l, f, "create") => Closed(f.no)
      /\ \A o \in f.listed : Closed(o)
      /\ f.op = "delete" => Closed(f.no)
  BY Zenon DEF WorkerGone
<1>. QED  BY Zenon, <1>1, <1>2, <1>3 DEF WorkerGone, Done

\* A step of a handler keeps what is said of its worker.
LEMMA StepGone ==
  ASSUME TypeInv, FreshInv, GoneInv, StaysGone, NEW w \in Workers, Step(w)
  PROVE  WorkerGone(pc[w], frame[w])'
<1>. DEFINE Goal == WorkerGone(pc[w], frame[w])'
            Same(f) == /\ f.op = frame[w].op /\ f.no = frame[w].no
                       /\ f.listed = frame[w].listed
<1>1. /\ frame[w] \in Frame /\ FrameOK(pc[w], frame[w])
      /\ WorkerGone(pc[w], frame[w]) /\ WorkerFresh(pc[w], frame[w])
  BY Zenon DEF TypeInv, ControlInv, GoneInv, FreshInv
<1>2. \A o : Closed(o) => Closed(o)' /\ (Exists(o)' => Exists(o))
  BY Zenon DEF StaysGone, Closed, TypeInv, DataTypeOK
<1>3. ASSUME Same(frame'[w]),
             Done(pc'[w], frame'[w], "create") => pc[w] \in {"c_set", "record"},
             pc'[w] \in {"d_changes", "d_del"} => DeleteStep(w) \/ pc[w] = "d_changes",
             Done(pc'[w], frame'[w], "delete") => pc[w] \in {"d_del", "record"}
      PROVE  Goal
  <2>1. PICK n : n = frame[w].no /\ n = frame'[w].no
    BY Zenon, <1>3
  <2>2. Done(pc'[w], frame'[w], "create") => Closed(n)'
    BY Zenon, <1>1, <1>2, <1>3, <2>1 DEF WorkerFresh, WorkerGone, Done
  <2>3. (\A o \in frame'[w].listed : Closed(o)') /\ (frame'[w].op = "delete" => Closed(n)')
    BY Zenon, <1>1, <1>2, <1>3, <2>1 DEF WorkerGone
  <2>4. ASSUME DeleteStep(w) PROVE ~Exists(n)'
    <3>1. n \in OrderNo /\ db' = [db EXCEPT ![n] = Absent]
      BY Zenon, <2>1, <2>4, DeleteWrites
    <3>2. db'[n] = Absent /\ Absent.status = "ABSENT"
      BY Zenon, <3>1 DEF TypeInv, DataTypeOK, Absent
    <3>. QED  BY Zenon, <3>2 DEF Exists
  <2>5. ASSUME pc[w] \in {"d_changes", "d_del"} \/ Done(pc[w], frame[w], "delete")
        PROVE  ~Exists(n)'
    <3>1. Closed(n) /\ ~Exists(n)
      BY Zenon, <1>1, <2>1, <2>5 DEF WorkerGone, FrameOK, Done
    <3>. QED  BY Zenon, <1>2, <3>1
  <2>6. pc'[w] \in {"d_changes", "d_del"} \/ Done(pc'[w], frame'[w], "delete") => ~Exists(n)'
    BY Zenon, <1>3, <2>4, <2>5 DEF Done
  <2>. QED  BY ZenonT(30), <2>1, <2>2, <2>3, <2>6 DEF WorkerGone, Done
<1>4. ASSUME NEW c, Reply(w, c), c = 200 => pc[w] \in {"c_set", "p_del", "d_del", "record", "l_scan"}
      PROVE  Goal
  <2>1. pc'[w] = "reply" /\ Same(frame'[w]) /\ frame'[w].code = c
    BY Zenon, <1>4, ReplyMoves
  <2>2. ASSUME Done(pc'[w], frame'[w], "create") PROVE pc[w] \in {"c_set", "record"}
    BY Zenon, <1>1, <1>4, <2>1, <2>2 DEF Done, FrameOK
  <2>3. ASSUME Done(pc'[w], frame'[w], "delete") PROVE pc[w] \in {"d_del", "record"}
    BY Zenon, <1>1, <1>4, <2>1, <2>3 DEF Done, FrameOK
  <2>. QED  BY Zenon, <1>3, <2>1, <2>2, <2>3
<1>5. ASSUME NEW l \in {"c_insert", "c_count", "c_set", "g_select", "p_now", "p_update",
                         "p_count", "p_del", "l_scan"},
             NEW f, Goto(w, l, f), Same(f)
      PROVE  Goal
  <2>1. pc'[w] = l /\ frame'[w] = f
    BY Zenon, <1>5, GotoMoves
  <2>2. l \notin {"record", "reply", "d_changes", "d_del"}
    BY Zenon, <1>5
  <2>. QED  BY Zenon, <1>3, <1>5, <2>1, <2>2 DEF Done
<1>. HIDE DEF Goal
<1>6. ASSUME CreateConflict(w) \/ SqliteFails(w) \/ SqliteStepFails(w) \/ ListDone(w) PROVE Goal
  <2>1. \E c : Reply(w, c) /\ (c = 200 => pc[w] = "l_scan")
    BY <1>6 DEF CreateConflict, SqliteFails, SqliteStepFails, ListDone
  <2>. QED  BY Zenon, <1>4, <2>1
<1>7. ASSUME CreateInsert(w) \/ CreateCount(w) \/ PayUpdate(w) \/ PayCount(w) PROVE Goal
  <2>1. Same(frame[w])
    OBVIOUS
  <2>. HIDE DEF Same
  <2>. QED  BY Zenon, <1>5, <1>7, <2>1 DEF CreateInsert, CreateCount, PayUpdate, PayCount
<1>8. ASSUME CreateStamp(w) \/ PayStamp(w) \/ ListPrepare(w) PROVE Goal
  <2>1. /\ Same([frame[w] EXCEPT !.row.created_at = clock])
        /\ Same([frame[w] EXCEPT !.now = clock])
        /\ Same([frame[w] EXCEPT !.todo = OrderNo])
    BY Zenon, <1>1 DEF Frame
  <2>. HIDE DEF Same
  <2>. QED  BY Zenon, <1>5, <1>8, <2>1 DEF CreateStamp, PayStamp, ListPrepare
<1>9. ASSUME PaySelect(w) PROVE Goal
  <2>1. Same([frame[w] EXCEPT !.row = db[frame[w].no]])
    BY Zenon, <1>1 DEF Frame
  <2>2. Reply(w, 404) \/ Reply(w, 400) => Goal
    BY <1>4
  <2>. HIDE DEF Same
  <2>. QED  BY Zenon, <1>5, <1>9, <2>1, <2>2 DEF PaySelect
<1>10. ASSUME DeleteStep(w) \/ DeleteChanges(w) PROVE Goal
  <2>1. CASE Reply(w, 404)
    BY <1>4, <2>1
  <2>2. CASE /\ pc'[w] \in {"d_changes", "d_del"} /\ frame'[w] = frame[w]
             /\ DeleteStep(w) \/ pc[w] = "d_changes"
    <3>1. pc'[w] \notin {"record", "reply"}
      BY Zenon, <2>2
    <3>. QED  BY Zenon, <1>3, <2>2, <3>1 DEF Done
  <2>. QED  BY Zenon, <1>10, <2>1, <2>2, GotoMoves DEF DeleteStep, DeleteChanges
<1>11. ASSUME NoRedisClient(w) PROVE Goal
  <2>1. \/ Goto(w, "g_select", frame[w])
        \/ Reply(w, 200) /\ pc[w] \in {"c_set", "p_del", "d_del"}
    BY Zenon, <1>11 DEF NoRedisClient
  <2>2. Same(frame[w])
    OBVIOUS
  <2>. HIDE DEF Same
  <2>. QED  BY Zenon, <1>4, <1>5, <2>1, <2>2
<1>12. ASSUME RecordRedis(w) PROVE Goal
  <2>1. /\ Goto(w, "g_select", [frame[w] EXCEPT !.ok = FALSE]) \/ Reply(w, 200)
        /\ pc[w] = "record"
    BY Zenon, <1>12 DEF RecordRedis
  <2>2. Same([frame[w] EXCEPT !.ok = FALSE])
    BY Zenon, <1>1 DEF Frame
  <2>. HIDE DEF Same
  <2>. QED  BY Zenon, <1>4, <1>5, <2>1, <2>2
<1>13. ASSUME TryCacheOrder(w) \/ InvalidateCachedOrder(w) PROVE Goal
  <2>1. PICK ok : Goto(w, "record", [frame[w] EXCEPT !.ok = ok])
    BY Zenon, <1>13 DEF TryCacheOrder, InvalidateCachedOrder
  <2>2. Same([frame[w] EXCEPT !.ok = ok])
    BY Zenon, <1>1 DEF Frame
  <2>3. pc'[w] = "record" /\ Same(frame'[w])
    <3>. DEFINE f == [frame[w] EXCEPT !.ok = ok]
    <3>. HIDE DEF Same, f
    <3>1. Goto(w, "record", f) /\ Same(f)
      BY Zenon, <2>1, <2>2 DEF f
    <3>2. pc'[w] = "record" /\ frame'[w] = f
      BY Zenon, <3>1, GotoMoves
    <3>. QED  BY Zenon, <3>1, <3>2
  <2>4. /\ pc[w] \in {"c_set", "p_del", "d_del"}
        /\ pc[w] = "c_set" => frame[w].op = "create"
        /\ pc[w] = "p_del" => frame[w].op = "pay"
        /\ pc[w] = "d_del" => frame[w].op = "delete"
    BY Zenon, <1>1, <1>13 DEF TryCacheOrder, InvalidateCachedOrder, FrameOK
  <2>. QED  BY Zenon, <1>3, <2>3, <2>4 DEF Done
<1>14. ASSUME TryGetCachedOrder(w) \/ GetSelect(w) PROVE Goal
  <2>1. Same(frame'[w]) /\ pc'[w] \in {"record", "reply"}
    <3>1. CASE TryGetCachedOrder(w)
      <4>1. PICK ok \in Outcomes :
              Goto(w, "record", [frame[w] EXCEPT !.ok = ok,
                                   !.row = IF ok THEN cache[frame[w].no] ELSE Absent])
        BY Zenon, <3>1 DEF TryGetCachedOrder
      <4>2. Same([frame[w] EXCEPT !.ok = ok,
                    !.row = IF ok THEN cache[frame[w].no] ELSE Absent])
        BY Zenon, <1>1 DEF Frame
      <4>. DEFINE f == [frame[w] EXCEPT !.ok = ok,
                          !.row = IF ok THEN cache[frame[w].no] ELSE Absent]
      <4>. HIDE DEF Same, f
      <4>3. Goto(w, "record", f) /\ Same(f)
        BY Zenon, <4>1, <4>2 DEF f
      <4>4. pc'[w] = "record" /\ Same(frame'[w])
        BY Zenon, <4>3, GotoMoves
      <4>. QED  BY Zenon, <4>4
    <3>2. CASE GetSelect(w)
      <4>1. Goto(w, "reply", [frame[w] EXCEPT !.row = db[frame[w].no],
                                !.code = IF Exists(frame[w].no) THEN 200 ELSE 404])
        BY Zenon, <3>2 DEF GetSelect
      <4>2. Same([frame[w] EXCEPT !.row = db[frame[w].no],
                    !.code = IF Exists(frame[w].no) THEN 200 ELSE 404])
        BY Zenon, <1>1 DEF Frame
      <4>. DEFINE f == [frame[w] EXCEPT !.row = db[frame[w].no],
                          !.code = IF Exists(frame[w].no) THEN 200 ELSE 404]
      <4>. HIDE DEF Same, f
      <4>3. Goto(w, "reply", f) /\ Same(f)
        BY Zenon, <4>1, <4>2 DEF f
      <4>4. pc'[w] = "reply" /\ Same(frame'[w])
        BY Zenon, <4>3, GotoMoves
      <4>. QED  BY Zenon, <4>4
    <3>. QED  BY Zenon, <1>14, <3>1, <3>2
  <2>2. frame[w].op = "get"
    BY ZenonT(30), <1>1, <1>14 DEF FrameOK, TryGetCachedOrder, GetSelect
  <2>. QED  BY Zenon, <1>3, <2>1, <2>2 DEF Done
<1>15. ASSUME ListStep(w) PROVE Goal
  <2>1. PICK o \in frame[w].todo :
          Goto(w, "l_scan",
               [frame[w] EXCEPT !.todo = @ \ {o},
                                !.listed = IF Exists(o) /\ frame[w].filter \in {"", db[o].status}
                                             THEN @ \cup {o} ELSE @])
    BY Zenon, <1>15 DEF ListStep
  <2>. DEFINE f == [frame[w] EXCEPT !.todo = @ \ {o},
                                    !.listed = IF Exists(o) /\ frame[w].filter \in {"", db[o].status}
                                                 THEN @ \cup {o} ELSE @]
  <2>2. /\ f.op = frame[w].op
        /\ f.listed = IF Exists(o) /\ frame[w].filter \in {"", db[o].status}
                        THEN frame[w].listed \cup {o} ELSE frame[w].listed
    BY Zenon, <1>1 DEF Frame
  <2>3. o \in OrderNo /\ frame[w].op = "list"
    BY Zenon, <1>1, <1>15 DEF Frame, FrameOK, ListStep
  <2>4. Exists(o) => Closed(o)
    BY Zenon, <2>3 DEF FreshInv, OrderFresh
  <2>5. Goto(w, "l_scan", f)
    BY Zenon, <2>1
  <2>. HIDE DEF f
  <2>6. pc'[w] = "l_scan" /\ frame'[w] = f
    BY Zenon, <2>5, GotoMoves
  <2>7. \A p \in f.listed : p \in frame[w].listed \/ (p = o /\ Exists(o))
    BY Zenon, <2>2
  <2>8. \A p \in f.listed : Closed(p)'
    BY Zenon, <1>1, <1>2, <2>4, <2>7 DEF WorkerGone
  <2>. QED  BY Zenon, <2>2, <2>3, <2>6, <2>8 DEF Goal, WorkerGone, Done
<1>16. ASSUME Respond(w) PROVE Goal
  <2>1. pc'[w] = "idle" /\ frame'[w] = NoFrame
    BY Zenon, <1>16, GotoMoves DEF Respond
  <2>2. NoFrame.op = "none" /\ NoFrame.listed = {}
    BY Zenon DEF NoFrame
  <2>. QED  BY Zenon, <2>1, <2>2 DEF Goal, WorkerGone, Done
<1>17. Goal
  BY Zenon, <1>6, <1>7, <1>8, <1>9, <1>10, <1>11, <1>12, <1>13, <1>14, <1>15, <1>16 DEF Step
<1>. QED  BY Zenon, <1>17 DEF Goal

\* A delete that arrives names a number that clients were told of.
LEMMA ArriveGone ==
  ASSUME ~ClientsGuess, TypeInv, GoneInv, StaysGone, NEW w \in Workers, Arrive(w)
  PROVE  WorkerGone(pc[w], frame[w])'
<1>. USE NoFrameType
<1>. DEFINE Goal == WorkerGone(pc[w], frame[w])'
<1>1. NoFrame.listed = {} /\ NoFrame.op = "none"
  BY Zenon DEF NoFrame
<1>2. ASSUME NEW l \in {"c_now", "g_get", "p_select", "l_prepare", "d_delete", "reply"}, NEW f,
             Begin(w, l, f), f.listed = {}, l = "reply" => f.code # 200,
             f.op = "delete" => f.no \in known
      PROVE  Goal
  <2>1. pc'[w] = l /\ frame'[w] = f
    BY Zenon, <1>2, BeginMoves
  <2>2. f.op = "delete" => Closed(f.no)'
    BY Zenon, <1>2 DEF GoneInv, StaysGone, TypeInv, DataTypeOK
  <2>3. l \notin {"record", "d_changes", "d_del"}
    BY Zenon, <1>2
  <2>. QED  BY Zenon, <1>2, <2>1, <2>2, <2>3 DEF WorkerGone, Done
<1>. HIDE DEF Goal
<1>3. CASE CreateOrder(w)
  <2>1. PICK a \in Amounts, r \in RandParts :
          Begin(w, "c_now", [NoFrame EXCEPT !.op = "create", !.no = <<clock, r>>,
                                            !.row = Pending(a, 0)])
    BY Zenon, <1>3 DEF CreateOrder
  <2>. DEFINE f == [NoFrame EXCEPT !.op = "create", !.no = <<clock, r>>, !.row = Pending(a, 0)]
  <2>2. f.op = "create" /\ f.listed = {}
    BY Zenon, <1>1 DEF Frame
  <2>. HIDE DEF f
  <2>3. Begin(w, "c_now", f)
    BY Zenon, <2>1 DEF f
  <2>4. Goal
    BY Zenon, <1>2, <2>2, <2>3
  <2>. QED  BY Zenon, <2>4 DEF Goal
<1>4. CASE GetOrder(w)
  <2>1. PICK o \in Named :
          Begin(w, "g_get", [NoFrame EXCEPT !.op = "get", !.no = o, !.due = acked[o]])
    BY Zenon, <1>4 DEF GetOrder
  <2>. DEFINE f == [NoFrame EXCEPT !.op = "get", !.no = o, !.due = acked[o]]
  <2>2. f.op = "get" /\ f.listed = {}
    BY Zenon, <1>1 DEF Frame
  <2>. HIDE DEF f
  <2>3. Begin(w, "g_get", f)
    BY Zenon, <2>1 DEF f
  <2>4. Goal
    BY Zenon, <1>2, <2>2, <2>3
  <2>. QED  BY Zenon, <2>4 DEF Goal
<1>5. CASE PayOrder(w)
  <2>1. PICK o \in Named : Begin(w, "p_select", [NoFrame EXCEPT !.op = "pay", !.no = o])
    BY Zenon, <1>5 DEF PayOrder
  <2>2. /\ [NoFrame EXCEPT !.op = "pay", !.no = o].op = "pay"
        /\ [NoFrame EXCEPT !.op = "pay", !.no = o].listed = {}
    BY Zenon, <1>1 DEF Frame
  <2>3. Goal
    BY Zenon, <1>2, <2>1, <2>2
  <2>. QED  BY Zenon, <2>3 DEF Goal
<1>6. CASE ListOrders(w)
  <2>1. PICK q \in Filters : Begin(w, "l_prepare", [NoFrame EXCEPT !.op = "list", !.filter = q])
    BY Zenon, <1>6 DEF ListOrders
  <2>2. /\ [NoFrame EXCEPT !.op = "list", !.filter = q].op = "list"
        /\ [NoFrame EXCEPT !.op = "list", !.filter = q].listed = {}
    BY Zenon, <1>1 DEF Frame
  <2>3. Goal
    BY Zenon, <1>2, <2>1, <2>2
  <2>. QED  BY Zenon, <2>3 DEF Goal
<1>7. CASE DeleteOrder(w)
  <2>1. PICK o \in known : Begin(w, "d_delete", [NoFrame EXCEPT !.op = "delete", !.no = o])
    BY Zenon, <1>7 DEF DeleteOrder, Named
  <2>. DEFINE f == [NoFrame EXCEPT !.op = "delete", !.no = o]
  <2>2. f.no = o /\ f.listed = {}
    BY Zenon, <1>1 DEF Frame
  <2>. HIDE DEF f
  <2>3. Begin(w, "d_delete", f) /\ f.no \in known
    BY Zenon, <2>1, <2>2 DEF f
  <2>4. Goal
    BY Zenon, <1>2, <2>2, <2>3
  <2>. QED  BY Zenon, <2>4 DEF Goal
<1>8. CASE RefuseBody(w)
  <2>1. PICK op \in {"create", "pay"}, c \in {400, 500} :
          /\ Begin(w, "reply", [NoFrame EXCEPT !.op = op, !.code = c])
          /\ UNCHANGED <<generated, repeated>>
    BY Zenon, <1>8 DEF RefuseBody
  <2>. DEFINE f == [NoFrame EXCEPT !.op = op, !.code = c]
  <2>2. f.op = op /\ f.code = c /\ f.listed = {}
    BY <1>1 DEF Frame
  <2>. HIDE DEF f
  <2>3. Begin(w, "reply", f)
    BY Zenon, <2>1 DEF f
  <2>4. f.op # "delete" /\ f.code # 200 /\ f.listed = {}
    BY <2>2
  <2>5. Goal
    BY <1>2, <2>3, <2>4
  <2>. QED  BY Zenon, <2>5 DEF Goal
<1>. QED  BY Zenon, <1>3, <1>4, <1>5, <1>6, <1>7, <1>8 DEF Arrive

\* What the responses say is closed, and what they acknowledge as deleted has
\* no row.
LEMMA HistoryGone ==
  ASSUME TypeInv, GoneInv, StaysGone, [Next]_vars
  PROVE  /\ \A o \in known' : Closed(o)'
         /\ \A o \in OrderNo : "deleted" \in acked'[o] => Closed(o)' /\ ~Exists(o)'
<1>. DEFINE Goal == /\ \A o \in known' : Closed(o)'
                    /\ \A o \in OrderNo : "deleted" \in acked'[o] => Closed(o)' /\ ~Exists(o)'
<1>1. \A o : Closed(o) => Closed(o)' /\ (Exists(o)' => Exists(o))
  BY Zenon DEF StaysGone, Closed, TypeInv, DataTypeOK
<1>2. ASSUME UNCHANGED <<known, acked>> PROVE Goal
  BY Zenon, <1>1, <1>2 DEF GoneInv
<1>3. ASSUME NEW w \in Workers, Respond(w) PROVE Goal
  <2>1. WorkerGone(pc[w], frame[w]) /\ pc[w] = "reply" /\ acked \in [OrderNo -> Facts]
    BY Zenon, <1>3 DEF GoneInv, Respond, TypeInv, DataTypeOK
  <2>2. ASSUME NEW o \in known', o \notin known PROVE Closed(o)
    <3>1. CASE frame[w].code = 200 /\ frame[w].op = "create"
      <4>1. known' = known \cup {frame[w].no}
        BY Zenon, <1>3, <3>1 DEF Respond
      <4>2. Done(pc[w], frame[w], "create")
        BY Zenon, <2>1, <3>1 DEF Done
      <4>3. Closed(frame[w].no) /\ o = frame[w].no
        BY Zenon, <2>1, <2>2, <4>1, <4>2 DEF WorkerGone
      <4>. QED  BY Zenon, <4>3
    <3>2. CASE frame[w].code = 200 /\ frame[w].op = "list"
      <4>1. known' = known \cup frame[w].listed
        BY Zenon, <1>3, <3>2 DEF Respond
      <4>. QED  BY Zenon, <2>1, <2>2, <4>1 DEF WorkerGone
    <3>3. CASE ~(frame[w].code = 200 /\ frame[w].op \in {"create", "list"})
      BY ZenonT(30), <1>3, <2>2, <3>3 DEF Respond
    <3>. QED  BY Zenon, <3>1, <3>2, <3>3
  <2>3. ASSUME NEW o \in OrderNo, "deleted" \in acked'[o], "deleted" \notin acked[o]
        PROVE  Closed(o) /\ ~Exists(o)
    <3>1. CASE frame[w].code = 200 /\ frame[w].op = "delete"
      <4>1. acked' = [acked EXCEPT ![frame[w].no] = @ \cup {"deleted"}]
        BY Zenon, <1>3, <3>1 DEF Respond
      <4>2. o = frame[w].no
        BY Zenon, <2>1, <2>3, <4>1
      <4>. QED  BY Zenon, <2>1, <3>1, <4>2 DEF WorkerGone, Done
    <3>2. CASE frame[w].code = 200 /\ frame[w].op = "pay"
      <4>1. acked' = [acked EXCEPT ![frame[w].no] = @ \cup {"paid"}]
        BY Zenon, <1>3, <3>2 DEF Respond
      <4>. QED  BY Zenon, <2>1, <2>3, <4>1
    <3>3. CASE ~(frame[w].code = 200 /\ frame[w].op \in {"pay", "delete"})
      <4>1. acked' = acked
        BY ZenonT(30), <1>3, <3>3 DEF Respond
      <4>. QED  BY Zenon, <2>3, <4>1
    <3>. QED  BY Zenon, <3>1, <3>2, <3>3
  <2>. QED  BY Zenon, <1>1, <2>2, <2>3 DEF GoneInv
<1>4. ASSUME NEW w \in Workers, Arrive(w) PROVE UNCHANGED <<known, acked>>
  BY ZenonT(30), <1>4, ArriveBegins DEF Begin
<1>5. ASSUME NEW w \in Workers, Step(w), ~Respond(w) PROVE UNCHANGED <<known, acked>>
  BY ZenonT(60), <1>5
     DEF Step, CreateStamp, CreateInsert, CreateConflict, CreateCount, TryCacheOrder,
         TryGetCachedOrder, GetSelect, PaySelect, PayStamp, PayUpdate, PayCount,
         InvalidateCachedOrder, ListPrepare, ListStep, ListDone, DeleteStep, DeleteChanges,
         NoRedisClient, RecordRedis, SqliteFails, SqliteStepFails, Local, history
<1>6. ASSUME Tick \/ (\E p \in OrderNo : Expire(p)) \/ Restart \/ UNCHANGED vars
      PROVE  UNCHANGED <<known, acked>>
  BY Zenon, <1>6 DEF Tick, Expire, Restart, vars, history
<1>. HIDE DEF Goal
<1>7. Goal
  BY Zenon, <1>2, <1>3, <1>4, <1>5, <1>6 DEF Next, Finished
<1>. QED  BY Zenon, <1>7 DEF Goal

\* A deletion answered with 200 has happened and lasts, while numbers do not
\* repeat and clients do not guess them: for any number of workers that share
\* one sqlite3_changes, across faults and restarts.
THEOREM DeletionDurableCorrect ==
  ASSUME ~ClientsGuess
  PROVE  Spec => []DeletionDurable
<1>1. Init => GoneInv
  <2>. SUFFICES ASSUME Init PROVE GoneInv
    OBVIOUS
  <2>1. NoFrame.op = "none" /\ NoFrame.listed = {}
    BY Zenon DEF NoFrame
  <2>2. /\ \A w \in Workers : pc[w] = "idle" /\ frame[w] = NoFrame
        /\ known = {} /\ \A o \in OrderNo : acked[o] = {}
    BY Zenon DEF Init
  <2>. QED  BY Zenon, <2>1, <2>2 DEF GoneInv, WorkerGone, Done
<1>2. TypeInv /\ (repeated \/ FreshInv) /\ (repeated \/ GoneInv) /\ [Next]_vars
        => (repeated \/ GoneInv)'
  <2>. SUFFICES ASSUME TypeInv, FreshInv, GoneInv, [Next]_vars, ~repeated' PROVE GoneInv'
    BY Zenon, HistoryGrows
  <2>1. StaysGone
    BY Zenon, NextGone
  <2>2. ASSUME NEW v \in Workers, pc'[v] = pc[v], frame'[v] = frame[v]
        PROVE  WorkerGone(pc[v], frame[v])'
    <3>1. PICK l, f : l = pc[v] /\ f = frame[v]
      BY Zenon
    <3>2. WorkerGone(l, f) /\ FrameOK(l, f)
      BY Zenon, <3>1 DEF GoneInv, TypeInv, ControlInv
    <3>3. WorkerGone(l, f)'
      BY Zenon, <2>1, <3>2, OthersGone
    <3>. QED  BY Zenon, <2>2, <3>1, <3>3
  <2>3. ASSUME NEW v \in Workers PROVE WorkerGone(pc[v], frame[v])'
    <3>1. ASSUME NEW w \in Workers, Moves(w), WorkerGone(pc[w], frame[w])'
          PROVE  WorkerGone(pc[v], frame[v])'
      BY Zenon, <2>2, <3>1 DEF Moves
    <3>2. ASSUME NEW w \in Workers, Arrive(w) PROVE Moves(w)
      BY Zenon, <3>2, ArriveBegins, BeginMoves
    <3>3. ASSUME Tick \/ (\E p \in OrderNo : Expire(p)) \/ UNCHANGED vars
          PROVE  pc'[v] = pc[v] /\ frame'[v] = frame[v]
      BY Zenon, <3>3 DEF Tick, Expire, vars
    <3>4. ASSUME Restart PROVE WorkerGone(pc[v], frame[v])'
      <4>1. pc'[v] = "idle" /\ frame'[v] = NoFrame
        BY Zenon, <3>4 DEF Restart
      <4>2. NoFrame.op = "none" /\ NoFrame.listed = {}
        BY Zenon DEF NoFrame
      <4>. QED  BY Zenon, <4>1, <4>2 DEF WorkerGone, Done
    <3>. QED  BY Zenon, <2>1, <2>2, <3>1, <3>2, <3>3, <3>4, StepMoves, StepGone, ArriveGone
              DEF Next, Finished
  <2>. QED  BY Zenon, <2>1, <2>3, HistoryGone DEF GoneInv
<1>3. repeated \/ GoneInv => DeletionDurable
  BY Zenon DEF GoneInv, DeletionDurable
<1>. QED  BY <1>1, <1>2, <1>3, TypeInvariant, FreshInvariant, PTL DEF Spec
=============================================================================
