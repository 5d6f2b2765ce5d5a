------------------------- MODULE OrderRoutes_proofs -------------------------
(***************************************************************************)
(* The control state and the data of the order handlers keep their types,  *)
(* for every value of the constants; and the facts about their steps that  *)
(* the other proofs about the handlers share.                              *)
(***************************************************************************)
EXTENDS OrderRoutes, TLAPS

\* What the label of a worker says about its locals.
FrameOK(l, f) ==
  /\ l \in {"c_now", "c_insert", "c_count", "c_set"} =>
       f.op = "create" /\ f.row.status = "PENDING" /\ f.row.amount \in Amounts
  /\ l \in {"c_insert", "c_count", "c_set"} => f.row.created_at \in 1..MaxClock
  /\ l \in {"g_get", "g_select"} => f.op = "get"
  /\ l \in {"p_select", "p_now", "p_update", "p_count", "p_del"} => f.op = "pay"
  /\ l \in {"d_delete", "d_changes", "d_del"} => f.op = "delete"
  /\ l \in {"l_prepare", "l_scan"} => f.op = "list"
  /\ l = "record" => f.op \in {"create", "get", "pay", "delete"}
  /\ l \notin {"idle", "reply", "l_prepare", "l_scan"} => f.no \in OrderNo
  /\ l = "reply" /\ f.code = 200 /\ f.op # "list" => f.no \in OrderNo

\* The inductive strengthening of TypeOK has two parts: the control state,
\* which the jumps of the handlers change, and the data.
ControlInv ==
  /\ pc \in [Workers -> Labels]
  /\ frame \in [Workers -> Frame]
  /\ \A w \in Workers : FrameOK(pc[w], frame[w])

DataTypeOK ==
  /\ clock \in 1..MaxClock
  /\ db \in [OrderNo -> Row] /\ changes \in {0, 1}
  /\ cache \in [OrderNo -> Row]
  /\ expires \in [OrderNo -> 0..(MaxClock + CacheTTL)]
  /\ redisClient \in BOOLEAN /\ redis_available \in BOOLEAN
  /\ metrics \in [Counters -> Nat]
  /\ begun \in 0..MaxRequests /\ restarts \in 0..MaxRestarts
  /\ generated \subseteq OrderNo /\ known \subseteq OrderNo
  /\ repeated \in BOOLEAN
  /\ acked \in [OrderNo -> Facts]

TypeInv == ControlInv /\ DataTypeOK

\* The codes of refusals are not the code of success.
LEMMA RefusalCodes == 400 # 200 /\ 404 # 200 /\ 500 # 200
  OBVIOUS

\* A jump to a label with locals that fit it keeps the control invariant.
LEMMA GotoControl ==
  ASSUME NEW w \in Workers, NEW l \in Labels, NEW f \in Frame,
         ControlInv, Goto(w, l, f), FrameOK(l, f)
  PROVE  ControlInv'
<1>1. pc' \in [Workers -> Labels] /\ frame' \in [Workers -> Frame]
  BY DEF Goto, ControlInv
<1>2. ASSUME NEW v \in Workers PROVE FrameOK(pc'[v], frame'[v])
  <2>1. CASE v = w
    BY <2>1 DEF Goto, ControlInv
  <2>2. CASE v # w
    <3>1. pc'[v] = pc[v] /\ frame'[v] = frame[v]
      BY <2>2 DEF Goto, ControlInv
    <3>. QED  BY <3>1 DEF ControlInv
  <2>. QED  BY <2>1, <2>2
<1>. QED  BY <1>1, <1>2 DEF ControlInv, FrameOK

\* The same for the jump to a response.
LEMMA ReplyControl ==
  ASSUME NEW w \in Workers, NEW c \in Codes, ControlInv, Reply(w, c),
         c = 200 => frame[w].op = "list" \/ frame[w].no \in OrderNo
  PROVE  ControlInv'
<1>. DEFINE f == [frame[w] EXCEPT !.code = c, !.ok = FALSE, !.filter = "",
                                  !.todo = {}]
<1>1. f \in Frame
  BY DEF Frame, ControlInv, Filters
<1>2. f.code = c /\ f.op = frame[w].op /\ f.no = frame[w].no
  BY DEF Frame, ControlInv
<1>3. FrameOK("reply", f)
  BY <1>2 DEF FrameOK
<1>. HIDE DEF f
<1>4. Goto(w, "reply", f)
  BY DEF f, Reply
<1>. QED  BY <1>1, <1>3, <1>4, GotoControl DEF Labels

\* The frame of an idle worker is a frame.
LEMMA NoFrameType == NoFrame \in Frame /\ Absent \in Row
  BY ConstantsAssumption DEF NoFrame, Frame, Absent, Row, Codes, Filters, Facts

\* Beginning a request that says f keeps the types.
LEMMA BeginType ==
  ASSUME TypeInv, NEW w \in Workers, NEW l \in Labels, NEW f \in Frame,
         Begin(w, l, f), FrameOK(l, f), generated' \subseteq OrderNo,
         repeated' \in BOOLEAN
  PROVE  TypeInv'
<1>1. ControlInv'
  BY GotoControl DEF Begin, TypeInv
<1>2. DataTypeOK'
  BY ConstantsAssumption DEF Begin, TypeInv, DataTypeOK, table, redisDB, health
<1>. QED  BY <1>1, <1>2 DEF TypeInv

\* Every arrival begins one of the handlers.
LEMMA ArriveBegins ==
  ASSUME NEW w \in Workers, Arrive(w)
  PROVE  \E l, f : /\ Begin(w, l, f)
                   /\ l \in {"c_now", "g_get", "p_select", "reply", "l_prepare", "d_delete"}
<1>1. CASE CreateOrder(w)  BY <1>1 DEF CreateOrder
<1>2. CASE GetOrder(w)     BY <1>2 DEF GetOrder
<1>3. CASE PayOrder(w)     BY <1>3 DEF PayOrder
<1>4. CASE RefuseBody(w)   BY <1>4 DEF RefuseBody
<1>5. CASE ListOrders(w)   BY <1>5 DEF ListOrders
<1>6. CASE DeleteOrder(w)  BY <1>6 DEF DeleteOrder
<1>. QED  BY <1>1, <1>2, <1>3, <1>4, <1>5, <1>6 DEF Arrive

\* The arrival of a request keeps the types.
LEMMA ArriveType ==
  ASSUME TypeInv, NEW w \in Workers, Arrive(w)
  PROVE  TypeInv'
<1>. USE NoFrameType
<1>0. Named \subseteq OrderNo /\ generated \subseteq OrderNo
        /\ acked \in [OrderNo -> Facts] /\ repeated \in BOOLEAN
  BY DEF Named, TypeInv, DataTypeOK
<1>1. CASE CreateOrder(w)
  <2>1. PICK a \in Amounts, r \in RandParts :
          /\ Begin(w, "c_now", [NoFrame EXCEPT !.op = "create", !.no = <<clock, r>>,
                                               !.row = Pending(a, 0)])
          /\ generated' = generated \cup {<<clock, r>>}
          /\ repeated' = (repeated \/ <<clock, r>> \in generated)
    BY Zenon, <1>0, <1>1 DEF CreateOrder
  <2>2. <<clock, r>> \in OrderNo /\ Pending(a, 0) \in Row
    BY ConstantsAssumption DEF OrderNo, TypeInv, DataTypeOK, Pending, Row
  <2>. DEFINE f == [NoFrame EXCEPT !.op = "create", !.no = <<clock, r>>,
                                               !.row = Pending(a, 0)]
  <2>3. f \in Frame /\ f.op = "create" /\ f.no = <<clock, r>> /\ f.row = Pending(a, 0)
    BY Zenon, <1>0, <2>2 DEF Frame, AllOps
  <2>4. FrameOK("c_now", f) /\ Begin(w, "c_now", f)
    BY <2>1, <2>3, <2>2 DEF FrameOK, Pending
  <2>5. generated' \subseteq OrderNo /\ repeated' \in BOOLEAN
    BY Zenon, <1>0, <2>1, <2>2
  <2>. HIDE DEF f
  <2>. QED  BY <2>1, <2>2, <2>3, <2>4, <2>5, BeginType DEF Labels
<1>2. CASE GetOrder(w)
  <2>1. PICK o \in OrderNo :
          /\ Begin(w, "g_get", [NoFrame EXCEPT !.op = "get", !.no = o, !.due = acked[o]])
          /\ UNCHANGED <<generated, repeated>>
    BY Zenon, <1>0, <1>2 DEF GetOrder
  <2>. DEFINE f == [NoFrame EXCEPT !.op = "get", !.no = o, !.due = acked[o]]
  <2>3. f \in Frame /\ f.op = "get" /\ f.no = o
    BY Zenon, <1>0 DEF Frame, AllOps
  <2>4. FrameOK("g_get", f) /\ Begin(w, "g_get", f)
    BY <2>1, <2>3 DEF FrameOK
  <2>5. generated' \subseteq OrderNo /\ repeated' \in BOOLEAN
    BY Zenon, <1>0, <2>1
  <2>. HIDE DEF f
  <2>. QED  BY <2>1, <2>3, <2>4, <2>5, BeginType DEF Labels
<1>3. CASE PayOrder(w)
  <2>1. PICK o \in OrderNo :
          /\ Begin(w, "p_select", [NoFrame EXCEPT !.op = "pay", !.no = o])
          /\ UNCHANGED <<generated, repeated>>
    BY Zenon, <1>0, <1>3 DEF PayOrder
  <2>. DEFINE f == [NoFrame EXCEPT !.op = "pay", !.no = o]
  <2>3. f \in Frame /\ f.op = "pay" /\ f.no = o
    BY Zenon, <1>0 DEF Frame, AllOps
  <2>4. FrameOK("p_select", f) /\ Begin(w, "p_select", f)
    BY <2>1, <2>3 DEF FrameOK
  <2>5. generated' \subseteq OrderNo /\ repeated' \in BOOLEAN
    BY Zenon, <1>0, <2>1
  <2>. HIDE DEF f
  <2>. QED  BY <2>1, <2>3, <2>4, <2>5, BeginType DEF Labels
<1>4. CASE DeleteOrder(w)
  <2>1. PICK o \in OrderNo :
          /\ Begin(w, "d_delete", [NoFrame EXCEPT !.op = "delete", !.no = o])
          /\ UNCHANGED <<generated, repeated>>
    BY Zenon, <1>0, <1>4 DEF DeleteOrder
  <2>. DEFINE f == [NoFrame EXCEPT !.op = "delete", !.no = o]
  <2>3. f \in Frame /\ f.op = "delete" /\ f.no = o
    BY Zenon, <1>0 DEF Frame, AllOps
  <2>4. FrameOK("d_delete", f) /\ Begin(w, "d_delete", f)
    BY <2>1, <2>3 DEF FrameOK
  <2>5. generated' \subseteq OrderNo /\ repeated' \in BOOLEAN
    BY Zenon, <1>0, <2>1
  <2>. HIDE DEF f
  <2>. QED  BY <2>1, <2>3, <2>4, <2>5, BeginType DEF Labels
<1>5. CASE RefuseBody(w)
  <2>1. PICK op \in {"create", "pay"}, c \in {400, 500} :
          /\ Begin(w, "reply", [NoFrame EXCEPT !.op = op, !.code = c])
          /\ UNCHANGED <<generated, repeated>>
    BY Zenon, <1>0, <1>5 DEF RefuseBody
  <2>2. op \in AllOps /\ c \in Codes /\ c # 200
    BY DEF AllOps, Codes
  <2>. DEFINE f == [NoFrame EXCEPT !.op = op, !.code = c]
  <2>3. f \in Frame /\ f.op = op /\ f.code = c
    BY ZenonT(60), <1>0, <2>2 DEF Frame
  <2>4. FrameOK("reply", f) /\ Begin(w, "reply", f)
    BY <2>1, <2>3, <2>2 DEF FrameOK
  <2>5. generated' \subseteq OrderNo /\ repeated' \in BOOLEAN
    BY Zenon, <1>0, <2>1
  <2>. HIDE DEF f
  <2>. QED  BY <2>1, <2>2, <2>3, <2>4, <2>5, BeginType DEF Labels
<1>6. CASE ListOrders(w)
  <2>1. PICK q \in Filters :
          /\ Begin(w, "l_prepare", [NoFrame EXCEPT !.op = "list", !.filter = q])
          /\ UNCHANGED <<generated, repeated>>
    BY Zenon, <1>0, <1>6 DEF ListOrders
  <2>. DEFINE f == [NoFrame EXCEPT !.op = "list", !.filter = q]
  <2>3. f \in Frame /\ f.op = "list"
    BY Zenon, <1>0 DEF Frame, AllOps
  <2>4. FrameOK("l_prepare", f) /\ Begin(w, "l_prepare", f)
    BY <2>1, <2>3 DEF FrameOK
  <2>5. generated' \subseteq OrderNo /\ repeated' \in BOOLEAN
    BY Zenon, <1>0, <2>1
  <2>. HIDE DEF f
  <2>. QED  BY <2>1, <2>3, <2>4, <2>5, BeginType DEF Labels
<1>. QED  BY <1>1, <1>2, <1>3, <1>4, <1>5, <1>6 DEF Arrive

\* A step of a handler keeps the control invariant: each jump goes to a label
\* that fits the locals.
LEMMA StepControl ==
  ASSUME TypeInv, NEW w \in Workers, Step(w)
  PROVE  ControlInv'
<1>. DEFINE f == frame[w]
<1>0. ControlInv /\ f \in Frame /\ FrameOK(pc[w], f)
  BY DEF TypeInv, ControlInv
<1>a. /\ f.row \in Row /\ f.op \in AllOps \cup {"none"} /\ f.no \in OrderNo \cup {<<0, 0>>}
      /\ clock \in 0..MaxClock /\ f.code \in Codes /\ NoFrame \in Frame
      /\ db \in [OrderNo -> Row] /\ cache \in [OrderNo -> Row] /\ Absent \in Row
  BY <1>0, NoFrameType DEF Frame, TypeInv, DataTypeOK
<1>b. /\ 200 \in Codes /\ 400 \in Codes /\ 404 \in Codes /\ 500 \in Codes
      /\ {"idle", "record", "reply", "c_insert", "c_count", "c_set", "g_select", "p_now",
          "p_update", "p_count", "p_del", "l_scan", "d_changes", "d_del"} \subseteq Labels
  BY DEF Codes, Labels
<1>1. CASE CreateStamp(w)
  <2>. DEFINE g == [f EXCEPT !.row.created_at = clock]
  <2>1. [f.row EXCEPT !.created_at = clock] \in Row
    BY <1>a DEF Row
  <2>2. g \in Frame /\ g.op = f.op /\ g.no = f.no
          /\ g.row = [f.row EXCEPT !.created_at = clock]
    BY <1>0, <2>1 DEF Frame
  <2>3. g.row.status = f.row.status /\ g.row.amount = f.row.amount /\ g.row.created_at = clock
    BY <1>a, <2>2 DEF Row
  <2>4. clock \in 1..MaxClock
    BY DEF TypeInv, DataTypeOK
  <2>5. FrameOK("c_insert", g) /\ Goto(w, "c_insert", g)
    BY <1>0, <1>1, <2>2, <2>3, <2>4 DEF FrameOK, CreateStamp
  <2>. HIDE DEF g
  <2>. QED  BY <1>0, <1>b, <2>2, <2>5, GotoControl
<1>2. CASE CreateInsert(w) \/ CreateCount(w) \/ PayUpdate(w) \/ PayCount(w) \/ DeleteStep(w)
  <2>1. PICK l \in {"c_count", "c_set", "p_count", "p_del", "d_changes"} :
          Goto(w, l, f) /\ FrameOK(l, f)
    BY <1>0, <1>2 DEF FrameOK, CreateInsert, CreateCount, PayUpdate, PayCount, DeleteStep
  <2>. QED  BY <1>0, <1>b, <2>1, GotoControl
<1>3. CASE CreateConflict(w) \/ SqliteFails(w)
  <2>1. Reply(w, 500)
    BY <1>3 DEF CreateConflict, SqliteFails
  <2>. QED  BY <1>0, <1>b, <2>1, ReplyControl
<1>4. CASE TryCacheOrder(w) \/ InvalidateCachedOrder(w)
  <2>1. PICK b \in BOOLEAN : Goto(w, "record", [f EXCEPT !.ok = b])
    BY Zenon, <1>4 DEF TryCacheOrder, InvalidateCachedOrder, Outcomes
  <2>. DEFINE g == [f EXCEPT !.ok = b]
  <2>2. g \in Frame /\ g.op = f.op /\ g.no = f.no
    BY <1>0 DEF Frame
  <2>3. FrameOK("record", g) /\ Goto(w, "record", g)
    BY <1>0, <1>4, <2>1, <2>2 DEF FrameOK, TryCacheOrder, InvalidateCachedOrder
  <2>. HIDE DEF g
  <2>. QED  BY <1>0, <1>b, <2>2, <2>3, GotoControl
<1>5. CASE TryGetCachedOrder(w)
  <2>0. f.no \in OrderNo
    BY <1>0, <1>5 DEF FrameOK, TryGetCachedOrder
  <2>1. PICK b \in BOOLEAN, r \in Row : Goto(w, "record", [f EXCEPT !.ok = b, !.row = r])
    BY Zenon, <1>5, <1>a, <2>0 DEF TryGetCachedOrder, Outcomes
  <2>. DEFINE g == [f EXCEPT !.ok = b, !.row = r]
  <2>2. g \in Frame /\ g.op = f.op /\ g.no = f.no
    BY Zenon, <1>0 DEF Frame
  <2>3. FrameOK("record", g) /\ Goto(w, "record", g)
    BY <1>0, <1>5, <2>1, <2>2 DEF FrameOK, TryGetCachedOrder
  <2>. HIDE DEF g
  <2>. QED  BY <1>0, <1>b, <2>2, <2>3, GotoControl
<1>6. CASE GetSelect(w)
  <2>0. f.no \in OrderNo
    BY <1>0, <1>6 DEF FrameOK, GetSelect
  <2>1. PICK c \in Codes, r \in Row : Goto(w, "reply", [f EXCEPT !.row = r, !.code = c])
    <3>. DEFINE c == IF Exists(f.no) THEN 200 ELSE 404
    <3>1. Goto(w, "reply", [f EXCEPT !.row = db[f.no], !.code = c])
      BY <1>6 DEF GetSelect
    <3>2. c \in Codes /\ db[f.no] \in Row
      BY <1>a, <1>b, <2>0
    <3>. HIDE DEF c
    <3>. QED  BY Zenon, <3>1, <3>2
  <2>. DEFINE g == [f EXCEPT !.row = r, !.code = c]
  <2>2. g \in Frame /\ g.op = f.op /\ g.no = f.no
    BY Zenon, <1>0 DEF Frame
  <2>3. FrameOK("reply", g) /\ Goto(w, "reply", g)
    BY <2>0, <2>1, <2>2 DEF FrameOK
  <2>. HIDE DEF g
  <2>. QED  BY <1>0, <1>b, <2>2, <2>3, GotoControl
<1>7. CASE PaySelect(w)
  <2>0. f.no \in OrderNo /\ f.op = "pay"
    BY <1>0, <1>7 DEF FrameOK, PaySelect
  <2>1. CASE Reply(w, 404) \/ Reply(w, 400)
    BY <1>0, <1>b, <2>1, ReplyControl
  <2>2. CASE Goto(w, "p_now", [f EXCEPT !.row = db[f.no]])
    <3>. DEFINE g == [f EXCEPT !.row = db[f.no]]
    <3>1. g \in Frame /\ g.op = f.op /\ g.no = f.no
      BY <1>0, <1>a, <2>0 DEF Frame
    <3>2. FrameOK("p_now", g) /\ Goto(w, "p_now", g)
      BY <2>0, <2>2, <3>1 DEF FrameOK
    <3>. HIDE DEF g
    <3>. QED  BY <1>0, <1>b, <3>1, <3>2, GotoControl
  <2>. QED  BY <1>7, <2>1, <2>2 DEF PaySelect
<1>8. CASE PayStamp(w)
  <2>. DEFINE g == [f EXCEPT !.now = clock]
  <2>1. g \in Frame /\ g.op = f.op /\ g.no = f.no
    BY <1>0, <1>a DEF Frame
  <2>2. FrameOK("p_update", g) /\ Goto(w, "p_update", g)
    BY <1>0, <1>8, <2>1 DEF FrameOK, PayStamp
  <2>. HIDE DEF g
  <2>. QED  BY <1>0, <1>b, <2>1, <2>2, GotoControl
<1>9. CASE ListPrepare(w)
  <2>. DEFINE g == [f EXCEPT !.todo = OrderNo]
  <2>1. g \in Frame /\ g.op = f.op /\ g.no = f.no
    BY <1>0 DEF Frame
  <2>2. FrameOK("l_scan", g) /\ Goto(w, "l_scan", g)
    BY <1>0, <1>9, <2>1 DEF FrameOK, ListPrepare
  <2>. HIDE DEF g
  <2>. QED  BY <1>0, <1>b, <2>1, <2>2, GotoControl
<1>10. CASE ListStep(w)
  <2>1. f.op = "list" /\ f.todo \subseteq OrderNo /\ f.listed \subseteq OrderNo
    BY <1>0, <1>10 DEF FrameOK, ListStep, Frame
  <2>2. PICK t \in SUBSET OrderNo, s \in SUBSET OrderNo :
          Goto(w, "l_scan", [f EXCEPT !.todo = t, !.listed = s])
    <3>1. PICK o \in f.todo :
            Goto(w, "l_scan",
              [f EXCEPT !.todo = @ \ {o},
                        !.listed = IF Exists(o) /\ f.filter \in {"", db[o].status}
                                     THEN @ \cup {o} ELSE @])
      BY Zenon, <1>10 DEF ListStep
    <3>. QED  BY Zenon, <2>1, <3>1
  <2>. DEFINE g == [f EXCEPT !.todo = t, !.listed = s]
  <2>3. g \in Frame /\ g.op = f.op
    BY Zenon, <1>0 DEF Frame
  <2>4. FrameOK("l_scan", g) /\ Goto(w, "l_scan", g)
    BY <2>1, <2>2, <2>3 DEF FrameOK
  <2>. HIDE DEF g
  <2>. QED  BY <1>0, <1>b, <2>3, <2>4, GotoControl
<1>11. CASE ListDone(w)
  <2>1. Reply(w, 200) /\ f.op = "list"
    BY <1>0, <1>11 DEF FrameOK, ListDone
  <2>. QED  BY <1>0, <1>b, <2>1, ReplyControl
<1>12. CASE DeleteChanges(w)
  <2>1. CASE Reply(w, 404)
    BY <1>0, <1>b, <2>1, ReplyControl
  <2>2. CASE Goto(w, "d_del", f)
    <3>1. FrameOK("d_del", f)
      BY <1>0, <1>12 DEF FrameOK, DeleteChanges
    <3>. QED  BY <1>0, <1>b, <2>2, <3>1, GotoControl
  <2>. QED  BY <1>12, <2>1, <2>2 DEF DeleteChanges
<1>13. CASE NoRedisClient(w) \/ RecordRedis(w)
  <2>1. f.no \in OrderNo
    BY <1>0, <1>13 DEF FrameOK, NoRedisClient, RecordRedis
  <2>2. CASE Reply(w, 200)
    BY <1>0, <1>b, <2>1, <2>2, ReplyControl
  <2>. DEFINE g == [f EXCEPT !.ok = FALSE]
  <2>3. CASE Goto(w, "g_select", f) /\ f.op = "get"
    <3>1. FrameOK("g_select", f)
      BY <2>1, <2>3 DEF FrameOK
    <3>. QED  BY <1>0, <1>b, <2>3, <3>1, GotoControl
  <2>5. CASE Goto(w, "g_select", g) /\ f.op = "get"
    <3>1. g \in Frame /\ g.op = f.op /\ g.no = f.no
      BY Zenon, <1>0 DEF Frame
    <3>. HIDE DEF g
    <3>2. FrameOK("g_select", g)
      BY <2>1, <2>5, <3>1 DEF FrameOK
    <3>. QED  BY <1>0, <1>b, <2>5, <3>1, <3>2, GotoControl
  <2>4. \/ Reply(w, 200)
        \/ Goto(w, "g_select", f) /\ f.op = "get"
        \/ Goto(w, "g_select", g) /\ f.op = "get"
    BY <1>0, <1>13 DEF FrameOK, NoRedisClient, RecordRedis
  <2>. QED  BY <2>2, <2>3, <2>4, <2>5
<1>14. CASE Respond(w)
  <2>1. FrameOK("idle", NoFrame) /\ Goto(w, "idle", NoFrame)
    BY <1>14 DEF FrameOK, Respond
  <2>. QED  BY <1>0, <1>a, <1>b, <2>1, GotoControl
<1>15. CASE SqliteStepFails(w)
  <2>1. Reply(w, 404) \/ (Reply(w, 200) /\ f.op = "list")
    BY <1>0, <1>15 DEF FrameOK, SqliteStepFails
  <2>. QED  BY <1>0, <1>b, <2>1, ReplyControl
<1>. QED
  BY <1>1, <1>2, <1>3, <1>4, <1>5, <1>6, <1>7, <1>8, <1>9, <1>10, <1>11, <1>12, <1>13,
     <1>14, <1>15 DEF Step

\* A step of a handler keeps the types of the data.
LEMMA StepData ==
  ASSUME TypeInv, NEW w \in Workers, Step(w)
  PROVE  DataTypeOK'
<1>. DEFINE f == frame[w]
<1>0. DataTypeOK /\ f \in Frame /\ FrameOK(pc[w], f)
  BY DEF TypeInv, ControlInv
<1>a. f.row \in Row /\ f.now \in 0..MaxClock /\ Absent \in Row
        /\ f.listed \subseteq OrderNo /\ f.ok \in BOOLEAN
  BY <1>0, NoFrameType DEF Frame
<1>c. \A c \in Counters : Count(c) => metrics' \in [Counters -> Nat]
  BY <1>0 DEF Count, DataTypeOK
<1>1. CASE Local
  BY <1>0, <1>1 DEF DataTypeOK, Local, process, table, redisDB, health, history
<1>2. CASE CreateInsert(w)
  BY Zenon, <1>0, <1>a, <1>2
  DEF CreateInsert, DataTypeOK, process, redisDB, health, history
<1>3. CASE CreateConflict(w) \/ SqliteFails(w)
  <2>1. "sqlite_errors" \in Counters
    BY DEF Counters
  <2>2. metrics' \in [Counters -> Nat]
    BY <1>3, <1>c, <2>1 DEF CreateConflict, SqliteFails
  <2>. QED
    BY <1>0, <1>3, <2>2 DEF CreateConflict, SqliteFails, DataTypeOK, process, redisDB
<1>4. CASE CreateCount(w) \/ PayCount(w)
  <2>1. "orders_created" \in Counters /\ "orders_paid" \in Counters
    BY DEF Counters
  <2>2. metrics' \in [Counters -> Nat]
    BY <1>4, <1>c, <2>1 DEF CreateCount, PayCount
  <2>. QED
    BY <1>0, <1>4, <2>2
    DEF CreateCount, PayCount, DataTypeOK, process, table, redisDB, history
<1>5. CASE TryCacheOrder(w) \/ InvalidateCachedOrder(w)
  <2>1. cache' \in [OrderNo -> Row] /\ expires' \in [OrderNo -> 0..(MaxClock + CacheTTL)]
    <3>1. clock + CacheTTL \in 0..(MaxClock + CacheTTL) /\ 0 \in 0..(MaxClock + CacheTTL)
      BY <1>0, ConstantsAssumption DEF DataTypeOK
    <3>2. CASE UNCHANGED redisDB
      BY <1>0, <3>2 DEF DataTypeOK, redisDB
    <3>3. CASE /\ cache' = [cache EXCEPT ![f.no] = f.row]
               /\ expires' = [expires EXCEPT ![f.no] = clock + CacheTTL]
      BY Zenon, <1>0, <1>a, <3>1, <3>3 DEF DataTypeOK
    <3>4. CASE /\ cache' = [cache EXCEPT ![f.no] = Absent]
               /\ expires' = [expires EXCEPT ![f.no] = 0]
      BY Zenon, <1>0, <1>a, <3>1, <3>4 DEF DataTypeOK
    <3>. QED  BY Zenon, <1>5, <3>2, <3>3, <3>4 DEF TryCacheOrder, InvalidateCachedOrder
  <2>. QED
    BY <1>0, <1>5, <2>1
    DEF TryCacheOrder, InvalidateCachedOrder, DataTypeOK, process, table, health, history
<1>6. CASE PayUpdate(w)
  <2>1. ASSUME NEW o \in OrderNo
        PROVE  [db[o] EXCEPT !.status = "PAID", !.paid_at = f.now] \in Row
    BY Zenon, <1>0, <1>a DEF DataTypeOK, Row
  <2>2. db' \in [OrderNo -> Row]
    <3>1. CASE Exists(f.no)
      <4>1. db' = [db EXCEPT ![f.no] = [db[f.no] EXCEPT !.status = "PAID", !.paid_at = f.now]]
        BY Zenon, <1>0, <1>6, <3>1 DEF PayUpdate, DataTypeOK
      <4>. QED  BY ZenonT(60), <1>0, <1>6, <2>1, <4>1 DEF DataTypeOK, FrameOK, PayUpdate
    <3>2. CASE ~Exists(f.no)
      BY <1>0, <1>6, <3>2 DEF PayUpdate, DataTypeOK
    <3>. QED  BY <3>1, <3>2
  <2>. QED
    BY <1>0, <1>6, <2>2 DEF PayUpdate, DataTypeOK, process, redisDB, health, history
<1>7. CASE DeleteStep(w)
  <2>2. changes' \in {0, 1}
    BY <1>7 DEF DeleteStep
  <2>3. db' \in [OrderNo -> Row]
    BY Zenon, <1>0, <1>a, <1>7 DEF DeleteStep, DataTypeOK
  <2>4. UNCHANGED <<process, redisDB, health, generated, repeated, known, acked>>
    BY <1>7 DEF DeleteStep
  <2>. QED  BY <1>0, <2>2, <2>3, <2>4 DEF DataTypeOK, process, redisDB, health
<1>8. CASE NoRedisClient(w)
  <2>1. "redis_errors" \in Counters
    BY DEF Counters
  <2>2. metrics' \in [Counters -> Nat]
    BY <1>8, <1>c, <2>1 DEF NoRedisClient
  <2>. QED
    BY Zenon, <1>0, <1>8, <2>2 DEF NoRedisClient, DataTypeOK, process, table, redisDB, history
<1>9. CASE RecordRedis(w)
  <2>1. PICK up : metrics' = [c \in Counters |-> metrics[c] + (IF c \in up THEN 1 ELSE 0)]
    BY Zenon, <1>9 DEF RecordRedis
  <2>2. metrics' \in [Counters -> Nat]
    BY <1>0, <2>1 DEF DataTypeOK
  <2>3. redis_available' \in BOOLEAN
    BY <1>a, <1>9 DEF RecordRedis
  <2>4. UNCHANGED <<process, table, redisDB, history>>
    BY <1>9 DEF RecordRedis
  <2>. QED
    BY <1>0, <2>2, <2>3, <2>4 DEF DataTypeOK, process, table, redisDB, history
<1>10. CASE Respond(w)
  <2>1. known' \subseteq OrderNo
    BY <1>0, <1>a, <1>10 DEF Respond, FrameOK, DataTypeOK
  <2>2. acked' \in [OrderNo -> Facts]
    <3>1. \A d \in Facts : d \cup {"paid"} \in Facts /\ d \cup {"deleted"} \in Facts
      BY DEF Facts
    <3>2. PICK d : \/ acked' = acked
                   \/ /\ acked' = [acked EXCEPT ![f.no] = acked[f.no] \cup d]
                      /\ d = {"paid"} \/ d = {"deleted"}
                      /\ f.no \in OrderNo
      BY Zenon, <1>0, <1>10 DEF Respond, FrameOK
    <3>3. ASSUME f.no \in OrderNo, d = {"paid"} \/ d = {"deleted"}
          PROVE  acked[f.no] \cup d \in Facts
      BY Zenon, <1>0, <3>1, <3>3 DEF DataTypeOK
    <3>. QED  BY Zenon, <1>0, <3>2, <3>3 DEF DataTypeOK
  <2>. QED
    BY <1>0, <1>10, <2>1, <2>2 DEF Respond, DataTypeOK, process, table, redisDB, health
<1>11. CASE SqliteStepFails(w)
  BY <1>0, <1>11 DEF SqliteStepFails, DataTypeOK, process, redisDB, health
<1>. QED
  BY Zenon, <1>1, <1>2, <1>3, <1>4, <1>5, <1>6, <1>7, <1>8, <1>9, <1>10, <1>11
  DEF Step, CreateStamp, TryGetCachedOrder, GetSelect, PaySelect, PayStamp, ListPrepare,
      ListStep, ListDone, DeleteChanges

\* TypeInv is an inductive invariant of the handlers.
THEOREM TypeInvariant == Spec => []TypeInv
<1>1. Init => TypeInv
  <2>. SUFFICES ASSUME Init PROVE TypeInv
    OBVIOUS
  <2>1. ControlInv
    <3>1. \A w \in Workers : FrameOK(pc[w], frame[w])
      BY DEF Init, FrameOK
    <3>. QED  BY <3>1, NoFrameType DEF Init, ControlInv, Labels
  <2>2. DataTypeOK
    <3>1. repeated \in BOOLEAN
      BY Zenon DEF Init
    <3>. QED
      BY ConstantsAssumption, NoFrameType, <3>1 DEF Init, DataTypeOK, Facts
  <2>. QED  BY <2>1, <2>2 DEF TypeInv
<1>2. TypeInv /\ [Next]_vars => TypeInv'
  <2>. SUFFICES ASSUME TypeInv, [Next]_vars PROVE TypeInv'
    OBVIOUS
  <2>1. ASSUME NEW w \in Workers, Arrive(w) PROVE TypeInv'
    BY <2>1, ArriveType
  <2>2. ASSUME NEW w \in Workers, Step(w) PROVE TypeInv'
    BY <2>2, StepControl, StepData DEF TypeInv
  <2>3. CASE Tick
    <3>1. clock' \in 1..MaxClock
      BY <2>3, ConstantsAssumption DEF Tick, TypeInv, DataTypeOK
    <3>2. cache' \in [OrderNo -> Row] /\ expires' \in [OrderNo -> 0..(MaxClock + CacheTTL)]
      BY <2>3, ConstantsAssumption, NoFrameType DEF Tick, TypeInv, DataTypeOK
    <3>. QED
      BY ZenonT(30), <2>3, <3>1, <3>2
      DEF Tick, TypeInv, DataTypeOK, ControlInv, FrameOK, table, health, history
  <2>4. ASSUME NEW o \in OrderNo, Expire(o) PROVE TypeInv'
    <3>1. cache' \in [OrderNo -> Row] /\ expires' \in [OrderNo -> 0..(MaxClock + CacheTTL)]
      BY <2>4, ConstantsAssumption, NoFrameType DEF Expire, TypeInv, DataTypeOK
    <3>. QED
      BY <2>4, <3>1
      DEF Expire, TypeInv, DataTypeOK, ControlInv, FrameOK, process, table, health, history
  <2>5. CASE Restart
    <3>1. ControlInv'
      <4>1. \A w \in Workers : FrameOK(pc'[w], frame'[w])
        BY <2>5 DEF Restart, FrameOK
      <4>2. pc' \in [Workers -> Labels] /\ frame' \in [Workers -> Frame]
        BY <2>5, NoFrameType DEF Restart, Labels
      <4>. QED  BY <4>1, <4>2 DEF ControlInv, FrameOK
    <3>. QED
      BY <2>5, <3>1, ConstantsAssumption DEF Restart, TypeInv, DataTypeOK, redisDB
  <2>6. CASE UNCHANGED vars
    BY <2>6 DEF vars, process, table, redisDB, health, history, TypeInv, DataTypeOK,
                ControlInv, FrameOK
  <2>. QED  BY <2>1, <2>2, <2>3, <2>4, <2>5, <2>6 DEF Next, Finished
<1>. QED  BY <1>1, <1>2, PTL DEF Spec

-----------------------------------------------------------------------------
\* Facts about steps that the proofs about the cache and the rows share.

\* A step of worker w leaves the control state of the others alone.
Moves(w) == \A v \in Workers \ {w} : pc'[v] = pc[v] /\ frame'[v] = frame[v]

\* A jump gives worker w its new label and locals and moves nobody else.
LEMMA GotoMoves ==
  ASSUME TypeInv, NEW w \in Workers, NEW l, NEW f, Goto(w, l, f)
  PROVE  Moves(w) /\ pc'[w] = l /\ frame'[w] = f
  BY DEF Goto, Moves, TypeInv, ControlInv

\* A request that begins gives worker w its label and locals.
LEMMA BeginMoves ==
  ASSUME TypeInv, NEW w \in Workers, NEW l, NEW f, Begin(w, l, f)
  PROVE  Moves(w) /\ pc'[w] = l /\ frame'[w] = f /\ UNCHANGED <<clock, db, cache, acked>>
<1>1. Goto(w, l, f) /\ UNCHANGED <<clock, db, cache, acked>>
  BY Zenon DEF Begin, table, redisDB
<1>. QED  BY Zenon, <1>1, GotoMoves

\* A reply sets the code and keeps what the response is made of.
LEMMA ReplyMoves ==
  ASSUME TypeInv, NEW w \in Workers, NEW c, Reply(w, c)
  PROVE  /\ Moves(w) /\ pc'[w] = "reply"
         /\ frame'[w].op = frame[w].op /\ frame'[w].no = frame[w].no
         /\ frame'[w].code = c /\ frame'[w].due = frame[w].due
         /\ frame'[w].row = frame[w].row /\ frame'[w].listed = frame[w].listed
<1>1. frame[w] \in Frame
  BY DEF TypeInv, ControlInv
<1>2. /\ frame'[w] = [frame[w] EXCEPT !.code = c, !.ok = FALSE, !.filter = "",
                                      !.todo = {}]
      /\ Moves(w) /\ pc'[w] = "reply"
  BY DEF Reply, Goto, Moves, TypeInv, ControlInv
<1>. QED  BY <1>1, <1>2 DEF Frame

\* The steps that only look at shared state, or count.
LocalStep(w) ==
  \/ CreateStamp(w) \/ CreateConflict(w) \/ CreateCount(w)
  \/ TryGetCachedOrder(w) \/ GetSelect(w)
  \/ PaySelect(w) \/ PayStamp(w) \/ PayCount(w)
  \/ ListPrepare(w) \/ ListStep(w) \/ ListDone(w) \/ DeleteChanges(w)
  \/ NoRedisClient(w) \/ RecordRedis(w)
  \/ SqliteFails(w) \/ SqliteStepFails(w)

\* How the three writes change the table.
LEMMA InsertWrites ==
  ASSUME TypeInv, NEW w \in Workers, CreateInsert(w)
  PROVE  /\ frame[w].no \in OrderNo /\ ~Exists(frame[w].no)
         /\ db' = [db EXCEPT ![frame[w].no] = frame[w].row]
         /\ frame[w].row.status = "PENDING" /\ frame[w].row.amount \in Amounts
         /\ frame[w].row.created_at \in 1..MaxClock
  BY DEF CreateInsert, TypeInv, ControlInv, FrameOK

\* The UPDATE of pay_order sets status and paid_at of a row that exists.
LEMMA UpdateWrites ==
  ASSUME TypeInv, NEW w \in Workers, PayUpdate(w)
  PROVE  /\ frame[w].no \in OrderNo
         /\ ~Exists(frame[w].no) => db' = db
         /\ Exists(frame[w].no) =>
              db' = [db EXCEPT ![frame[w].no] =
                       [db[frame[w].no] EXCEPT !.status = "PAID", !.paid_at = frame[w].now]]
  BY Zenon DEF PayUpdate, TypeInv, ControlInv, FrameOK, DataTypeOK

\* The DELETE of delete_order leaves no row.
LEMMA DeleteWrites ==
  ASSUME TypeInv, NEW w \in Workers, DeleteStep(w)
  PROVE  frame[w].no \in OrderNo /\ db' = [db EXCEPT ![frame[w].no] = Absent]
  BY DEF DeleteStep, TypeInv, ControlInv, FrameOK
=============================================================================
