------------------------- MODULE OrderLedger_proofs -------------------------
(***************************************************************************)
(* The order handlers implement the ledger: every step of OrderRoutes,     *)
(* seen through the columns of the table a client cannot change again, is  *)
(* a step of OrderLedger or changes nothing; and orders_created accounts   *)
(* for the rows of the table.                                              *)
(***************************************************************************)
EXTENDS OrderRoutes_proofs, FiniteSetTheorems

\* A number without a row has no left-over data.
AbsentRows == \A o \in OrderNo : ~Exists(o) => db[o] = Absent

\* What the ledger keeps of a row, and of the whole table.
Entry(r) == [status |-> r.status, amount |-> r.amount, created_at |-> r.created_at]
Book == [o \in OrderNo |-> Entry(db[o])]

\* The only handlers' steps that write to the table.
Writes(w) == CreateInsert(w) \/ PayUpdate(w) \/ DeleteStep(w)

\* Every other step leaves the table alone.
LEMMA OnlyWrites ==
  ASSUME [Next]_vars, \A w \in Workers : ~Writes(w)
  PROVE  UNCHANGED db
<1>1. ASSUME NEW w \in Workers, Arrive(w) PROVE UNCHANGED db
  <2>1. PICK l, f : Begin(w, l, f)
    BY <1>1, ArriveBegins
  <2>. QED  BY <2>1 DEF Begin, table
<1>2. ASSUME NEW w \in Workers, Step(w) PROVE UNCHANGED db
  BY Zenon, <1>2 DEF Step, Writes, CreateStamp, CreateConflict, CreateCount, TryCacheOrder,
       TryGetCachedOrder, GetSelect, PaySelect, PayStamp, PayCount, InvalidateCachedOrder,
       ListPrepare, ListStep, ListDone, DeleteChanges, NoRedisClient, RecordRedis, Respond,
       SqliteFails, SqliteStepFails, Local, table
<1>3. CASE Tick \/ (\E o \in OrderNo : Expire(o)) \/ Restart \/ UNCHANGED vars
  BY <1>3 DEF Tick, Expire, Restart, vars, table
<1>. QED  BY <1>1, <1>2, <1>3 DEF Next, Finished

\* AbsentRows is an invariant.
THEOREM AbsentRowsInvariant == Spec => []AbsentRows
<1>1. Init => AbsentRows
  BY DEF Init, AbsentRows
<1>2. TypeInv /\ AbsentRows /\ [Next]_vars => AbsentRows'
  <2>. SUFFICES ASSUME TypeInv, AbsentRows, [Next]_vars PROVE AbsentRows'
    OBVIOUS
  <2>0. db \in [OrderNo -> Row]
    BY DEF TypeInv, DataTypeOK
  <2>1. ASSUME NEW w \in Workers, CreateInsert(w) PROVE AbsentRows'
    BY <2>0, <2>1, InsertWrites DEF AbsentRows, Exists
  <2>2. ASSUME NEW w \in Workers, PayUpdate(w) PROVE AbsentRows'
    <3>. DEFINE o == frame[w].no
    <3>1. CASE ~Exists(o)
      BY Zenon, <2>2, <3>1, UpdateWrites DEF AbsentRows, Exists
    <3>2. CASE Exists(o)
      <4>1. /\ o \in OrderNo
            /\ db' = [db EXCEPT ![o] = [db[o] EXCEPT !.status = "PAID", !.paid_at = frame[w].now]]
        BY Zenon, <2>2, <3>2, UpdateWrites
      <4>2. db'[o].status = "PAID" /\ \A x \in OrderNo \ {o} : db'[x] = db[x]
        BY <2>0, <4>1 DEF Row
      <4>. QED  BY <4>2 DEF AbsentRows, Exists
    <3>. QED  BY <3>1, <3>2
  <2>3. ASSUME NEW w \in Workers, DeleteStep(w) PROVE AbsentRows'
    BY <2>0, <2>3, DeleteWrites DEF AbsentRows, Exists
  <2>4. CASE UNCHANGED db
    BY <2>4 DEF AbsentRows, Exists
  <2>. QED  BY <2>1, <2>2, <2>3, <2>4, OnlyWrites DEF Writes
<1>. QED  BY <1>1, <1>2, TypeInvariant, PTL DEF Spec

\* The handlers implement the ledger: no interleaving, fault, collision of
\* order numbers or restart makes the table do anything but place, settle and
\* remove orders.
THEOREM HandlersImplementLedger == Spec => LedgerSpec
<1>1. Init => Ledger!Init
  BY DEF Init, Ledger!Init, Ledger!Free, Absent
<1>2. TypeInv /\ AbsentRows /\ [Next]_vars => [Ledger!Next]_Book
  <2>. SUFFICES ASSUME TypeInv, AbsentRows, [Next]_vars PROVE Ledger!Next \/ Book' = Book
    OBVIOUS
  <2>0. db \in [OrderNo -> Row]
    BY DEF TypeInv, DataTypeOK
  <2>1. ASSUME NEW w \in Workers, CreateInsert(w) PROVE Ledger!Next
    <3>a. PICK o \in OrderNo : o = frame[w].no
      BY <2>1, InsertWrites
    <3>b. PICK r : r = frame[w].row
      OBVIOUS
    <3>1. /\ o \in OrderNo /\ db[o] = Absent /\ db' = [db EXCEPT ![o] = r]
          /\ r.status = "PENDING" /\ r.amount \in Amounts /\ r.created_at \in 1..MaxClock
      BY <2>1, <3>a, <3>b, InsertWrites DEF AbsentRows
    <3>2. Ledger!Place(o, r.amount, r.created_at)
      <4>1. db'[o] = r /\ \A x \in OrderNo \ {o} : db'[x] = db[x]
        BY <2>0, <3>1
      <4>2. db[o].status = "ABSENT" /\ db[o].amount = 0 /\ db[o].created_at = 0
        BY <3>1 DEF Absent
      <4>. QED  BY Zenon, <3>1, <4>1, <4>2 DEF Ledger!Place, Ledger!Free
    <3>3. PICK a \in Amounts, t \in 1..MaxClock : Ledger!Place(o, a, t)
      BY <3>1, <3>2
    <3>. QED  BY <3>3 DEF Ledger!Next
  <2>2. ASSUME NEW w \in Workers, PayUpdate(w) PROVE Ledger!Next \/ Book' = Book
    <3>0. PICK o \in OrderNo : o = frame[w].no
      BY Zenon, <2>2, UpdateWrites
    <3>1. CASE ~Exists(o)
      BY Zenon, <2>2, <3>0, <3>1, UpdateWrites DEF Book
    <3>2. CASE Exists(o)
      <4>1. /\ o \in OrderNo
            /\ db' = [db EXCEPT ![o] = [db[o] EXCEPT !.status = "PAID", !.paid_at = frame[w].now]]
        BY Zenon, <2>2, <3>0, <3>2, UpdateWrites
      <4>2. /\ db'[o].status = "PAID" /\ db'[o].amount = db[o].amount
            /\ db'[o].created_at = db[o].created_at
            /\ \A x \in OrderNo \ {o} : db'[x] = db[x]
        BY <2>0, <4>1 DEF Row
      <4>3. CASE db[o].status = "PENDING"
        <5>1. Ledger!Settle(o)
          BY Zenon, <4>1, <4>2, <4>3 DEF Ledger!Settle
        <5>. QED  BY <4>1, <5>1 DEF Ledger!Next
      <4>4. CASE db[o].status = "PAID"
        BY <4>2, <4>4 DEF Book, Entry
      <4>5. db[o].status \in {"PENDING", "PAID"}
        BY <2>0, <3>2, <4>1 DEF Exists, Row
      <4>. QED  BY <4>3, <4>4, <4>5
    <3>. QED  BY <3>1, <3>2
  <2>3. ASSUME NEW w \in Workers, DeleteStep(w) PROVE Ledger!Next \/ Book' = Book
    <3>0. PICK o \in OrderNo : o = frame[w].no
      BY <2>3, DeleteWrites
    <3>1. o \in OrderNo /\ db' = [db EXCEPT ![o] = Absent]
      BY <2>3, <3>0, DeleteWrites
    <3>2. CASE ~Exists(o)
      BY <2>0, <3>1, <3>2 DEF AbsentRows, Book
    <3>3. CASE Exists(o)
      <4>1. Ledger!Remove(o)
        BY Zenon, <2>0, <3>1, <3>3 DEF Ledger!Remove, Ledger!Free, Exists, Absent
      <4>. QED  BY <3>1, <4>1 DEF Ledger!Next
    <3>. QED  BY <3>2, <3>3
  <2>4. CASE UNCHANGED db
    BY <2>4 DEF Book
  <2>. QED  BY <2>1, <2>2, <2>3, <2>4, OnlyWrites DEF Writes
<1>. QED
  BY <1>1, <1>2, TypeInvariant, AbsentRowsInvariant, PTL DEF Spec, LedgerSpec, Ledger!Spec, Book, Entry

-----------------------------------------------------------------------------
\* The rows of the table, and the workers that have inserted a row and not yet
\* counted it, are finitely many.
Rows == {o \in OrderNo : Exists(o)}
Counting == {w \in Workers : pc[w] = "c_count"}

\* Their cardinalities are natural numbers.
LEMMA FiniteTables ==
  /\ IsFiniteSet(Rows) /\ Cardinality(Rows) \in Nat
  /\ IsFiniteSet(Counting) /\ Cardinality(Counting) \in Nat
<1>1. IsFiniteSet(OrderNo)
  <2>1. IsFiniteSet(1..MaxClock)
    BY ConstantsAssumption, FS_Interval
  <2>. QED  BY <2>1, ConstantsAssumption, FS_Product DEF OrderNo
<1>2. IsFiniteSet(Rows) /\ IsFiniteSet(Counting)
  BY <1>1, ConstantsAssumption, FS_Subset DEF Rows, Counting
<1>. QED  BY <1>2, FS_CardinalityType

\* The history of the deletions is a number: only a DELETE and a restart
\* change it.
THEOREM RemovedInvariant == Spec => [](removed \in Int)
<1>1. Init => removed \in Int
  BY DEF Init
<1>2. removed \in Int /\ [Next]_vars => (removed \in Int)'
  <2>. SUFFICES ASSUME removed \in Int, [Next]_vars PROVE removed' \in Int
    OBVIOUS
  <2>1. ASSUME NEW w \in Workers, Arrive(w) PROVE UNCHANGED removed
    <3>1. PICK l, f : Begin(w, l, f)
      BY <2>1, ArriveBegins
    <3>. QED  BY <3>1 DEF Begin
  <2>2. ASSUME NEW w \in Workers, DeleteStep(w) PROVE removed' \in Int
    BY <2>2 DEF DeleteStep
  <2>3. ASSUME NEW w \in Workers, Step(w), ~DeleteStep(w) PROVE UNCHANGED removed
    BY Zenon, <2>3 DEF Step, CreateStamp, CreateInsert, CreateConflict, CreateCount,
         TryCacheOrder, TryGetCachedOrder, GetSelect, PaySelect, PayStamp, PayUpdate,
         PayCount, InvalidateCachedOrder, ListPrepare, ListStep, ListDone, DeleteChanges,
         NoRedisClient, RecordRedis, Respond, SqliteFails, SqliteStepFails, Local, history
  <2>4. CASE Restart
    BY <2>4, FiniteTables DEF Restart, Rows
  <2>5. CASE Tick \/ (\E o \in OrderNo : Expire(o)) \/ UNCHANGED vars
    BY <2>5 DEF Tick, Expire, vars, history
  <2>. QED  BY <2>1, <2>2, <2>3, <2>4, <2>5 DEF Next, Finished
<1>. QED  BY <1>1, <1>2, PTL DEF Spec

\* Type correctness: the variables of the handlers always have their types,
\* for any number of workers, requests, restarts and faults.
THEOREM TypeCorrect == Spec => []TypeOK
<1>1. TypeInv /\ removed \in Int => TypeOK
  BY DEF TypeInv, TypeOK, DataTypeOK, ControlInv
<1>. QED  BY <1>1, TypeInvariant, RemovedInvariant, PTL

\* A step that leaves the table, the counter and every worker's way through
\* the label c_count alone keeps the accounting.
LEMMA AccountingKept ==
  ASSUME CreatedAccounting, Rows' = Rows, Counting' = Counting,
         metrics'["orders_created"] = metrics["orders_created"], removed' = removed
  PROVE  CreatedAccounting'
<1>1. CreatedAccounting <=> metrics["orders_created"] + Cardinality(Counting)
                              = Cardinality(Rows) + removed
  BY DEF CreatedAccounting, Rows, Counting
<1>2. CreatedAccounting' <=> metrics'["orders_created"] + Cardinality(Counting')
                              = Cardinality(Rows') + removed'
  BY DEF CreatedAccounting, Rows, Counting, Exists
<1>. QED  BY <1>1, <1>2

\* A jump that neither leaves nor enters c_count.
LEMMA CountingKept ==
  ASSUME ControlInv, NEW w \in Workers, NEW l, NEW f, Goto(w, l, f),
         pc[w] # "c_count", l # "c_count"
  PROVE  Counting' = Counting
  BY DEF Counting, Goto, ControlInv

\* orders_created is the number of rows inserted since the process started,
\* but for those a worker is about to count: inserts, deletes, collisions,
\* faults and restarts of any number of workers keep it so.
THEOREM CreatedAccountingCorrect == Spec => []CreatedAccounting
<1>1. Init => CreatedAccounting
  <2>. SUFFICES ASSUME Init PROVE CreatedAccounting
    OBVIOUS
  <2>1. Rows = {} /\ Counting = {}
    BY DEF Init, Rows, Counting, Exists, Absent
  <2>2. Cardinality(Rows) = 0 /\ Cardinality(Counting) = 0
    BY <2>1, FS_EmptySet
  <2>3. metrics["orders_created"] = 0 /\ removed = 0
    BY DEF Init, Counters
  <2>. QED  BY <2>2, <2>3 DEF CreatedAccounting, Rows, Counting
<1>2. TypeInv /\ removed \in Int /\ CreatedAccounting /\ [Next]_vars => CreatedAccounting'
  <2>. SUFFICES ASSUME TypeInv, removed \in Int, CreatedAccounting, [Next]_vars
                PROVE  CreatedAccounting'
    OBVIOUS
  <2>0. /\ ControlInv /\ DataTypeOK /\ "orders_created" \in Counters
        /\ \A w \in Workers : FrameOK(pc[w], frame[w])
    BY DEF TypeInv, ControlInv, Counters
  <2>a. /\ metrics["orders_created"] + Cardinality(Counting) = Cardinality(Rows) + removed
        /\ metrics["orders_created"] \in Nat /\ removed \in Int
        /\ CreatedAccounting' <=> metrics'["orders_created"] + Cardinality(Counting')
                                    = Cardinality(Rows') + removed'
    BY <2>0 DEF CreatedAccounting, Rows, Counting, Exists, DataTypeOK
  <2>b. UNCHANGED db => Rows' = Rows
    BY DEF Rows, Exists
  <2>c. \A c \in Counters : Count(c) /\ c # "orders_created"
          => metrics'["orders_created"] = metrics["orders_created"]
    BY <2>0 DEF Count, DataTypeOK
  <2>d. {"sqlite_errors", "redis_errors", "orders_paid"} \subseteq Counters
    BY DEF Counters
  <2>1. ASSUME NEW w \in Workers, Arrive(w) PROVE CreatedAccounting'
    <3>1. PICK l, f : Begin(w, l, f) /\ l # "c_count"
      BY <2>1, ArriveBegins
    <3>2. Goto(w, l, f) /\ pc[w] # "c_count" /\ UNCHANGED <<db, metrics, removed>>
      BY <3>1 DEF Begin, table, health
    <3>. QED  BY <2>0, <2>b, <3>1, <3>2, CountingKept, AccountingKept
  <2>2. ASSUME NEW w \in Workers, CreateInsert(w) PROVE CreatedAccounting'
    <3>. DEFINE o == frame[w].no
    <3>1. o \in OrderNo /\ frame[w].row.status = "PENDING"
      BY <2>0, <2>2 DEF FrameOK, CreateInsert
    <3>2. Rows' = Rows \cup {o} /\ o \notin Rows
      BY <2>0, <2>2, <3>1 DEF CreateInsert, Rows, Exists, DataTypeOK
    <3>3. Counting' = Counting \cup {w} /\ w \notin Counting
      BY <2>0, <2>2 DEF CreateInsert, Counting, Goto, ControlInv
    <3>4. Cardinality(Rows') = Cardinality(Rows) + 1
          /\ Cardinality(Counting') = Cardinality(Counting) + 1
      BY Zenon, <3>2, <3>3, FiniteTables, FS_AddElement
    <3>5. UNCHANGED <<metrics, removed>>
      BY <2>2 DEF CreateInsert, health, history
    <3>. QED  BY <2>a, <3>4, <3>5, FiniteTables
  <2>3. ASSUME NEW w \in Workers, CreateCount(w) PROVE CreatedAccounting'
    <3>1. Counting' = Counting \ {w} /\ w \in Counting
      BY <2>0, <2>3 DEF CreateCount, Counting, Goto, ControlInv
    <3>2. Cardinality(Counting') = Cardinality(Counting) - 1
      BY Zenon, <3>1, FiniteTables, FS_RemoveElement
    <3>3. metrics'["orders_created"] = metrics["orders_created"] + 1
      BY <2>0, <2>3 DEF CreateCount, Count, DataTypeOK
    <3>4. Rows' = Rows /\ UNCHANGED removed
      BY <2>3, <2>b DEF CreateCount, table, history
    <3>. QED  BY <2>a, <3>2, <3>3, <3>4, FiniteTables
  <2>4. ASSUME NEW w \in Workers, DeleteStep(w) PROVE CreatedAccounting'
    <3>. DEFINE o == frame[w].no
    <3>1. o \in OrderNo
      BY <2>0, <2>4 DEF FrameOK, DeleteStep
    <3>2. Rows' = Rows \ {o}
      BY <2>0, <2>4, <3>1 DEF DeleteStep, Rows, Exists, Absent, DataTypeOK
    <3>3. removed' = removed + (IF o \in Rows THEN 1 ELSE 0)
      BY <2>4, <3>1 DEF DeleteStep, Rows
    <3>4. Cardinality(Rows') = Cardinality(Rows) - (IF o \in Rows THEN 1 ELSE 0)
      <4>1. Cardinality(Rows \ {o}) = IF o \in Rows THEN Cardinality(Rows) - 1
                                                    ELSE Cardinality(Rows)
        BY Zenon, FiniteTables, FS_RemoveElement
      <4>. QED  BY <3>2, <4>1, FiniteTables
    <3>5. Counting' = Counting
      BY <2>0, <2>4, CountingKept DEF DeleteStep
    <3>6. UNCHANGED metrics
      BY <2>4 DEF DeleteStep, health
    <3>. QED  BY <2>a, <3>3, <3>4, <3>5, <3>6, FiniteTables
  <2>5. ASSUME NEW w \in Workers, PayUpdate(w) PROVE CreatedAccounting'
    <3>1. Rows' = Rows
      <4>. DEFINE o == frame[w].no
      <4>1. CASE Exists(o)
        <5>1. \A x \in OrderNo : db'[x].status = IF x = o THEN "PAID" ELSE db[x].status
          BY <2>0, <2>5, <4>1 DEF PayUpdate, FrameOK, DataTypeOK, Row
        <5>. QED  BY <4>1, <5>1 DEF Rows, Exists
      <4>2. CASE ~Exists(o)
        BY <2>5, <2>b, <4>2 DEF PayUpdate
      <4>. QED  BY <4>1, <4>2
    <3>2. Counting' = Counting
      BY <2>0, <2>5, CountingKept DEF PayUpdate
    <3>3. UNCHANGED <<metrics, removed>>
      BY <2>5 DEF PayUpdate, health, history
    <3>. QED  BY <3>1, <3>2, <3>3, AccountingKept
  <2>6. ASSUME NEW w \in Workers,
               CreateStamp(w) \/ TryCacheOrder(w) \/ TryGetCachedOrder(w) \/ GetSelect(w)
                 \/ PaySelect(w) \/ PayStamp(w) \/ InvalidateCachedOrder(w)
                 \/ ListPrepare(w) \/ ListStep(w) \/ ListDone(w) \/ DeleteChanges(w)
                 \/ Respond(w) \/ SqliteStepFails(w)
        PROVE  CreatedAccounting'
    <3>1. pc[w] # "c_count" /\ UNCHANGED <<db, metrics, removed>>
      BY ZenonT(60), <2>6 DEF CreateStamp, TryCacheOrder, TryGetCachedOrder, GetSelect, PaySelect,
           PayStamp, InvalidateCachedOrder, ListPrepare, ListStep, ListDone, DeleteChanges,
           Respond, SqliteStepFails, Local, process, table, redisDB, health, history
    <3>2. pc'[w] # "c_count" /\ \A v \in Workers \ {w} : pc'[v] = pc[v]
      <4>1. CASE CreateStamp(w) \/ GetSelect(w) \/ PayStamp(w) \/ ListPrepare(w) \/ Respond(w)
        BY <2>0, <4>1 DEF CreateStamp, GetSelect, PayStamp, ListPrepare, Respond, Goto,
             ControlInv
      <4>2. CASE TryCacheOrder(w) \/ TryGetCachedOrder(w) \/ InvalidateCachedOrder(w)
                   \/ ListStep(w)
        BY Zenon, <2>0, <4>2 DEF TryCacheOrder, TryGetCachedOrder, InvalidateCachedOrder, ListStep,
             Goto, ControlInv
      <4>3. CASE PaySelect(w) \/ ListDone(w) \/ DeleteChanges(w) \/ SqliteStepFails(w)
        BY <2>0, <4>3 DEF PaySelect, ListDone, DeleteChanges, SqliteStepFails, Goto, Reply,
             ControlInv
      <4>. QED  BY <2>6, <4>1, <4>2, <4>3
    <3>3. Counting' = Counting
      BY <3>1, <3>2 DEF Counting
    <3>. QED  BY <2>b, <3>1, <3>3, AccountingKept
  <2>7. ASSUME NEW w \in Workers,
               CreateConflict(w) \/ SqliteFails(w) \/ NoRedisClient(w) \/ PayCount(w)
        PROVE  CreatedAccounting'
    <3>1. pc[w] # "c_count" /\ UNCHANGED <<db, removed>>
          /\ \E c \in Counters \ {"orders_created"} : Count(c)
      BY <2>7, <2>d DEF CreateConflict, SqliteFails, NoRedisClient, PayCount, table, history
    <3>2. pc'[w] # "c_count" /\ \A v \in Workers \ {w} : pc'[v] = pc[v]
      BY <2>0, <2>7 DEF CreateConflict, SqliteFails, NoRedisClient, PayCount, Goto, Reply,
           ControlInv
    <3>3. Counting' = Counting
      BY <3>1, <3>2 DEF Counting
    <3>. QED  BY <2>b, <2>c, <3>1, <3>3, AccountingKept
  <2>8. ASSUME NEW w \in Workers, RecordRedis(w) PROVE CreatedAccounting'
    <3>1. pc[w] # "c_count" /\ UNCHANGED <<db, removed>>
      BY <2>8 DEF RecordRedis, table, history
    <3>2. pc'[w] # "c_count" /\ \A v \in Workers \ {w} : pc'[v] = pc[v]
      BY ZenonT(30), <2>0, <2>8 DEF RecordRedis, Goto, Reply, ControlInv
    <3>3. metrics'["orders_created"] = metrics["orders_created"]
      BY <2>0, <2>8, <2>a DEF RecordRedis
    <3>4. Counting' = Counting
      BY <3>1, <3>2 DEF Counting
    <3>. QED  BY ZenonT(30), <2>b, <3>1, <3>3, <3>4, AccountingKept
  <2>9. ASSUME Tick \/ (\E o \in OrderNo : Expire(o)) \/ UNCHANGED vars
        PROVE  CreatedAccounting'
    <3>1. UNCHANGED <<db, pc, metrics, removed>>
      BY <2>9 DEF Tick, Expire, vars, process, table, redisDB, health, history
    <3>. QED  BY <2>b, <3>1, AccountingKept DEF Counting
  <2>10. CASE Restart
    <3>1. Rows' = Rows /\ removed' = -Cardinality(Rows)
      BY <2>10, <2>b DEF Restart, Rows
    <3>2. Counting' = {}
      BY <2>10 DEF Restart, Counting
    <3>3. Cardinality(Counting') = 0
      BY <3>2, FS_EmptySet
    <3>4. metrics'["orders_created"] = 0
      BY <2>0, <2>10 DEF Restart
    <3>. QED  BY <2>a, <3>1, <3>3, <3>4, FiniteTables
  <2>11. ASSUME NEW w \in Workers, Step(w) PROVE CreatedAccounting'
    BY <2>2, <2>3, <2>4, <2>5, <2>6, <2>7, <2>8, <2>11 DEF Step
  <2>. QED  BY <2>1, <2>9, <2>10, <2>11 DEF Next, Finished
<1>. QED  BY <1>1, <1>2, TypeInvariant, RemovedInvariant, PTL DEF Spec
=============================================================================
