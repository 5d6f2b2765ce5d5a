-------------------------- MODULE Deadlines_proofs --------------------------
(* Proofs about Deadlines, for any connections, timeout and traffic.       *)
EXTENDS Deadlines, TLAPS

-----------------------------------------------------------------------------
(* The queue of handlers *)

\* The handlers of connections, and all handlers.
ConnHandlers == [what : {"start"} \cup Finds, conn : Conns]
Handlers == ConnHandlers \cup {Tick}

\* The state of a connection whose handler h is in the queue.
Awaits(h) == IF h.what = "start" THEN "posted" ELSE "ready"

\* Connections are in the state their handler in the queue runs in, and none
\* has two handlers there.
QueueOK(q, s) ==
  /\ q \in Seq(Handlers)
  /\ \A n \in 1..Len(q) : q[n] \in ConnHandlers => s[q[n].conn] = Awaits(q[n])
  /\ \A m, n \in 1..Len(q) :
       m # n /\ q[m] \in ConnHandlers /\ q[n] \in ConnHandlers => q[m].conn # q[n].conn

\* A connection with no handler in the queue may get one,
LEMMA QueueAppend ==
  ASSUME NEW q, NEW s \in [Conns -> States], QueueOK(q, s),
         NEW h \in ConnHandlers, s[h.conn] \notin {"posted", "ready"}
  PROVE  QueueOK(Append(q, h), [s EXCEPT ![h.conn] = Awaits(h)])
<1> DEFINE p == Append(q, h)
           t == [s EXCEPT ![h.conn] = Awaits(h)]
<1>1. h.conn \in Conns /\ q \in Seq(Handlers) /\ h \in Handlers
  BY DEF ConnHandlers, QueueOK, Handlers
<1>2. /\ p \in Seq(Handlers) /\ Len(p) = Len(q) + 1 /\ p[Len(q) + 1] = h
      /\ Len(q) \in Nat /\ \A n \in 1..Len(q) : p[n] = q[n]
  BY <1>1
<1>3. \A n \in 1..Len(q) : q[n] \in ConnHandlers => q[n].conn # h.conn
  BY DEF QueueOK, Awaits
<1>4. \A n \in 1..Len(p) : n \in 1..Len(q) \/ n = Len(q) + 1
  BY <1>2
<1>5. \A c \in Conns : t[c] = IF c = h.conn THEN Awaits(h) ELSE s[c]
  BY <1>1
<1>6. \A n \in 1..Len(q) : q[n] \in ConnHandlers => q[n].conn \in Conns
  BY DEF ConnHandlers
<1> HIDE DEF p, t
<1>7. \A n \in 1..Len(p) : p[n] \in ConnHandlers => t[p[n].conn] = Awaits(p[n])
  BY <1>1, <1>2, <1>3, <1>4, <1>5, <1>6 DEF QueueOK
<1>8. \A m, n \in 1..Len(p) :
        m # n /\ p[m] \in ConnHandlers /\ p[n] \in ConnHandlers => p[m].conn # p[n].conn
  BY <1>2, <1>3, <1>4 DEF QueueOK
<1>9. QueueOK(p, t) BY <1>2, <1>7, <1>8 DEF QueueOK
<1> QED BY <1>9 DEF p, t

\* ... the timer may add a tick,
LEMMA QueueTick ==
  ASSUME NEW q, NEW s \in [Conns -> States], QueueOK(q, s)
  PROVE  QueueOK(Append(q, Tick), s)
<1> DEFINE p == Append(q, Tick)
<1>0. Tick \notin ConnHandlers BY DEF ConnHandlers, Tick, Finds
<1>1. q \in Seq(Handlers) /\ Tick \in Handlers BY DEF QueueOK, Handlers
<1>2. /\ p \in Seq(Handlers) /\ Len(p) = Len(q) + 1 /\ p[Len(q) + 1] = Tick
      /\ Len(q) \in Nat /\ \A n \in 1..Len(q) : p[n] = q[n]
  BY <1>1
<1>3. \A n \in 1..Len(p) : n \in 1..Len(q) \/ n = Len(q) + 1
  BY <1>2
<1> HIDE DEF p
<1>4. QueueOK(p, s) BY <1>0, <1>2, <1>3 DEF QueueOK
<1> QED BY <1>4 DEF p

\* ... and the first handler may change the state of its connection.
LEMMA QueueTail ==
  ASSUME NEW q, NEW s \in [Conns -> States], QueueOK(q, s), q # <<>>,
         NEW t \in [Conns -> States],
         \A c \in Conns : t[c] = s[c] \/ (Head(q) \in ConnHandlers /\ c = Head(q).conn)
  PROVE  QueueOK(Tail(q), t)
<1> DEFINE p == Tail(q)
<1>1. q \in Seq(Handlers) BY DEF QueueOK
<1>2. /\ p \in Seq(Handlers) /\ Len(p) = Len(q) - 1 /\ Len(q) \in Nat /\ 1 \in 1..Len(q)
      /\ Head(q) = q[1] /\ \A n \in 1..Len(p) : p[n] = q[n + 1] /\ n + 1 \in 1..Len(q)
  BY <1>1
<1>3. \A n \in 1..Len(p) : n + 1 # 1 /\ \A m \in 1..Len(p) : m # n => m + 1 # n + 1
  BY <1>2
<1>4. \A n \in 1..Len(q) : q[n] \in ConnHandlers => q[n].conn \in Conns
  BY DEF ConnHandlers
<1> HIDE DEF p
<1>5. \A n \in 1..Len(p) : p[n] \in ConnHandlers => t[p[n].conn] = Awaits(p[n])
  BY <1>2, <1>3, <1>4 DEF QueueOK
<1>6. \A m, n \in 1..Len(p) :
        m # n /\ p[m] \in ConnHandlers /\ p[n] \in ConnHandlers => p[m].conn # p[n].conn
  BY <1>2, <1>3 DEF QueueOK
<1>7. QueueOK(p, t) BY <1>2, <1>5, <1>6 DEF QueueOK
<1> QED BY <1>7 DEF p

-----------------------------------------------------------------------------
(* Deadlines *)

DeadlineTasks == [conn : Conns, waited : Nat]

\* The queue and the connections.
ConnsInv ==
  /\ state \in [Conns -> States] /\ open \in [Conns -> BOOLEAN]
  /\ QueueOK(queue, state)
  /\ \A c \in Conns : state[c] = "posted" => open[c]

\* The timer: ids are issued upwards, and a connection that has not started
\* holds none.
TimerInv ==
  /\ task_id \in [Conns -> Nat] /\ highest_id \in Nat
  /\ \A i \in DOMAIN tasks : i \in 1..highest_id /\ tasks[i] \in DeadlineTasks
  /\ \A c \in Conns : state[c] \in {"unborn", "posted"} => task_id[c] = 0
  /\ TasksCurrent

\* Live connections hold different ids, and their deadlines while they are
\* open, as long as no id was issued that another connection held.
OwnIds ==
  /\ \A c \in Conns : Live(c) /\ open[c] =>
       task_id[c] \in DOMAIN tasks /\ tasks[task_id[c]].conn = c
  /\ \A c, d \in Conns : c # d /\ Live(c) /\ Live(d) => task_id[c] # task_id[d]

DeadlinesInv == ConnsInv /\ TimerInv /\ (reused \/ OwnIds)

\* start_deadline replaces the deadline of its connection and no other.
LEMMA StartDeadlineStep ==
  ASSUME DeadlinesInv, NEW c \in Conns, StartDeadline(c), SetState(c, "reading"),
         UNCHANGED open, open[c], state[c] \in {"posted", "ready"}
  PROVE  TimerInv' /\ (reused \/ OwnIds)'
<1> DEFINE id == highest_id + 1
<1>1. /\ task_id \in [Conns -> Nat] /\ highest_id \in Nat /\ state \in [Conns -> States]
      /\ \A i \in DOMAIN tasks : i \in 1..highest_id /\ tasks[i] \in DeadlineTasks
      /\ \A i \in DOMAIN tasks : i # id
  BY DEF DeadlinesInv, ConnsInv, TimerInv
<1>2. /\ highest_id' = id /\ task_id' = [task_id EXCEPT ![c] = id]
      /\ state' = [state EXCEPT ![c] = "reading"]
      /\ DOMAIN tasks' = (DOMAIN tasks \ {task_id[c]}) \cup {id}
      /\ \A i \in DOMAIN tasks \ {task_id[c]} : tasks'[i] = tasks[i]
      /\ tasks'[id] = [conn |-> c, waited |-> 0]
      /\ reused' = (reused \/ \E d \in Conns \ {c} : Live(d) /\ task_id[d] = id)
  BY <1>1 DEF StartDeadline, Cancelled, SetState
<1>3. \A i \in DOMAIN tasks' : i \in 1..highest_id' /\ tasks'[i] \in DeadlineTasks
  BY <1>1, <1>2 DEF DeadlineTasks
<1>4. \A i \in DOMAIN tasks \ {task_id[c]} : tasks[i].conn \in Conns \ {c}
  BY <1>1 DEF DeadlinesInv, TimerInv, TasksCurrent, DeadlineTasks
<1>5. TasksCurrent'
  <2> SUFFICES ASSUME NEW i \in DOMAIN tasks'
               PROVE  LET d == tasks'[i].conn
                      IN  task_id'[d] = i /\ state'[d] \in {"reading", "ready"} /\ open'[d]
    BY DEF TasksCurrent, Live
  <2>1. CASE i = id BY <1>1, <1>2, <2>1
  <2>2. CASE i # id
    <3>1. i \in DOMAIN tasks \ {task_id[c]} BY <1>2, <2>2
    <3>2. tasks[i].conn \in Conns \ {c} /\ tasks'[i] = tasks[i] BY <1>2, <1>4, <3>1
    <3>3. LET d == tasks[i].conn
          IN  task_id[d] = i /\ state[d] \in {"reading", "ready"} /\ open[d]
      BY <3>1 DEF DeadlinesInv, TimerInv, TasksCurrent, Live
    <3> QED BY <1>1, <1>2, <3>2, <3>3
  <2> QED BY <2>1, <2>2
<1>6. TimerInv'
  <2>1. task_id' \in [Conns -> Nat] /\ highest_id' \in Nat BY <1>1, <1>2
  <2>2. \A d \in Conns : state'[d] \in {"unborn", "posted"} => task_id'[d] = 0
    BY <1>1, <1>2 DEF DeadlinesInv, TimerInv
  <2> QED BY <1>3, <1>5, <2>1, <2>2 DEF TimerInv
<1>7. ASSUME ~reused' PROVE OwnIds'
  <2>1. OwnIds /\ \A d \in Conns \ {c} : Live(d) => task_id[d] # id
    BY <1>2, <1>7 DEF DeadlinesInv
  <2>2. \A d \in Conns \ {c} : /\ state'[d] = state[d] /\ task_id'[d] = task_id[d]
                               /\ open'[d] = open[d]
    BY <1>1, <1>2
  <2>3. task_id'[c] = id /\ state'[c] = "reading" BY <1>1, <1>2
  <2>4. \A d \in Conns \ {c} : task_id[d] \in DOMAIN tasks /\ Live(d) => task_id[d] # task_id[c]
    <3>1. CASE state[c] = "ready" BY <2>1, <3>1 DEF OwnIds, Live
    <3>2. CASE state[c] = "posted"
      <4>1. task_id[c] = 0 BY <3>2 DEF DeadlinesInv, TimerInv
      <4> QED BY <1>1, <4>1
    <3> QED BY <3>1, <3>2
  <2>5. ASSUME NEW d \in Conns, Live(d)', open'[d]
        PROVE  task_id'[d] \in DOMAIN tasks' /\ tasks'[task_id'[d]].conn = d
    <3>1. CASE d = c BY <1>2, <2>3, <3>1
    <3>2. CASE d # c
      <4>1. Live(d) /\ open[d] BY <2>2, <2>5, <3>2 DEF Live
      <4>2. task_id[d] \in DOMAIN tasks /\ tasks[task_id[d]].conn = d
        BY <2>1, <4>1 DEF OwnIds
      <4>3. task_id[d] \in DOMAIN tasks \ {task_id[c]} BY <2>4, <3>2, <4>1, <4>2
      <4> QED BY <1>2, <2>2, <3>2, <4>2, <4>3
    <3> QED BY <3>1, <3>2
  <2>6. ASSUME NEW d \in Conns, NEW e \in Conns, d # e, Live(d)', Live(e)'
        PROVE  task_id'[d] # task_id'[e]
    BY <2>1, <2>2, <2>3, <2>6 DEF OwnIds, Live
  <2> QED BY <2>5, <2>6 DEF OwnIds
<1> QED BY <1>6, <1>7

\* What the handler at the head of the queue says of its connection.
LEMMA HeadHandler ==
  ASSUME ConnsInv, NEW c \in Conns, NEW w \in {"start"} \cup Finds, Runs(Handler(w, c))
  PROVE  /\ state[c] = Awaits(Handler(w, c)) /\ Head(queue) \in ConnHandlers
         /\ Head(queue).conn = c /\ Handler(w, c).what = w
<1>1. Handler(w, c) \in ConnHandlers /\ Handler(w, c).conn = c /\ Handler(w, c).what = w
  BY DEF Handler, ConnHandlers
<1>2. queue \in Seq(Handlers) /\ queue # <<>> /\ Head(queue) = Handler(w, c)
  BY DEF ConnsInv, QueueOK, Runs
<1>3. 1 \in 1..Len(queue) /\ queue[1] = Head(queue) BY <1>2
<1> QED BY <1>1, <1>2, <1>3 DEF ConnsInv, QueueOK

\* The thread runs a handler that goes on reading,
LEMMA ReadingStep ==
  ASSUME DeadlinesInv, NEW c \in Conns, RunStart(c) \/ RunRead(c)
  PROVE  DeadlinesInv'
<1>0. ConnsInv BY DEF DeadlinesInv
<1>1. /\ state[c] \in {"posted", "ready"} /\ open[c] /\ StartDeadline(c)
      /\ SetState(c, "reading") /\ UNCHANGED open /\ queue' = Tail(queue) /\ queue # <<>>
      /\ Head(queue) \in ConnHandlers /\ Head(queue).conn = c
  <2>1. CASE RunStart(c)
    BY <1>0, <2>1, HeadHandler DEF RunStart, Awaits, ConnsInv, Runs
  <2>2. CASE RunRead(c)
    BY <1>0, <2>2, HeadHandler DEF RunRead, Awaits, Finds, Runs
  <2> QED BY <2>1, <2>2
<1>2. TimerInv' /\ (reused \/ OwnIds)' BY <1>1, StartDeadlineStep
<1>3. /\ state' \in [Conns -> States] /\ \A d \in Conns \ {c} : state'[d] = state[d]
      /\ state'[c] = "reading" /\ state \in [Conns -> States] /\ QueueOK(queue, state)
  BY <1>0, <1>1 DEF ConnsInv, SetState, States
<1>4. QueueOK(queue', state')
  BY <1>1, <1>3, QueueTail
<1> QED BY <1>0, <1>1, <1>2, <1>3, <1>4 DEF DeadlinesInv, ConnsInv

\* ... or one that gives the connection up,
LEMMA EndStep ==
  ASSUME DeadlinesInv, NEW c \in Conns, EndConnection(c)
  PROVE  DeadlinesInv'
<1>0. ConnsInv BY DEF DeadlinesInv
<1>1. /\ state[c] = "ready" /\ state' = [state EXCEPT ![c] = "gone"]
      /\ open' = [open EXCEPT ![c] = FALSE] /\ queue' = Tail(queue) /\ queue # <<>>
      /\ Head(queue) \in ConnHandlers /\ Head(queue).conn = c
      /\ DOMAIN tasks' = DOMAIN tasks \ {task_id[c]}
      /\ \A i \in DOMAIN tasks' : tasks'[i] = tasks[i]
      /\ UNCHANGED <<task_id, highest_id, reused>>
  <2>1. PICK w \in Finds : Runs(Handler(w, c)) BY DEF EndConnection
  <2>2. w # "start" /\ w \in {"start"} \cup Finds BY DEF Finds
  <2>3. state[c] = "ready" /\ Head(queue) \in ConnHandlers /\ Head(queue).conn = c
    BY <1>0, <2>1, <2>2, HeadHandler DEF Awaits
  <2> QED BY <2>1, <2>3 DEF EndConnection, SetState, Cancelled, Runs
<1>2. /\ state' \in [Conns -> States] /\ \A d \in Conns \ {c} : state'[d] = state[d] /\ open'[d] = open[d]
      /\ state'[c] = "gone" /\ open' \in [Conns -> BOOLEAN] /\ state \in [Conns -> States]
  BY <1>0, <1>1 DEF ConnsInv, States
<1>3. QueueOK(queue', state')
  BY <1>0, <1>1, <1>2, QueueTail DEF ConnsInv
<1>4. ConnsInv' BY <1>0, <1>2, <1>3 DEF ConnsInv
<1>5. TimerInv'
  BY <1>1, <1>2 DEF DeadlinesInv, TimerInv, TasksCurrent, Live, DeadlineTasks
<1>6. (reused \/ OwnIds)'
  BY <1>1, <1>2 DEF DeadlinesInv, OwnIds, Live
<1> QED BY <1>4, <1>5, <1>6 DEF DeadlinesInv

\* ... and clients and the acceptor add handlers.
LEMMA ArrivalStep ==
  ASSUME DeadlinesInv, NEW c \in Conns,
         PostStart(c) \/ \E what \in Finds : ReadCompletes(c, what)
  PROVE  DeadlinesInv'
<1>0. ConnsInv BY DEF DeadlinesInv
<1>1. PICK w \in {"start"} \cup Finds :
        /\ state[c] = IF w = "start" THEN "unborn" ELSE "reading"
        /\ state' = [state EXCEPT ![c] = Awaits(Handler(w, c))]
        /\ open' = [open EXCEPT ![c] = IF w = "start" THEN TRUE ELSE @]
        /\ queue' = Append(queue, Handler(w, c))
        /\ UNCHANGED <<task_id, tasks, highest_id, reused>>
  <2>1. CASE PostStart(c)
    BY <2>1 DEF PostStart, SetState, Awaits, Handler, timer
  <2>2. ASSUME NEW what \in Finds, ReadCompletes(c, what)
        PROVE  \E w \in {"start"} \cup Finds :
                 /\ state[c] = IF w = "start" THEN "unborn" ELSE "reading"
                 /\ state' = [state EXCEPT ![c] = Awaits(Handler(w, c))]
                 /\ open' = [open EXCEPT ![c] = IF w = "start" THEN TRUE ELSE @]
                 /\ queue' = Append(queue, Handler(w, c))
                 /\ UNCHANGED <<task_id, tasks, highest_id, reused>>
    <3>1. what # "start" /\ Handler(what, c).what = what BY DEF Finds, Handler
    <3>2. open' = [open EXCEPT ![c] = IF what = "start" THEN TRUE ELSE @]
      BY <1>0, <2>2, <3>1 DEF ReadCompletes, ConnsInv
    <3> QED BY <2>2, <3>1, <3>2 DEF ReadCompletes, SetState, Awaits, timer
  <2> QED BY <2>1, <2>2
<1>2. Handler(w, c) \in ConnHandlers /\ Handler(w, c).conn = c /\ Handler(w, c).what = w
  BY DEF Handler, ConnHandlers
<1>3. QueueOK(queue', state')
  BY <1>0, <1>1, <1>2, QueueAppend DEF ConnsInv
<1>4. /\ state' \in [Conns -> States] /\ open' \in [Conns -> BOOLEAN]
      /\ \A d \in Conns \ {c} : state'[d] = state[d] /\ open'[d] = open[d]
      /\ \/ state[c] = "unborn" /\ state'[c] = "posted" /\ open'[c]
         \/ state[c] = "reading" /\ state'[c] = "ready" /\ open'[c] = open[c]
  BY <1>0, <1>1, <1>2 DEF ConnsInv, States, Awaits
<1>5. ConnsInv' BY <1>0, <1>3, <1>4 DEF ConnsInv
<1>6. TimerInv'
  BY <1>1, <1>4 DEF DeadlinesInv, TimerInv, TasksCurrent, Live, DeadlineTasks
<1>7. (reused \/ OwnIds)'
  BY <1>1, <1>4 DEF DeadlinesInv, OwnIds, Live
<1> QED BY <1>5, <1>6, <1>7 DEF DeadlinesInv

\* A task that is run takes its connection's deadline with it.
LEMMA RunTaskStep == DeadlinesInv /\ RunTask => DeadlinesInv'
<1> SUFFICES ASSUME DeadlinesInv, RunTask PROVE DeadlinesInv' OBVIOUS
<1>0. ConnsInv /\ TimerInv BY DEF DeadlinesInv
<1>1. PICK i \in DOMAIN tasks :
        /\ tasks' = Cancelled(i)
        /\ open' = [open EXCEPT ![tasks[i].conn] = FALSE]
        /\ IF open[tasks[i].conn] /\ state[tasks[i].conn] = "reading"
             THEN SetState(tasks[i].conn, "ready")
                  /\ queue' = Append(queue, Handler("error", tasks[i].conn))
             ELSE UNCHANGED <<state, queue>>
        /\ UNCHANGED <<task_id, highest_id, reused>>
  BY DEF RunTask
<1> DEFINE c == tasks[i].conn
<1>2. c \in Conns /\ task_id[c] = i /\ Live(c)
  BY <1>0 DEF TimerInv, TasksCurrent, DeadlineTasks
<1>3. DOMAIN tasks' = DOMAIN tasks \ {i} /\ \A j \in DOMAIN tasks' : tasks'[j] = tasks[j]
  BY <1>1 DEF Cancelled
<1> HIDE DEF c
<1>4. QueueOK(queue', state') /\ state' \in [Conns -> States] /\ state \in [Conns -> States]
      /\ \A d \in Conns : state'[d] = state[d] \/ (state[d] = "reading" /\ state'[d] = "ready")
  <2>1. CASE open[c] /\ state[c] = "reading"
    <3>1. state' = [state EXCEPT ![c] = "ready"] /\ queue' = Append(queue, Handler("error", c))
      BY <1>1, <2>1 DEF SetState, c
    <3>2. /\ Handler("error", c) \in ConnHandlers /\ Handler("error", c).conn = c
          /\ Awaits(Handler("error", c)) = "ready"
      BY <1>2 DEF Handler, ConnHandlers, Finds, Awaits
    <3>3. QueueOK(queue', state')
      BY <1>0, <2>1, <3>1, <3>2, QueueAppend DEF ConnsInv
    <3> QED BY <1>0, <2>1, <3>1, <3>3 DEF ConnsInv, States
  <2>2. CASE ~(open[c] /\ state[c] = "reading")
    BY <1>0, <1>1, <2>2 DEF ConnsInv, c
  <2> QED BY <2>1, <2>2
<1>5. /\ open' \in [Conns -> BOOLEAN] /\ ~open'[c]
      /\ \A d \in Conns \ {c} : open'[d] = open[d]
  BY <1>0, <1>1, <1>2 DEF ConnsInv, c
<1>6. ConnsInv'
  BY <1>0, <1>2, <1>4, <1>5 DEF ConnsInv, Live
<1>7. TimerInv'
  BY <1>0, <1>1, <1>2, <1>3, <1>4, <1>5 DEF TimerInv, TasksCurrent, Live, DeadlineTasks
<1>8. (reused \/ OwnIds)'
  <2>1. ASSUME OwnIds PROVE OwnIds'
    <3>1. \A d \in Conns : Live(d)' => Live(d) BY <1>4 DEF Live
    <3>2. \A d \in Conns \ {c} : Live(d) /\ open[d] => task_id[d] # i
      BY <2>1 DEF OwnIds, c
    <3> QED BY <1>1, <1>3, <1>5, <2>1, <3>1, <3>2 DEF OwnIds
  <2> QED BY <1>1, <2>1 DEF DeadlinesInv
<1> QED BY <1>6, <1>7, <1>8 DEF DeadlinesInv

\* The other steps of a tick leave connections and ids alone.
LEMMA TickStep ==
  DeadlinesInv /\ (TimerExpires \/ TickHandler \/ EndTick \/ UNCHANGED vars) => DeadlinesInv'
<1> SUFFICES ASSUME DeadlinesInv, TimerExpires \/ TickHandler \/ EndTick \/ UNCHANGED vars
             PROVE  DeadlinesInv'
  OBVIOUS
<1>0. ConnsInv /\ TimerInv BY DEF DeadlinesInv
<1>1. UNCHANGED <<state, open, task_id, reused>>
  BY DEF TimerExpires, TickHandler, EndTick, vars, conns
<1>2. QueueOK(queue', state)
  <2>1. CASE TimerExpires BY <1>0, <2>1, QueueTick DEF TimerExpires, ConnsInv
  <2>2. CASE TickHandler BY <1>0, <2>2, QueueTail DEF TickHandler, Runs, ConnsInv
  <2>3. CASE EndTick \/ UNCHANGED vars BY <1>0, <2>3 DEF EndTick, vars, ConnsInv
  <2> QED BY <2>1, <2>2, <2>3
<1>3. /\ DOMAIN tasks' = DOMAIN tasks
      /\ \A i \in DOMAIN tasks : tasks'[i].conn = tasks[i].conn /\ tasks'[i] \in DeadlineTasks
  <2>1. CASE TickHandler
    <3>1. PICK k \in 0..highest_id :
            tasks' = [i \in DOMAIN tasks |->
                        IF i <= k THEN tasks[i] ELSE [tasks[i] EXCEPT !.waited = @ + 1]]
      BY <2>1 DEF TickHandler
    <3>2. \A i \in DOMAIN tasks : tasks[i] \in DeadlineTasks BY <1>0 DEF TimerInv
    <3>3. \A r \in DeadlineTasks : /\ [r EXCEPT !.waited = @ + 1] \in DeadlineTasks
                                   /\ [r EXCEPT !.waited = @ + 1].conn = r.conn
      BY DEF DeadlineTasks
    <3> QED BY <3>1, <3>2, <3>3
  <2>2. CASE TimerExpires \/ EndTick \/ UNCHANGED vars
    BY <1>0, <2>2 DEF TimerExpires, EndTick, vars, timer, TimerInv
  <2> QED BY <2>1, <2>2
<1>4. highest_id' \in Nat /\ \A i \in DOMAIN tasks : i \in 1..highest_id'
  BY <1>0 DEF TimerInv, TimerExpires, TickHandler, EndTick, vars, timer
<1>5. ConnsInv' BY <1>0, <1>1, <1>2 DEF ConnsInv
<1>6. TimerInv' BY <1>0, <1>1, <1>3, <1>4 DEF TimerInv, TasksCurrent, Live
<1>7. (reused \/ OwnIds)' BY <1>1, <1>3 DEF DeadlinesInv, OwnIds, Live
<1> QED BY <1>5, <1>6, <1>7 DEF DeadlinesInv

\* The handlers of a worker keep deadlines in order, in whatever order they
\* come.
LEMMA DeadlinesInvariant == Spec => []DeadlinesInv
<1>1. Init => DeadlinesInv
  BY DEF Init, DeadlinesInv, ConnsInv, TimerInv, OwnIds, TasksCurrent, QueueOK, Live, States
<1>2. DeadlinesInv /\ [Next]_vars => DeadlinesInv'
  BY Zenon, ReadingStep, EndStep, ArrivalStep, RunTaskStep, TickStep DEF Next, Thread
<1> QED BY <1>1, <1>2, PTL DEF Spec

\* No task of task_timer is left over from an earlier deadline or from a
\* connection that is gone, even when ids are issued again.
THEOREM TasksCurrentCorrect == Spec => []TasksCurrent
<1>1. DeadlinesInv => TasksCurrent BY DEF DeadlinesInv, TimerInv
<1> QED BY <1>1, DeadlinesInvariant, PTL

\* Every open connection that waits for its client has its own deadline, until
\* an id is issued that another connection holds.
THEOREM OwnDeadlineCorrect == Spec => []OwnDeadline
<1>1. DeadlinesInv => OwnDeadline BY DEF DeadlinesInv, OwnIds, OwnDeadline
<1> QED BY <1>1, DeadlinesInvariant, PTL

-----------------------------------------------------------------------------
(* The order in which connections are closed *)

\* Outside process_tasks no tick is being handled.
OrderInv == sweep \in {-1} \cup Nat /\ LongestSilentFirst

\* What the order needs of the ids and the ticks.
LEMMA TaskFacts ==
  ASSUME TimerInv
  PROVE  /\ highest_id \in Nat
         /\ \A i \in DOMAIN tasks : i \in 1..highest_id /\ tasks[i].waited \in Nat
BY DEF TimerInv, DeadlineTasks

\* A deadline that is started goes behind all others,
LEMMA StartKeepsOrder ==
  ASSUME TimerInv, OrderInv, sweep = -1, UNCHANGED sweep, NEW c \in Conns, StartDeadline(c)
  PROVE  OrderInv'
<1> DEFINE id == highest_id + 1
<1>1. /\ highest_id \in Nat
      /\ \A i \in DOMAIN tasks : i \in 1..highest_id /\ tasks[i].waited \in Nat
  BY TaskFacts
<1>2. \A i \in DOMAIN tasks' : \/ i \in DOMAIN tasks /\ tasks'[i] = tasks[i]
                               \/ i = id /\ tasks'[i] = [conn |-> c, waited |-> 0]
  BY DEF StartDeadline, Cancelled
<1>3. \A i \in DOMAIN tasks' : \/ i \in DOMAIN tasks /\ tasks'[i].waited = tasks[i].waited
                               \/ i = id /\ tasks'[i].waited = 0
  BY <1>2
<1>4. \A i, j \in DOMAIN tasks : i < j => tasks[j].waited <= tasks[i].waited
  BY <1>1 DEF OrderInv, LongestSilentFirst, Silence
<1>5. ASSUME NEW i \in DOMAIN tasks', NEW j \in DOMAIN tasks', i < j
      PROVE  Silence(j)' <= Silence(i)'
  <2>1. i \in Nat /\ i >= 1 /\ j \in Nat /\ j >= 1 BY <1>1, <1>3
  <2>2. Silence(i)' = tasks'[i].waited + 0 /\ Silence(j)' = tasks'[j].waited + 0
    BY <2>1 DEF Silence
  <2>3. i \in DOMAIN tasks /\ tasks'[i].waited = tasks[i].waited BY <1>1, <1>3, <1>5
  <2> QED BY <1>1, <1>3, <1>4, <1>5, <2>2, <2>3
<1> QED BY <1>5 DEF OrderInv, LongestSilentFirst

\* ... one that is dropped leaves the others in their order,
LEMMA DropKeepsOrder ==
  ASSUME OrderInv, UNCHANGED sweep,
         \A i \in DOMAIN tasks' : i \in DOMAIN tasks /\ tasks'[i] = tasks[i]
  PROVE  OrderInv'
BY DEF OrderInv, LongestSilentFirst, Silence

\* ... a tick counts for all,
LEMMA TickKeepsOrder ==
  ASSUME TimerInv, OrderInv, TickHandler
  PROVE  OrderInv'
<1>1. /\ highest_id \in Nat
      /\ \A i \in DOMAIN tasks : i \in 1..highest_id /\ tasks[i].waited \in Nat
  BY TaskFacts
<1>2. sweep = -1 BY DEF TickHandler, Runs
<1>3. PICK k \in 0..highest_id :
        /\ sweep' = k
        /\ tasks' = [i \in DOMAIN tasks |->
                       IF i <= k THEN tasks[i] ELSE [tasks[i] EXCEPT !.waited = @ + 1]]
  BY DEF TickHandler
<1>4. \A i \in DOMAIN tasks : tasks[i] \in DeadlineTasks BY DEF TimerInv
<1>5. \A r \in DeadlineTasks : [r EXCEPT !.waited = @ + 1].waited = r.waited + 1
  BY DEF DeadlineTasks
<1>6. DOMAIN tasks' = DOMAIN tasks /\ \A i \in DOMAIN tasks :
        tasks'[i].waited = IF i <= k THEN tasks[i].waited ELSE tasks[i].waited + 1
  BY <1>3, <1>4, <1>5
<1>7. \A i \in DOMAIN tasks : Silence(i)' = tasks[i].waited + 1
  BY <1>1, <1>3, <1>6 DEF Silence
<1>8. \A i \in DOMAIN tasks : Silence(i) = tasks[i].waited
  BY <1>1, <1>2 DEF Silence
<1>9. \A i, j \in DOMAIN tasks : i < j => tasks[j].waited <= tasks[i].waited
  BY <1>8 DEF OrderInv, LongestSilentFirst
<1>10. \A i, j \in DOMAIN tasks : i < j => Silence(j)' <= Silence(i)'
  BY <1>1, <1>7, <1>9
<1> QED BY <1>3, <1>6, <1>10 DEF OrderInv, LongestSilentFirst

\* ... and the ids start again only when no task is left.
LEMMA EndKeepsOrder ==
  ASSUME TimerInv, OrderInv, EndTick
  PROVE  OrderInv'
<1>1. \A i \in DOMAIN tasks : i \in 1..highest_id /\ tasks[i].waited \in Nat
  BY TaskFacts
<1>2. UNCHANGED tasks /\ sweep' = -1 /\ \A i \in DOMAIN tasks : i > sweep /\ sweep \in Int
  BY DEF EndTick, OrderInv
<1>3. \A i \in DOMAIN tasks : Silence(i)' = tasks[i].waited /\ Silence(i) = tasks[i].waited
  BY <1>1, <1>2 DEF Silence
<1> QED BY <1>2, <1>3 DEF OrderInv, LongestSilentFirst

\* The timer closes a connection that has been silent longest first, through
\* any number of restarts of the ids: process_tasks resets highest_id_ only
\* when tasks_ is empty, and a connection that is heard of goes to the end.
THEOREM LongestSilentFirstCorrect == Spec => []LongestSilentFirst
<1>1. Init => OrderInv BY DEF Init, OrderInv, LongestSilentFirst
<1>2. ASSUME TimerInv, OrderInv, [Next]_vars PROVE OrderInv'
  <2>1. ASSUME NEW c \in Conns, RunStart(c) \/ RunRead(c) PROVE OrderInv'
    BY <1>2, <2>1, StartKeepsOrder DEF RunStart, RunRead, Runs
  <2>2. ASSUME NEW c \in Conns, EndConnection(c) PROVE OrderInv'
    <3>1. tasks' = Cancelled(task_id[c]) /\ UNCHANGED sweep BY <2>2 DEF EndConnection
    <3> QED BY <1>2, <3>1, DropKeepsOrder DEF Cancelled
  <2>3. CASE RunTask
    <3>1. PICK i \in DOMAIN tasks : tasks' = Cancelled(i) /\ UNCHANGED sweep
      BY <2>3 DEF RunTask
    <3> QED BY <1>2, <3>1, DropKeepsOrder DEF Cancelled
  <2>4. CASE UNCHANGED <<tasks, sweep>> BY <1>2, <2>4, DropKeepsOrder
  <2>5. ASSUME NEW c \in Conns, PostStart(c) \/ \E what \in Finds : ReadCompletes(c, what)
        PROVE  UNCHANGED <<tasks, sweep>>
    BY <2>5 DEF PostStart, ReadCompletes, timer
  <2>6. TimerExpires \/ UNCHANGED vars => UNCHANGED <<tasks, sweep>>
    BY DEF TimerExpires, vars, timer
  <2> QED BY Zenon, <1>2, <2>1, <2>2, <2>3, <2>4, <2>5, <2>6, TickKeepsOrder, EndKeepsOrder
      DEF Next, Thread
<1>3. DeadlinesInv => TimerInv BY DEF DeadlinesInv
<1>4. OrderInv => LongestSilentFirst BY DEF OrderInv
<1> QED BY <1>1, <1>2, <1>3, <1>4, DeadlinesInvariant, PTL DEF Spec
=============================================================================
