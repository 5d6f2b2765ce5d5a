----------------------- MODULE ServerLifecycle_proofs -----------------------
(* Proofs about ServerLifecycle, for any number of worker threads.         *)
EXTENDS ServerLifecycle, TLAPS

-----------------------------------------------------------------------------
(* The orderly shutdown *)

WorkerLabels ==
  {"none", "init", "run", "order", "status", "redis", "ready", "code", "ended"}

\* What the order of the shutdown rests on: the io_contexts are stopped in
\* drain mode only, a worker ends when its io_context is stopped, and main is
\* past the futures only when all workers have ended.
ShutdownInv ==
  /\ shutting_down \in BOOLEAN /\ worker \in [Threads -> WorkerLabels]
  /\ watcher \in {"drain", "stop"} => shutting_down
  /\ stopped # {} => shutting_down
  /\ \A i \in Threads : worker[i] = "ended" => i \in stopped
  /\ main \in {"join", "close", "exit"} => \A i \in Threads : worker[i] = "ended"
  /\ db \in {"open", "closed"} /\ (db = "closed" => main = "exit")

\* The steps of main keep it,
LEMMA MainKeepsOrder == ShutdownInv /\ Main => ShutdownInv'
<1> SUFFICES ASSUME ShutdownInv, Main PROVE ShutdownInv' OBVIOUS
<1> USE DEF ShutdownInv, MainGoes, At, Ended, flags, crow, WorkerLabels
<1>1. CASE MakeServer BY <1>1 DEF MakeServer
<1>2. CASE BindFails BY <1>2 DEF BindFails
<1>3. CASE AddIoContext BY <1>3 DEF AddIoContext
<1>4. CASE SpawnWorker
  <2> PICK i \in Threads :
        /\ ~Ended /\ main = "spawn" /\ worker' = [worker EXCEPT ![i] = "init"]
        /\ MainGoes(IF i = N THEN "init" ELSE "spawn")
        /\ UNCHANGED <<flags, db, crow>>
    BY Zenon, <1>4 DEF SpawnWorker
  <2> QED OBVIOUS
<1>5. CASE StartAccepting BY <1>5 DEF StartAccepting
<1>6. CASE JoinAcceptor BY <1>6 DEF JoinAcceptor
<1>7. CASE JoinWorkers BY <1>7 DEF JoinWorkers
<1>8. CASE JoinWatcher BY <1>8 DEF JoinWatcher
<1>9. CASE CloseDb BY <1>9 DEF CloseDb
<1> QED BY <1>1, <1>2, <1>3, <1>4, <1>5, <1>6, <1>7, <1>8, <1>9 DEF Main

\* ... those of the watcher, of signals and of the acceptor,
LEMMA WatcherKeepsOrder ==
  ShutdownInv /\ (Watcher \/ Signal \/ Accept \/ AcceptFails \/ AcceptorEnds \/ UNCHANGED vars)
    => ShutdownInv'
<1> USE DEF ShutdownInv, WatcherGoes, At, Ended, flags, crow, threads, WorkerLabels
<1>1. ShutdownInv /\ EnterDrain => ShutdownInv' BY DEF EnterDrain
<1>2. ShutdownInv /\ AppStop => ShutdownInv' BY DEF AppStop
<1>3. ShutdownInv /\ StopIoContext => ShutdownInv' BY DEF StopIoContext
<1>4. ShutdownInv /\ StopAcceptor => ShutdownInv' BY DEF StopAcceptor
<1>5. ShutdownInv /\ Signal => ShutdownInv' BY DEF Signal
<1>6. ShutdownInv /\ Accept => ShutdownInv' BY DEF Accept
<1>7. ShutdownInv /\ AcceptFails => ShutdownInv' BY DEF AcceptFails
<1>8. ShutdownInv /\ AcceptorEnds => ShutdownInv' BY DEF AcceptorEnds
<1>9. ShutdownInv /\ UNCHANGED vars => ShutdownInv' BY DEF vars
<1> QED BY <1>1, <1>2, <1>3, <1>4, <1>5, <1>6, <1>7, <1>8, <1>9 DEF Watcher

\* ... and those of the workers.
LEMMA WorkersKeepOrder ==
  ASSUME NEW i \in Threads, Goes(i) \/ AdmitOrder(i) \/ TakeProbe(i), ShutdownInv
  PROVE  ShutdownInv'
<1> USE DEF ShutdownInv, WorkerGoes, At, Ended, flags, crow, WorkerLabels
<1>1. CASE WorkerReady(i) BY <1>1 DEF WorkerReady
<1>2. CASE FinishOrder(i) BY <1>2 DEF FinishOrder
<1>3. CASE ReadinessStatus(i) BY <1>3 DEF ReadinessStatus, Answer
<1>4. CASE ReadinessRedis(i) BY <1>4 DEF ReadinessRedis, Answer
<1>5. CASE ReadinessReady(i) BY <1>5 DEF ReadinessReady, Answer
<1>6. CASE ReadinessCode(i) BY <1>6 DEF ReadinessCode, Answer
<1>7. CASE WorkerEnds(i) BY <1>7 DEF WorkerEnds
<1>8. CASE AdmitOrder(i) BY <1>8 DEF AdmitOrder, Takes
<1>9. CASE TakeProbe(i) BY <1>9 DEF TakeProbe, Takes
<1> QED BY <1>1, <1>2, <1>3, <1>4, <1>5, <1>6, <1>7, <1>8, <1>9 DEF Goes

\* The shutdown keeps its order.
LEMMA ShutdownInvariant == Spec => []ShutdownInv
<1>1. Init => ShutdownInv BY Zenon DEF Init, ShutdownInv, WorkerLabels
<1>2. ShutdownInv /\ [Next]_vars => ShutdownInv'
  BY Zenon, MainKeepsOrder, WatcherKeepsOrder, WorkersKeepOrder DEF Next
<1> QED BY <1>1, <1>2, PTL DEF Spec

\* The workers inside an order handler.
Busy == {i \in Threads : worker[i] = "order"}

\* A step the abstract specification does not see.
Unseen == UNCHANGED <<shutting_down, stopped, Busy, db>>

\* The steps of main but the last are such steps,
LEMMA MainUnseen == ShutdownInv /\ Main => Unseen \/ CloseDb
<1> SUFFICES ASSUME ShutdownInv, Main, ~CloseDb PROVE Unseen OBVIOUS
<1> USE DEF Unseen, Busy, MainGoes, flags, crow
<1>1. CASE SpawnWorker
  <2>1. \A i \in Threads : i >= i BY LifecycleAssumption DEF Threads
  <2> PICK i \in Threads :
        /\ worker[i] = "none" /\ worker' = [worker EXCEPT ![i] = "init"]
        /\ UNCHANGED <<flags, db, crow>>
    BY Zenon, <1>1, <2>1 DEF SpawnWorker
  <2> QED BY DEF ShutdownInv
<1>2. CASE MakeServer \/ BindFails \/ AddIoContext
  BY <1>2 DEF MakeServer, BindFails, AddIoContext
<1>3. CASE StartAccepting \/ JoinAcceptor \/ JoinWorkers \/ JoinWatcher
  BY <1>3 DEF StartAccepting, JoinAcceptor, JoinWorkers, JoinWatcher
<1> QED BY <1>1, <1>2, <1>3 DEF Main

\* ... and those of the workers but the first and the last of an order request.
LEMMA WorkersUnseen ==
  ASSUME NEW i \in Threads, Goes(i) \/ TakeProbe(i), ~FinishOrder(i), ShutdownInv
  PROVE  Unseen
<1> USE DEF ShutdownInv, Unseen, Busy, WorkerGoes, At, flags, crow
<1>1. CASE WorkerReady(i) BY <1>1 DEF WorkerReady
<1>3. CASE ReadinessStatus(i) BY <1>3 DEF ReadinessStatus, Answer
<1>4. CASE ReadinessRedis(i) BY <1>4 DEF ReadinessRedis, Answer
<1>5. CASE ReadinessReady(i) BY <1>5 DEF ReadinessReady, Answer
<1>6. CASE ReadinessCode(i) BY <1>6 DEF ReadinessCode, Answer
<1>7. CASE WorkerEnds(i) BY <1>7 DEF WorkerEnds
<1>9. CASE TakeProbe(i) BY <1>9 DEF TakeProbe, Takes
<1> QED BY <1>1, <1>3, <1>4, <1>5, <1>6, <1>7, <1>9 DEF Goes

\* The process implements the orderly shutdown, wherever the signal comes and
\* however long handlers take: no order request is admitted in drain mode, no
\* io_context is stopped before, and the database is closed with no handler
\* running.
THEOREM OrderlyCorrect == Spec => OrderlySpec
<1>1. Init => Orderly!Init
  BY DEF Init, Orderly!Init
<1>2. ShutdownInv /\ [Next]_vars => [Orderly!Next]_(Orderly!vars)
  <2> SUFFICES ASSUME ShutdownInv, [Next]_vars PROVE [Orderly!Next]_(Orderly!vars) OBVIOUS
  <2>0. Unseen => UNCHANGED Orderly!vars BY DEF Unseen, Busy, Orderly!vars
  <2>1. CASE CloseDb
    <3>1. \A i \in Threads : worker[i] = "ended" /\ i \in stopped
      BY <2>1 DEF CloseDb, At, ShutdownInv
    <3>2. 1 \in Threads BY LifecycleAssumption DEF Threads
    <3>3. stopped # {} /\ Busy = {} BY <3>1, <3>2 DEF Busy
    <3> QED BY <2>1, <3>3
            DEF CloseDb, MainGoes, flags, crow, Busy, Orderly!Next, Orderly!Close
  <2>2. CASE Main BY <2>0, <2>1, <2>2, MainUnseen
  <2>3. CASE EnterDrain
    BY <2>3 DEF EnterDrain, WatcherGoes, crow, Orderly!Next, Orderly!Drain
  <2>4. CASE AppStop
    BY <2>0, <2>4 DEF AppStop, WatcherGoes, flags, Unseen, Busy
  <2>5. CASE StopIoContext
    <3>1. CASE stopped' = stopped \cup {cursor}
      BY <2>5, <3>1 DEF StopIoContext, At, WatcherGoes, flags, ShutdownInv,
                        Orderly!Next, Orderly!Stop
    <3>2. CASE UNCHANGED stopped
      BY <2>0, <2>5, <3>2 DEF StopIoContext, WatcherGoes, flags, Unseen, Busy
    <3> QED BY <2>5, <3>1, <3>2 DEF StopIoContext
  <2>6. CASE StopAcceptor
    BY <2>6 DEF StopAcceptor, At, WatcherGoes, flags, ShutdownInv, Orderly!Next, Orderly!Stop
  <2>7. CASE Signal \/ AcceptorEnds \/ UNCHANGED vars
    BY <2>0, <2>7 DEF Signal, AcceptorEnds, vars, threads, flags, crow, Unseen, Busy
  <2>8. CASE Accept \/ AcceptFails
    BY <2>0, <2>8 DEF Accept, AcceptFails, threads, flags, crow, Unseen, Busy
  <2>9. ASSUME NEW i \in Threads, AdmitOrder(i) PROVE Orderly!Next
    <3>1. Busy' = Busy \cup {i}
      BY <2>9 DEF AdmitOrder, WorkerGoes, Busy, ShutdownInv
    <3> QED BY <2>9, <3>1 DEF AdmitOrder, Takes, WorkerGoes, flags, crow, Busy,
                              Orderly!Next, Orderly!Admit
  <2>10. ASSUME NEW i \in Threads, FinishOrder(i) PROVE Orderly!Next
    <3>1. Busy' = Busy \ {i}
      BY <2>10 DEF FinishOrder, WorkerGoes, Busy, ShutdownInv
    <3>2. db # "closed" BY <2>10 DEF FinishOrder, At, Ended, ShutdownInv
    <3> QED BY <2>10, <3>1, <3>2 DEF FinishOrder, WorkerGoes, crow, Busy,
                                     Orderly!Next, Orderly!Finish
  <2>11. ASSUME NEW i \in Threads, Goes(i) \/ TakeProbe(i), ~FinishOrder(i) PROVE Unseen
    BY Zenon, <2>11, WorkersUnseen
  <2> QED BY Zenon, <2>0, <2>2, <2>3, <2>4, <2>5, <2>6, <2>7, <2>8, <2>9, <2>10, <2>11
          DEF Next, Watcher
<1> QED BY <1>1, <1>2, ShutdownInvariant, PTL DEF Spec, OrderlySpec, Orderly!Spec

-----------------------------------------------------------------------------
(* The readiness probe *)

Probes == [status : {"none", "ready", "degraded", "shutting_down"}, ready : BOOLEAN,
           code : {0, 200, 503}, late : BOOLEAN]

\* What holds of the probe p of a worker at label l: whatever it says of a
\* shutdown has happened, and the code comes last.
ProbeShape(p, l, down) ==
  /\ p.late \/ p.status = "shutting_down" \/ p.code = 503 => down
  /\ l \in {"status", "redis", "ready", "code"} => p.code = 0
  /\ l = "code" /\ ~p.ready => down
  /\ p.code = 200 => p.ready /\ p.status # "shutting_down" /\ ~p.late

ProbeInv ==
  /\ probe \in [Threads -> Probes]
  /\ \A i \in Threads : ProbeShape(probe[i], worker[i], shutting_down)

\* Steps that load none of the flags for a probe keep it,
LEMMA OthersKeepProbes ==
  ASSUME ShutdownInv, ProbeInv, UNCHANGED probe, shutting_down => shutting_down',
         \A i \in Threads : worker'[i] = worker[i]
                            \/ worker'[i] \notin {"status", "redis", "ready", "code"}
  PROVE  ProbeInv'
BY DEF ProbeInv, ProbeShape

\* The fields of a probe that has just begun,
LEMMA NewProbe ==
  ASSUME NEW b \in BOOLEAN
  PROVE  LET p == [NoProbe EXCEPT !.late = b]
         IN  p \in Probes /\ p.late = b /\ p.code = 0 /\ p.status = "none"
BY ZenonT(30) DEF NoProbe, Probes

\* ... and of one that has called is_ready().
LEMMA ReadyProbe ==
  ASSUME NEW b \in BOOLEAN, NEW q \in Probes
  PROVE  LET p == [q EXCEPT !.ready = b]
         IN  /\ p \in Probes /\ p.ready = b
             /\ p.late = q.late /\ p.code = q.code /\ p.status = q.status
BY DEF Probes

\* The steps that do load them keep the shape.
LEMMA ProbesKeepShape ==
  ASSUME NEW i \in Threads, ShutdownInv, ProbeInv,
         \/ TakeProbe(i) \/ ReadinessStatus(i) \/ ReadinessRedis(i)
         \/ ReadinessReady(i) \/ ReadinessCode(i)
  PROVE  ProbeInv'
<1> DEFINE p == probe'[i]
           l == worker'[i]
<1>0. probe[i] \in Probes /\ ProbeShape(probe[i], worker[i], shutting_down)
  BY DEF ProbeInv
<1>1. /\ \A j \in Threads \ {i} : probe'[j] = probe[j] /\ worker'[j] = worker[j]
      /\ shutting_down' = shutting_down
      /\ DOMAIN probe' = Threads /\ probe' = [j \in Threads |-> probe'[j]]
  BY DEF TakeProbe, Takes, ReadinessStatus, ReadinessRedis, ReadinessReady, ReadinessCode,
         Answer, WorkerGoes, flags, ProbeInv, ShutdownInv
<1>2. p \in Probes /\ ProbeShape(p, l, shutting_down)
  <2> USE DEF WorkerGoes, At, ProbeInv, ShutdownInv, Probes, ProbeShape
  <2>1. CASE TakeProbe(i)
    <3>1. p = [NoProbe EXCEPT !.late = shutting_down] /\ l = "status"
      BY <2>1 DEF TakeProbe
    <3>2. shutting_down \in BOOLEAN OBVIOUS
    <3> HIDE DEF WorkerGoes, At, ProbeInv, ShutdownInv, Probes, ProbeShape, p, l
    <3>3. p \in Probes /\ p.late = shutting_down /\ p.code = 0 /\ p.status = "none"
      BY <3>1, <3>2, NewProbe
    <3> QED BY <3>1, <3>3 DEF ProbeShape
  <2>2. CASE ReadinessStatus(i) BY <2>2, <1>0 DEF ReadinessStatus, Answer
  <2>3. CASE ReadinessRedis(i) BY <2>3, <1>0 DEF ReadinessRedis, Answer
  <2>4. CASE ReadinessReady(i)
    <3>1. p = [probe[i] EXCEPT !.ready = ~shutting_down] /\ worker[i] = "ready" /\ l = "code"
      BY <2>4 DEF ReadinessReady, Answer
    <3>2. (~shutting_down) \in BOOLEAN OBVIOUS
    <3> HIDE DEF WorkerGoes, At, ProbeInv, ShutdownInv, Probes, ProbeShape, p, l
    <3>3. /\ p \in Probes /\ p.ready = (~shutting_down)
          /\ p.late = probe[i].late /\ p.code = probe[i].code /\ p.status = probe[i].status
      BY Zenon, <1>0, <3>1, <3>2, ReadyProbe
    <3>4. p.code = 0 BY <1>0, <3>1, <3>3 DEF ProbeShape
    <3>5. p.late \/ p.status = "shutting_down" => shutting_down
      BY ZenonT(30), <1>0, <3>3 DEF ProbeShape
    <3>6. ~p.ready => shutting_down BY Zenon, <3>2, <3>3
    <3> QED BY <3>3, <3>4, <3>5, <3>6 DEF ProbeShape
  <2>5. CASE ReadinessCode(i) BY <2>5, <1>0 DEF ReadinessCode, Answer
  <2> QED BY <2>1, <2>2, <2>3, <2>4, <2>5
<1> QED BY <1>1, <1>2 DEF ProbeInv

\* /readiness never contradicts itself and never reports ready to a probe that
\* arrives in drain mode.
THEOREM ReadinessTruthfulCorrect == Spec => []ReadinessTruthful
<1>1. Init => ProbeInv
  BY DEF Init, ProbeInv, Probes, ProbeShape, NoProbe
<1>2. ShutdownInv /\ ProbeInv /\ [Next]_vars => ProbeInv'
  <2> SUFFICES ASSUME ShutdownInv, ProbeInv, [Next]_vars PROVE ProbeInv' OBVIOUS
  <2> DEFINE Keeps == /\ UNCHANGED probe /\ (shutting_down => shutting_down')
                      /\ \A i \in Threads : worker'[i] = worker[i]
                           \/ worker'[i] \notin {"status", "redis", "ready", "code"}
  <2> USE DEF MainGoes, WatcherGoes, WorkerGoes, flags, threads
  <2>1. CASE Main
    <3> SUFFICES Keeps BY OthersKeepProbes
    <3>1. CASE SpawnWorker BY <3>1 DEF SpawnWorker, ShutdownInv
    <3>2. CASE MakeServer \/ BindFails \/ AddIoContext \/ StartAccepting
      BY <3>2 DEF MakeServer, BindFails, AddIoContext, StartAccepting
    <3>3. CASE JoinAcceptor \/ JoinWorkers \/ JoinWatcher \/ CloseDb
      BY <3>3 DEF JoinAcceptor, JoinWorkers, JoinWatcher, CloseDb
    <3> QED BY <2>1, <3>1, <3>2, <3>3 DEF Main
  <2>2. CASE Watcher
    <3>1. Keeps BY <2>2 DEF Watcher, EnterDrain, AppStop, StopIoContext, StopAcceptor
    <3> QED BY <3>1, OthersKeepProbes
  <2>3. CASE Signal \/ Accept \/ AcceptFails \/ AcceptorEnds \/ UNCHANGED vars
    <3>1. Keeps BY <2>3 DEF Signal, Accept, AcceptFails, AcceptorEnds, vars
    <3> QED BY <3>1, OthersKeepProbes
  <2>4. ASSUME NEW i \in Threads,
               WorkerReady(i) \/ FinishOrder(i) \/ WorkerEnds(i) \/ AdmitOrder(i)
        PROVE  ProbeInv'
    <3>1. Keeps
      BY <2>4 DEF WorkerReady, FinishOrder, WorkerEnds, AdmitOrder, Takes, ShutdownInv
    <3> QED BY <3>1, OthersKeepProbes
  <2> HIDE DEF MainGoes, WatcherGoes, WorkerGoes, flags, threads
  <2> QED BY Zenon, <2>1, <2>2, <2>3, <2>4, ProbesKeepShape DEF Next, Goes
<1>3. ProbeInv => ReadinessTruthful
  BY DEF ProbeInv, ProbeShape, ReadinessTruthful
<1> QED BY <1>1, <1>2, <1>3, ShutdownInvariant, PTL DEF Spec

-----------------------------------------------------------------------------
(* How connections are spread *)

\* With AcceptInv: nothing is accepted before the workers are ready, so that
\* none resets a queue length that counts.
AcceptIInv ==
  /\ AcceptInv
  /\ accepted \in [Threads -> Nat] /\ queue_length \in [Threads -> Int]
  /\ accepting \in {0} \cup Threads
  /\ main \in {"register", "pool", "spawn", "init"} =>
       accepting = 0 /\ \A i \in Threads : accepted[i] = 0
  /\ \A i \in Threads : worker[i] = "init" => main \in {"spawn", "init"}

\* do_accept, called with queue lengths that are the connections so far, which
\* are balanced, waits for one for a worker with the fewest.
LEMMA DoAcceptBalanced ==
  ASSUME NEW lengths \in [Threads -> Int], DoAccept(lengths),
         accepted' \in [Threads -> Nat], AcceptBalanced',
         \A i \in Threads : lengths[i] = accepted'[i]
  PROVE  /\ AcceptInv'
         /\ queue_length' \in [Threads -> Int] /\ accepting' \in {0} \cup Threads
<1>0. \A i \in Threads : i # 0 BY LifecycleAssumption DEF Threads
<1>1. CASE stopping
  BY <1>0, <1>1 DEF DoAccept, AcceptInv
<1>2. CASE ~stopping
  <2> PICK i \in Threads : /\ PickIoContext(lengths, i) /\ accepting' = i
                           /\ queue_length' = [lengths EXCEPT ![i] = @ + 1]
    BY <1>2 DEF DoAccept
  <2>1. \A j \in Threads : accepted'[i] <= accepted'[j]
    BY DEF PickIoContext
  <2>2. \A j \in Threads : queue_length'[j] = accepted'[j] + (IF accepting' = j THEN 1 ELSE 0)
    OBVIOUS
  <2> QED BY <1>0, <2>1, <2>2 DEF AcceptInv
<1> QED BY <1>1, <1>2

\* Every step keeps connections balanced.
LEMMA AcceptStep == ShutdownInv /\ AcceptIInv /\ [Next]_vars => AcceptIInv'
<1> SUFFICES ASSUME ShutdownInv, AcceptIInv, [Next]_vars PROVE AcceptIInv' OBVIOUS
<1>0. \A i \in Threads : i # 0 BY LifecycleAssumption DEF Threads
<1> DEFINE Kept == /\ UNCHANGED accepts
                   /\ main' \in {"register", "pool", "spawn", "init"} =>
                        main \in {"register", "pool", "spawn", "init"}
                   /\ \A i \in Threads : worker'[i] = "init" => main' \in {"spawn", "init"}
<1>k. Kept => AcceptIInv'
  BY DEF accepts, AcceptIInv, AcceptInv, AcceptBalanced
<1>1. CASE Accept
  <2>1. /\ accepting \in Threads /\ accepting # 0
        /\ accepted' = [accepted EXCEPT ![accepting] = @ + 1]
        /\ DoAccept(queue_length) /\ main' = main /\ worker' = worker
        /\ main \notin {"register", "pool", "spawn", "init"}
    BY <1>1 DEF Accept, AcceptIInv, threads
  <2>2. accepted' \in [Threads -> Nat] /\ queue_length \in [Threads -> Int]
    BY <2>1 DEF AcceptIInv
  <2>3. AcceptBalanced'
    <3> SUFFICES ASSUME NEW i \in Threads, NEW j \in Threads
                 PROVE  accepted'[i] <= accepted'[j] + 1
      BY DEF AcceptBalanced
    <3>1. /\ accepted[i] <= accepted[j] + 1 /\ accepted[accepting] <= accepted[j]
          /\ accepted[i] \in Nat /\ accepted[j] \in Nat /\ accepted[accepting] \in Nat
      BY <2>1 DEF AcceptIInv, AcceptInv, AcceptBalanced
    <3> QED BY <2>1, <3>1 DEF AcceptIInv
  <2>4. \A i \in Threads : queue_length[i] = accepted'[i]
    BY <2>1 DEF AcceptIInv, AcceptInv
  <2>5. AcceptInv' /\ queue_length' \in [Threads -> Int] /\ accepting' \in {0} \cup Threads
    BY <2>1, <2>2, <2>3, <2>4, DoAcceptBalanced
  <2> QED BY <2>1, <2>2, <2>5 DEF AcceptIInv
<1>2. CASE AcceptFails \/ StartAccepting
  <2> DEFINE lengths == IF accepting = 0 THEN queue_length
                        ELSE [queue_length EXCEPT ![accepting] = @ - 1]
  <2>1. /\ accepted' = accepted /\ DoAccept(lengths) /\ worker' = worker
        /\ main' \notin {"register", "pool", "spawn", "init"}
        /\ \A i \in Threads : worker[i] # "init"
    <3>1. CASE AcceptFails
      BY <3>1 DEF AcceptFails, AcceptIInv, threads
    <3>2. CASE StartAccepting
      BY <3>2 DEF StartAccepting, At, AcceptIInv
    <3> QED BY <1>2, <3>1, <3>2
  <2>2. lengths \in [Threads -> Int] /\ accepted' \in [Threads -> Nat]
    BY <2>1 DEF AcceptIInv
  <2>3. AcceptBalanced' BY <2>1 DEF AcceptIInv, AcceptInv, AcceptBalanced
  <2>4. \A i \in Threads : lengths[i] = accepted'[i]
    BY <1>0, <2>1 DEF AcceptIInv, AcceptInv
  <2> HIDE DEF lengths
  <2>5. AcceptInv' /\ queue_length' \in [Threads -> Int] /\ accepting' \in {0} \cup Threads
    BY <2>1, <2>2, <2>3, <2>4, DoAcceptBalanced
  <2> QED BY <2>1, <2>2, <2>5 DEF AcceptIInv
<1>3. ASSUME NEW i \in Threads, WorkerReady(i) PROVE AcceptIInv'
  <2>1. /\ accepting = 0 /\ accepted[i] = 0 /\ main' = main
        /\ queue_length' = [queue_length EXCEPT ![i] = 0]
        /\ accepted' = accepted /\ accepting' = accepting
        /\ worker' = [worker EXCEPT ![i] = "run"]
    BY <1>3 DEF WorkerReady, WorkerGoes, At, AcceptIInv
  <2>2. queue_length' = queue_length
    BY <1>0, <2>1 DEF AcceptIInv, AcceptInv
  <2> QED BY <1>k, <2>1, <2>2 DEF accepts, AcceptIInv, ShutdownInv
<1>4. CASE Main /\ ~StartAccepting
  <2> SUFFICES Kept BY <1>k
  <2> USE DEF MainGoes, At, AcceptIInv
  <2>1. CASE SpawnWorker BY <2>1 DEF SpawnWorker, ShutdownInv
  <2>2. CASE MakeServer \/ BindFails \/ AddIoContext
    BY <2>2 DEF MakeServer, BindFails, AddIoContext
  <2>3. CASE JoinAcceptor \/ JoinWorkers \/ JoinWatcher \/ CloseDb
    BY <2>3 DEF JoinAcceptor, JoinWorkers, JoinWatcher, CloseDb
  <2> QED BY <1>4, <2>1, <2>2, <2>3 DEF Main
<1>5. CASE Watcher \/ Signal \/ AcceptorEnds \/ UNCHANGED vars
  <2>1. Kept
    BY <1>5 DEF Watcher, EnterDrain, AppStop, StopIoContext, StopAcceptor, WatcherGoes,
                Signal, AcceptorEnds, vars, threads, AcceptIInv
  <2> QED BY <1>k, <2>1
<1>6. ASSUME NEW i \in Threads, Goes(i) \/ AdmitOrder(i) \/ TakeProbe(i), ~WorkerReady(i)
      PROVE  AcceptIInv'
  <2> SUFFICES Kept BY <1>k
  <2> USE DEF WorkerGoes, AcceptIInv, ShutdownInv
  <2>1. CASE FinishOrder(i) \/ WorkerEnds(i) BY <2>1 DEF FinishOrder, WorkerEnds
  <2>2. CASE AdmitOrder(i) \/ TakeProbe(i) BY <2>2 DEF AdmitOrder, TakeProbe, Takes
  <2>3. CASE ReadinessStatus(i) \/ ReadinessRedis(i)
    BY <2>3 DEF ReadinessStatus, ReadinessRedis, Answer
  <2>4. CASE ReadinessReady(i) \/ ReadinessCode(i)
    BY <2>4 DEF ReadinessReady, ReadinessCode, Answer
  <2> QED BY <1>6, <2>1, <2>2, <2>3, <2>4 DEF Goes
<1> QED BY Zenon, <1>1, <1>2, <1>3, <1>4, <1>5, <1>6 DEF Next

\* The queue lengths count connections right, and the next one goes to a
\* worker with the fewest.
THEOREM AcceptInvariant == Spec => []AcceptInv
<1>1. Init => AcceptIInv
  <2>1. \A i \in Threads : i # 0 BY LifecycleAssumption DEF Threads
  <2> QED BY <2>1 DEF Init, AcceptIInv, AcceptInv, AcceptBalanced
<1>2. AcceptIInv => AcceptInv BY DEF AcceptIInv
<1> QED BY <1>1, <1>2, AcceptStep, ShutdownInvariant, PTL DEF Spec

\* No worker gets two connections more than another.
THEOREM AcceptBalancedCorrect == Spec => []AcceptBalanced
<1>1. AcceptInv => AcceptBalanced BY ZenonT(30) DEF AcceptInv
<1> QED BY <1>1, AcceptInvariant, PTL

-----------------------------------------------------------------------------
(* Server::stop reaches every thread *)

\* Where main is once the pool of io_contexts is complete.
Built == {"spawn", "init", "serve", "futures", "join", "close", "exit"}

\* The inductive invariant: the pool grows until main is done with it; a stop
\* that is not early finds it complete and has stopped the io_contexts before
\* its cursor; the acceptor's comes last, and only its stop lets main go on.
StopInv ==
  /\ pool \in 0..N /\ early \in BOOLEAN
  /\ watcher \in {"poll", "drain", "stop", "ended"}
  /\ main \in {"register", "pool"} => pool < N
  /\ main \in Built => pool = N
  /\ ~server => main \in {"register", "aborted"}
  /\ watcher \in {"poll", "drain"} => stopped = {} /\ ~early
  /\ watcher = "stop" =>
       /\ upto \in 0..N /\ cursor \in 1..(upto + 1)
       /\ early <=> upto < N
       /\ 0 \notin stopped
       /\ ~early => pool = N /\ stopped = 1..(cursor - 1)
  /\ watcher = "ended" /\ ~early => stopped = {0} \cup Threads
  /\ acceptor = "ended" => 0 \in stopped
  /\ main \in {"futures", "join", "close", "exit"} => acceptor = "ended"

\* The steps of main keep it,
LEMMA MainKeepsStop ==
  ASSUME StopInv, Main
  PROVE  StopInv'
<1> USE LifecycleAssumption DEF StopInv, Built, MainGoes, At, Ended, crow
<1>1. CASE MakeServer BY <1>1 DEF MakeServer
<1>2. CASE BindFails BY <1>2 DEF BindFails
<1>3. CASE AddIoContext BY <1>3 DEF AddIoContext
<1>4. CASE SpawnWorker
  <2>1. /\ main = "spawn" /\ main' \in {"init", "spawn"}
        /\ UNCHANGED <<watcher, acceptor, crow, early>>
    BY <1>4 DEF SpawnWorker
  <2> QED BY <2>1
<1>5. CASE StartAccepting
  <2>1. main = "init" /\ main' = "serve" /\ acceptor' = "run" /\ UNCHANGED <<watcher, crow, early>>
    BY <1>5 DEF StartAccepting
  <2> QED BY <2>1
<1>6. CASE JoinAcceptor BY <1>6 DEF JoinAcceptor
<1>7. CASE JoinWorkers BY <1>7 DEF JoinWorkers
<1>8. CASE JoinWatcher BY <1>8 DEF JoinWatcher
<1>9. CASE CloseDb BY <1>9 DEF CloseDb
<1> QED BY <1>1, <1>2, <1>3, <1>4, <1>5, <1>6, <1>7, <1>8, <1>9 DEF Main

\* ... those of the watcher,
LEMMA WatcherKeepsStop ==
  ASSUME StopInv, Watcher
  PROVE  StopInv'
<1> USE LifecycleAssumption DEF StopInv, Built, WatcherGoes, At, Ended, crow
<1>1. CASE EnterDrain BY <1>1 DEF EnterDrain
<1>2. CASE AppStop
  <2>1. CASE server
    <3>1. /\ upto' = pool /\ cursor' = 1 /\ early' = (pool < N) /\ watcher' = "stop"
          /\ stopped = {} /\ UNCHANGED <<main, acceptor, server, pool, stopped>>
      BY <1>2, <2>1 DEF AppStop
    <3>2. {} = 1..(1 - 1)
      OBVIOUS
    <3>3. early' \in BOOLEAN /\ (early' <=> pool < N)
      <4> HIDE DEF StopInv, Built, WatcherGoes, At, Ended, crow
      <4>1. early' = (pool < N) BY Zenon, <1>2 DEF AppStop
      <4>2. (pool < N) \in BOOLEAN OBVIOUS
      <4>3. early' <=> pool < N BY Zenon, <4>1
      <4> QED BY <4>1, <4>2, <4>3
    <3>4. pool \in 0..N /\ N \in Nat /\ 1 \in 1..(pool + 1) /\ (~early' => pool = N)
      BY <3>3
    <3> QED BY Zenon, <3>1, <3>2, <3>3, <3>4
  <2>2. CASE ~server
    BY Zenon, <1>2, <2>2 DEF AppStop
  <2> QED BY <2>1, <2>2
<1>3. CASE StopIoContext
  <2>1. CASE early
    BY <1>3, <2>1 DEF StopIoContext
  <2>2. CASE ~early
    <3>1. /\ upto = N /\ pool = N /\ cursor \in 1..N /\ stopped = 1..(cursor - 1)
          /\ stopped' = stopped \cup {cursor} /\ cursor' = cursor + 1
          /\ UNCHANGED <<main, watcher, acceptor, server, pool, upto, early>>
      BY <1>3, <2>2 DEF StopIoContext
    <3>2. stopped' = 1..(cursor' - 1)
      BY <3>1
    <3> QED BY <1>3, <2>2, <3>1, <3>2 DEF StopIoContext
  <2> QED BY <2>1, <2>2
<1>4. CASE StopAcceptor
  BY <1>4 DEF StopAcceptor, Threads
<1> QED BY <1>1, <1>2, <1>3, <1>4 DEF Watcher

\* ... and those of everyone else.
LEMMA OthersKeepStop ==
  ASSUME StopInv,
         \/ Signal \/ Accept \/ AcceptFails \/ AcceptorEnds \/ UNCHANGED vars
         \/ \E i \in Threads : Goes(i) \/ AdmitOrder(i) \/ TakeProbe(i)
  PROVE  StopInv'
<1>1. CASE AcceptorEnds
  BY <1>1 DEF AcceptorEnds, StopInv, crow
<1>2. CASE Signal \/ Accept \/ AcceptFails \/ UNCHANGED vars
  <2>1. UNCHANGED <<main, watcher, acceptor, crow, early>>
    BY Zenon, <1>2 DEF Signal, Accept, AcceptFails, vars, threads
  <2> QED BY Zenon, <2>1 DEF StopInv, crow
<1>3. ASSUME NEW i \in Threads, Goes(i) \/ AdmitOrder(i) \/ TakeProbe(i) PROVE StopInv'
  <2>1. UNCHANGED <<main, watcher, acceptor, crow, early>>
    BY Zenon, <1>3
       DEF Goes, WorkerReady, FinishOrder, ReadinessStatus, ReadinessRedis, ReadinessReady,
           ReadinessCode, WorkerEnds, AdmitOrder, TakeProbe, Takes, Answer, WorkerGoes
  <2> QED BY Zenon, <2>1 DEF StopInv, crow
<1> QED BY Zenon, <1>1, <1>2, <1>3

\* A stop that is not early reaches the acceptor and every worker, and main is
\* past the acceptor thread only when the watcher has ended: the safety part of
\* SignalEnds, for any number of workers.
THEOREM StopCompleteCorrect == Spec => []StopComplete
<1>1. Init => StopInv
  <2> SUFFICES ASSUME Init PROVE StopInv OBVIOUS
  <2>1. pool \in 0..N /\ pool < N
    BY LifecycleAssumption DEF Init
  <2>2. /\ early \in BOOLEAN /\ ~early /\ watcher = "poll" /\ main = "register"
        /\ stopped = {} /\ acceptor = "none"
    BY Zenon DEF Init
  <2> QED BY Zenon, <2>1, <2>2 DEF StopInv, Built
<1>2. StopInv /\ [Next]_vars => StopInv'
  BY Zenon, MainKeepsStop, WatcherKeepsStop, OthersKeepStop DEF Next
<1>3. StopInv => StopComplete
  <2> SUFFICES ASSUME StopInv PROVE StopComplete OBVIOUS
  <2>1. 0 \in stopped => watcher = "ended"
    BY DEF StopInv
  <2> QED BY Zenon, <2>1 DEF StopInv, StopComplete
<1> QED BY <1>1, <1>2, <1>3, PTL DEF Spec
=============================================================================
