----------------------------- MODULE Deadlines ------------------------------
(***************************************************************************)
(* The deadlines of Crow's connections on one worker thread: a task_timer  *)
(* closes the socket of a connection that has been silent for the timeout. *)
(* The thread runs the handlers of its io_context one after another, first *)
(* come first served: the start of an accepted connection, the completion  *)
(* of a read, the tick of the timer.  Acceptor and clients add to the      *)
(* queue at any time.                                                      *)
(***************************************************************************)
EXTENDS Integers, FiniteSets, Sequences

CONSTANTS
  Conns,    \* connections accepted for this worker, in the course of time
  Timeout,  \* timeout_, in ticks
  MaxReads  \* bound: reads that find data

ASSUME DeadlinesAssumption ==
  /\ IsFiniteSet(Conns) /\ Timeout \in Nat /\ MaxReads \in Nat

VARIABLES
  queue,       \* handlers that are ready to run
  state, open, \* of each connection, and is its socket open
  task_id,     \* task_id_ of each connection
  tasks,       \* tasks_: id -> connection to close, and ticks it has waited
  highest_id,  \* highest_id_
  sweep,       \* process_tasks runs the tasks up to this id; -1 outside
  reads,       \* bounded by MaxReads
  reused       \* history: was an id issued that another connection holds

timer == <<tasks, highest_id, sweep>>
conns == <<state, open, task_id>>
vars == <<queue, conns, timer, reads, reused>>

\* posted: start() is in the queue; reading: a read is outstanding; ready: its
\* completion is in the queue; gone: nothing refers to the connection.
States == {"unborn", "posted", "reading", "ready", "gone"}
Live(c) == state[c] \in {"reading", "ready"}

\* What a read finds: a part of a request or a request after which the
\* connection is kept; a request that is the last; an error or bad bytes.
Finds == {"more", "last", "error"}

Tick == [what |-> "tick", conn |-> "none"]
Handler(what, c) == [what |-> what, conn |-> c]

Init ==
  /\ queue = <<>>
  /\ state = [c \in Conns |-> "unborn"] /\ open = [c \in Conns |-> FALSE]
  /\ task_id = [c \in Conns |-> 0]
  /\ tasks = <<>> /\ highest_id = 0 /\ sweep = -1
  /\ reads = 0 /\ reused = FALSE

\* io_context::run takes the next handler; process_tasks is not left half-way.
Runs(h) == queue # <<>> /\ Head(queue) = h /\ sweep = -1

SetState(c, s) == state' = [state EXCEPT ![c] = s]

-----------------------------------------------------------------------------
\* The connection and its deadline

\* Mutant: the map keeps the task of the previous deadline.
CancelledNothing(id) == tasks

\* task_timer::cancel
Cancelled(id) == [i \in DOMAIN tasks \ {id} |-> tasks[i]]

\* start_deadline: cancel_deadline_timer, then task_timer::schedule
StartDeadline(c) ==
  LET id   == highest_id + 1
      rest == Cancelled(task_id[c])
  IN  /\ highest_id' = id
      /\ tasks' = [i \in DOMAIN rest \cup {id} |->
                     IF i \in DOMAIN rest THEN rest[i] ELSE [conn |-> c, waited |-> 0]]
      /\ task_id' = [task_id EXCEPT ![c] = id]
      /\ reused' = (reused \/ \E d \in Conns \ {c} : Live(d) /\ task_id[d] = id)

\* do_accept: the acceptor thread posts start() to the io_context.
PostStart(c) ==
  /\ state[c] = "unborn"
  /\ SetState(c, "posted")
  /\ open' = [open EXCEPT ![c] = TRUE]
  /\ queue' = Append(queue, Handler("start", c))
  /\ UNCHANGED <<task_id, timer, reads, reused>>

RunStart(c) ==
  /\ Runs(Handler("start", c))
  /\ queue' = Tail(queue)
  /\ StartDeadline(c)
  /\ SetState(c, "reading")
  /\ UNCHANGED <<open, sweep, reads>>

\* The outstanding read completes, because the client has sent or closed.
ReadCompletes(c, what) ==
  /\ state[c] = "reading" /\ open[c]
  /\ what # "error" => reads < MaxReads
  /\ reads' = IF what = "error" THEN reads ELSE reads + 1
  /\ SetState(c, "ready")
  /\ queue' = Append(queue, Handler(what, c))
  /\ UNCHANGED <<open, task_id, timer, reused>>

\* Mutant: the deadline, cancelled for the request, is not started again.
RunReadForgets(c) ==
  /\ Runs(Handler("more", c))
  /\ open[c]
  /\ queue' = Tail(queue)
  /\ tasks' = Cancelled(task_id[c])
  /\ SetState(c, "reading")
  /\ UNCHANGED <<open, task_id, highest_id, sweep, reads, reused>>

\* The handler of do_read goes on reading, with a new deadline.
RunRead(c) ==
  /\ Runs(Handler("more", c))
  /\ open[c]
  /\ queue' = Tail(queue)
  /\ StartDeadline(c)
  /\ SetState(c, "reading")
  /\ UNCHANGED <<open, sweep, reads>>

\* ... or cancels the deadline and gives the connection up: after an error,
\* after the last request, or because the timer has closed the socket.
EndConnection(c) == \E what \in Finds :
  /\ Runs(Handler(what, c))
  /\ what = "more" => ~open[c]
  /\ queue' = Tail(queue)
  /\ tasks' = Cancelled(task_id[c])
  /\ SetState(c, "gone")
  /\ open' = [open EXCEPT ![c] = FALSE]
  /\ UNCHANGED <<task_id, highest_id, sweep, reads, reused>>

-----------------------------------------------------------------------------
\* task_timer's tick

\* A tick length after the last tick, the timer has expired.
TimerExpires ==
  /\ sweep = -1 /\ \A n \in 1..Len(queue) : queue[n] # Tick
  /\ queue' = Append(queue, Tick)
  /\ UNCHANGED <<conns, timer, reads, reused>>

\* process_tasks: a task is due after Timeout tick lengths.  A tick comes when
\* the thread is free, so tasks that have seen fewer ticks may be due as well;
\* those with a smaller id were scheduled earlier.
TickHandler ==
  /\ Runs(Tick)
  /\ queue' = Tail(queue)
  /\ \E k \in 0..highest_id :
       /\ \A i \in DOMAIN tasks : tasks[i].waited = Timeout => i <= k
       /\ sweep' = k
       /\ tasks' = [i \in DOMAIN tasks |->
                      IF i <= k THEN tasks[i] ELSE [tasks[i] EXCEPT !.waited = @ + 1]]
  /\ UNCHANGED <<conns, highest_id, reads, reused>>

\* Mutant: the tasks are erased but not called.
RunTaskNotCalled ==
  /\ \E i \in DOMAIN tasks : i <= sweep
  /\ tasks' = [i \in {j \in DOMAIN tasks : j > sweep} |-> tasks[i]]
  /\ UNCHANGED <<queue, conns, highest_id, sweep, reads, reused>>

\* The next due task closes its connection's socket, which completes an
\* outstanding read with an error; the task is erased.
RunTask == \E i \in DOMAIN tasks :
  LET c == tasks[i].conn
  IN  /\ i <= sweep /\ \A j \in DOMAIN tasks : i <= j
      /\ tasks' = Cancelled(i)
      /\ open' = [open EXCEPT ![c] = FALSE]
      /\ IF open[c] /\ state[c] = "reading"
           THEN SetState(c, "ready") /\ queue' = Append(queue, Handler("error", c))
           ELSE UNCHANGED <<state, queue>>
      /\ UNCHANGED <<task_id, highest_id, sweep, reads, reused>>

\* Mutant: ids start again at 0 although tasks are left.
EndTickResets ==
  /\ sweep >= 0 /\ \A i \in DOMAIN tasks : i > sweep
  /\ sweep' = -1
  /\ highest_id' = 0
  /\ UNCHANGED <<queue, conns, tasks, reads, reused>>

\* Ids start again at 0 when no task is left; the timer is armed again.
EndTick ==
  /\ sweep >= 0 /\ \A i \in DOMAIN tasks : i > sweep
  /\ sweep' = -1
  /\ highest_id' = IF DOMAIN tasks = {} THEN 0 ELSE highest_id
  /\ UNCHANGED <<queue, conns, tasks, reads, reused>>

Thread ==
  \/ \E c \in Conns : RunStart(c) \/ RunRead(c) \/ EndConnection(c)
  \/ TickHandler \/ RunTask \/ EndTick

Next ==
  \/ \E c \in Conns : PostStart(c) \/ \E what \in Finds : ReadCompletes(c, what)
  \/ TimerExpires
  \/ Thread

Spec == Init /\ [][Next]_vars

\* The worker thread runs what is ready, and time passes; nothing is assumed
\* of clients.
FairSpec == Spec /\ WF_vars(Thread) /\ WF_vars(TimerExpires)

-----------------------------------------------------------------------------
\* A task is the current deadline of its connection, which is alive: no
\* connection has two deadlines, and none outlives its connection and closes
\* a socket later.
TasksCurrent == \A i \in DOMAIN tasks :
  LET c == tasks[i].conn IN task_id[c] = i /\ Live(c) /\ open[c]

\* "Set the connection timeout": every connection that waits for its client
\* has a deadline of its own, unless task_timer has issued an id that another
\* connection held.  That happens when the ids start again at 0 after a tick
\* that has closed connections whose reads have not been reported yet; their
\* cancel_deadline_timer then hits the connection with the new id.
OwnDeadline == reused \/ \A c \in Conns :
  Live(c) /\ open[c] => task_id[c] \in DOMAIN tasks /\ tasks[task_id[c]].conn = c

\* Ticks a connection has been silent for, with the one that is handled.
Silence(i) == tasks[i].waited + IF i <= sweep THEN 1 ELSE 0

\* process_tasks goes through tasks_ by id, and that is the order in which the
\* connections fell silent, although ids start again: the socket it closes
\* next belongs to a connection that has been silent longest.
LongestSilentFirst == \A i, j \in DOMAIN tasks : i < j => Silence(j) <= Silence(i)

\* A client that stays silent does not keep a connection: each one that was
\* accepted ends, under the same condition.
SilentEnds == \A c \in Conns : state[c] = "posted" ~> state[c] = "gone" \/ reused
=============================================================================
