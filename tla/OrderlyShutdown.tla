-------------------------- MODULE OrderlyShutdown ---------------------------
(***************************************************************************)
(* What the service promises about its end: it enters drain mode first,    *)
(* admits no order request from then on, stops the server only then, and   *)
(* closes the database last, when no handler is using it.                  *)
(***************************************************************************)
CONSTANT Threads
VARIABLES
  draining,  \* readiness fails and order requests are refused
  stopping,  \* the server is being stopped
  busy,      \* threads inside an order handler
  closed     \* the database is closed

vars == <<draining, stopping, busy, closed>>

Init == draining = FALSE /\ stopping = FALSE /\ busy = {} /\ closed = FALSE

Admit(t) ==
  /\ ~draining
  /\ busy' = busy \cup {t}
  /\ UNCHANGED <<draining, stopping, closed>>

Finish(t) ==
  /\ ~closed
  /\ busy' = busy \ {t}
  /\ UNCHANGED <<draining, stopping, closed>>

Drain == draining' = TRUE /\ UNCHANGED <<stopping, busy, closed>>

Stop ==
  /\ draining
  /\ stopping' = TRUE
  /\ UNCHANGED <<draining, busy, closed>>

Close ==
  /\ stopping /\ busy = {}
  /\ closed' = TRUE
  /\ UNCHANGED <<draining, stopping, busy>>

Next == Drain \/ Stop \/ Close \/ \E t \in Threads : Admit(t) \/ Finish(t)

Spec == Init /\ [][Next]_vars
=============================================================================
