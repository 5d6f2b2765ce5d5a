----------------------- MODULE RequestPipeline_proofs -----------------------
(* Proofs about RequestPipeline, for any number of connections, workers and *)
(* requests of any kind.                                                    *)
EXTENDS RequestPipeline, FiniteSetTheorems, TLAPS

-----------------------------------------------------------------------------
(* Types *)

\* What an idle connection holds is a request.
LEMMA NoRequestType == NoRequest \in Request
BY DEF NoRequest, Request, AllRoutes, AllForms

\* Every step keeps every variable in its type.
LEMMA TypeStep == TypeOK /\ [Next]_vars => TypeOK'
<1> SUFFICES ASSUME TypeOK, [Next]_vars PROVE TypeOK' OBVIOUS
<1> USE PipelineAssumption, NoRequestType
<1>g. ASSUME NEW c \in Conns, NEW l \in Labels, Goto(c, l) PROVE pc' \in [Conns -> Labels]
  BY <1>g DEF Goto, TypeOK
<1>a. ASSUME NEW c \in Conns, NEW r \in Request, Arrives(c, r)
      PROVE  /\ req' \in [Conns -> Request] /\ late' \in [Conns -> BOOLEAN]
             /\ home' \in [Conns -> Workers]
             /\ begun' \in 0..MaxRequests
             /\ UNCHANGED <<shutting_down, gauges, ended>>
  BY <1>a DEF Arrives, TypeOK
<1>f. ASSUME NEW c \in Conns, Fresh(c)
      PROVE  /\ counted' \in [Conns -> BOOLEAN]
             /\ start' \in [Conns -> {"epoch", "earlier", "own"}]
             /\ home' \in [Conns -> Workers]
  BY <1>f DEF Fresh, TypeOK
<1>1. ASSUME NEW c \in Conns, HandleUrl(c) PROVE TypeOK'
  <2>1. "after" \in Labels BY DEF Labels
  <2>2. start' \in [Conns -> {"epoch", "earlier", "own"}] /\ counted' = counted
    BY <1>1 DEF HandleUrl, TypeOK
  <2> QED BY <1>1, <1>g, <1>a, <2>1, <2>2 DEF HandleUrl, TypeOK, gauges, ended
<1>2. ASSUME NEW c \in Conns, Handle(c) PROVE TypeOK'
  <2>1. PICK p \in Routes \ {"none"}, f \in Forms, k \in BOOLEAN :
          /\ Arrives(c, [route |-> p, form |-> f, key |-> k])
          /\ counted' = [counted EXCEPT ![c] = FALSE]
          /\ start' = [start EXCEPT ![c] = IF f = "hostless" THEN "epoch" ELSE "own"]
          /\ Goto(c, CASE f = "hostless" -> "write"
                       [] f # "hostless" /\ p = "probe" -> "handler"
                       [] OTHER -> "check")
    BY Zenon, <1>2 DEF Handle
  <2>2. [route |-> p, form |-> f, key |-> k] \in Request
    BY DEF Request
  <2>3. pc' \in [Conns -> Labels]
    BY <2>1 DEF Goto, TypeOK, Labels
  <2>4. /\ counted' \in [Conns -> BOOLEAN]
        /\ start' \in [Conns -> {"epoch", "earlier", "own"}]
    BY <2>1 DEF TypeOK
  <2> QED BY <1>a, <2>1, <2>2, <2>3, <2>4 DEF TypeOK, gauges, ended
<1>3. ASSUME NEW c \in Conns, Step(c) PROVE TypeOK'
  <2>1. pc' \in [Conns -> Labels]
    BY <1>3 DEF Step, CheckShutdown, AddInflight, RejectOverload, Authorize, RunHandler,
                LeaveInflight, LogRequest, HandleUpgrade, DropUpgrade, WriteResponse,
                ToIdle, Goto, TypeOK, Labels
  <2>2. CASE CheckShutdown(c) \/ AddInflight(c) \/ RejectOverload(c) \/ Authorize(c)
             \/ RunHandler(c) \/ LeaveInflight(c) \/ LogRequest(c)
    <3>1. UNCHANGED <<shutting_down, req, home, late, begun, answered, leaked,
                      max_inflight_requests, start>>
      BY <2>2 DEF CheckShutdown, AddInflight, RejectOverload, Authorize, RunHandler,
                  LeaveInflight, LogRequest, gauges, conns, ended, ctx
    <3>4. twice' \in Nat
      BY <2>2 DEF CheckShutdown, AddInflight, RejectOverload, Authorize, RunHandler,
                  LeaveInflight, LogRequest, conns, ended, TypeOK
    <3>2. counted' \in [Conns -> BOOLEAN]
      BY Zenon, <2>2 DEF CheckShutdown, AddInflight, RejectOverload, Authorize, RunHandler,
                  LeaveInflight, LogRequest, gauges, ctx, TypeOK
    <3>3. /\ in_flight' \in Int /\ total_requests' \in Nat
          /\ overload_rejections' \in Nat /\ shutdown_rejections' \in Nat
      BY <2>2 DEF CheckShutdown, AddInflight, RejectOverload, Authorize, RunHandler,
                  LeaveInflight, LogRequest, gauges, ctx, TypeOK
    <3> QED BY <2>1, <3>1, <3>2, <3>3, <3>4 DEF TypeOK
  <2>3. CASE HandleUpgrade(c) \/ DropUpgrade(c) \/ WriteResponse(c)
    <3>1. /\ ToIdle(c) /\ (Fresh(c) \/ UNCHANGED <<ctx, home>>)
          /\ answered' \in Nat /\ leaked' \in Nat
      BY <2>3 DEF HandleUpgrade, DropUpgrade, WriteResponse, TypeOK
    <3>2. /\ req' \in [Conns -> Request] /\ late' \in [Conns -> BOOLEAN]
          /\ UNCHANGED <<shutting_down, gauges, begun, twice, max_inflight_requests>>
      BY <3>1 DEF ToIdle, TypeOK
    <3>3. /\ counted' \in [Conns -> BOOLEAN]
          /\ start' \in [Conns -> {"epoch", "earlier", "own"}]
          /\ home' \in [Conns -> Workers]
      BY <3>1, <1>f DEF ctx, TypeOK
    <3> QED BY <2>1, <3>1, <3>2, <3>3 DEF TypeOK, gauges
  <2> QED BY <1>3, <2>2, <2>3 DEF Step
<1>4. ASSUME NEW c \in Conns, Reconnect(c) PROVE TypeOK'
  BY <1>4, <1>f DEF Reconnect, TypeOK, gauges, ended
<1>5. CASE EnterDrain \/ UNCHANGED vars
  BY Zenon, <1>5 DEF EnterDrain, TypeOK, vars, gauges, conns, ended, ctx
<1> QED BY <1>1, <1>2, <1>3, <1>4, <1>5 DEF Next

\* Every variable keeps its type, in every environment.
THEOREM TypeCorrect == Spec => []TypeOK
<1>1. Init => TypeOK
  <2> SUFFICES ASSUME Init PROVE TypeOK OBVIOUS
  <2>1. pc \in [Conns -> Labels]
    BY DEF Init, Labels
  <2>2. req \in [Conns -> Request]
    BY NoRequestType DEF Init
  <2>3. begun \in 0..MaxRequests
    BY PipelineAssumption DEF Init
  <2>4. /\ counted \in [Conns -> BOOLEAN] /\ late \in [Conns -> BOOLEAN]
    BY DEF Init
  <2>5. start \in [Conns -> {"epoch", "earlier", "own"}]
    BY DEF Init
  <2>6. /\ in_flight \in Int /\ total_requests \in Nat
        /\ overload_rejections \in Nat /\ shutdown_rejections \in Nat
        /\ answered \in Nat /\ leaked \in Nat /\ twice \in Nat
    BY DEF Init
  <2>7. shutting_down \in BOOLEAN /\ home \in [Conns -> Workers]
        /\ max_inflight_requests \in Limits
    BY Zenon DEF Init
  <2> QED BY <2>1, <2>2, <2>3, <2>4, <2>5, <2>6, <2>7 DEF TypeOK
<1> QED BY <1>1, TypeStep, PTL DEF Spec

-----------------------------------------------------------------------------
(* Requests that arrive during shutdown *)

\* A request is late only if drain mode was entered, which is never left.
LateInv == LateRejected /\ \A c \in Conns : late[c] => shutting_down

\* Every step keeps it: a late request finds shutting_down set when it checks.
LEMMA LateStep == TypeOK /\ LateInv /\ [Next]_vars => LateInv'
<1> SUFFICES ASSUME TypeOK, LateInv, [Next]_vars PROVE LateInv' OBVIOUS
<1> USE DEF LateInv, LateRejected, TypeOK
<1>1. ASSUME NEW c \in Conns, HandleUrl(c) PROVE LateInv'
  BY <1>1 DEF HandleUrl, Arrives, Goto, NoRequest
<1>2. ASSUME NEW c \in Conns, Handle(c) PROVE LateInv'
  BY <1>2 DEF Handle, Arrives, Goto
<1>3. ASSUME NEW c \in Conns, Step(c) PROVE LateInv'
  <2>1. CASE CheckShutdown(c) \/ AddInflight(c) \/ RejectOverload(c) \/ Authorize(c)
             \/ RunHandler(c) \/ LeaveInflight(c) \/ LogRequest(c)
    BY <2>1 DEF CheckShutdown, AddInflight, RejectOverload, Authorize, RunHandler,
                LeaveInflight, LogRequest, Goto, conns, ctx
  <2>2. CASE HandleUpgrade(c) \/ DropUpgrade(c) \/ WriteResponse(c)
    BY <2>2 DEF HandleUpgrade, DropUpgrade, WriteResponse, ToIdle, Fresh, Goto, ctx
  <2> QED BY <1>3, <2>1, <2>2 DEF Step
<1>4. ASSUME NEW c \in Conns, Reconnect(c) PROVE LateInv'
  BY <1>4 DEF Reconnect, Fresh
<1>5. CASE EnterDrain \/ UNCHANGED vars
  BY <1>5 DEF EnterDrain, vars, conns, ctx
<1> QED BY <1>1, <1>2, <1>3, <1>4, <1>5 DEF Next

\* LifecycleMiddleware lets no order request in that arrives after the watcher
\* has set shutting_down.
THEOREM LateRejectedCorrect == Spec => []LateRejected
<1>1. Init => LateInv
  BY DEF Init, LateInv, LateRejected
<1>2. LateInv => LateRejected
  BY DEF LateInv
<1> QED BY <1>1, <1>2, LateStep, TypeCorrect, PTL DEF Spec

-----------------------------------------------------------------------------
(* The in-flight gauge and limit *)

\* InFlight and its part Admitted are finite.
LEMMA InFlightFinite ==
  /\ IsFiniteSet(InFlight) /\ Cardinality(InFlight) \in Nat
  /\ IsFiniteSet(Admitted) /\ Cardinality(Admitted) \in Nat
  /\ Cardinality(Admitted) <= Cardinality(InFlight)
<1>1. InFlight \in SUBSET Conns BY DEF InFlight
<1>2. Admitted \in SUBSET InFlight BY DEF Admitted
<1>3. IsFiniteSet(InFlight)
  BY <1>1, FS_Subset, PipelineAssumption
<1> QED BY <1>2, <1>3, FS_Subset, FS_CardinalityType

\* No more requests are in flight than there are workers: home maps them to
\* different threads.
LEMMA InFlightOnWorkers ==
  TypeOK /\ OneAtATime => Cardinality(InFlight) <= Cardinality(Workers)
<1> SUFFICES ASSUME TypeOK, OneAtATime
             PROVE  Cardinality(InFlight) <= Cardinality(Workers)
  OBVIOUS
<1> DEFINE f == [c \in InFlight |-> home[c]]
<1>1. f \in [InFlight -> Workers]
  BY DEF TypeOK, InFlight
<1>2. \A c, d \in InFlight : f[c] = f[d] => c = d
  BY DEF OneAtATime, InFlight
<1> HIDE DEF f
<1>3. f \in Injection(InFlight, Workers)
  BY <1>1, <1>2 DEF Injection, IsInjective
<1> QED BY <1>3, FS_Injection, PipelineAssumption

\* A request starts only on a free worker, and an idle connection alone changes
\* its worker.
LEMMA OneAtATimeStep == TypeOK /\ OneAtATime /\ [Next]_vars => OneAtATime'
<1> SUFFICES ASSUME TypeOK, OneAtATime, [Next]_vars PROVE OneAtATime' OBVIOUS
<1>1. ASSUME NEW c \in Conns, HandleUrl(c) \/ Handle(c) PROVE OneAtATime'
  <2>1. /\ \A d \in Conns \ {c} : home[d] = home[c] => pc[d] = "idle"
        /\ home' = home /\ \A d \in Conns \ {c} : pc'[d] = pc[d]
    BY <1>1 DEF HandleUrl, Handle, Arrives, ThreadFree, Goto, TypeOK
  <2> QED BY <2>1 DEF OneAtATime
<1>2. ASSUME NEW c \in Conns, Step(c) PROVE OneAtATime'
  <2>1. /\ pc[c] # "idle" /\ \A d \in Conns \ {c} : pc'[d] = pc[d] /\ home'[d] = home[d]
        /\ pc'[c] = "idle" \/ home' = home
    <3>1. CASE CheckShutdown(c) \/ AddInflight(c) \/ RejectOverload(c) \/ Authorize(c)
               \/ RunHandler(c) \/ LeaveInflight(c) \/ LogRequest(c)
      BY <3>1 DEF CheckShutdown, AddInflight, RejectOverload, Authorize, RunHandler,
                  LeaveInflight, LogRequest, Goto, conns, TypeOK
    <3>2. CASE HandleUpgrade(c) \/ DropUpgrade(c) \/ WriteResponse(c)
      BY <3>2 DEF HandleUpgrade, DropUpgrade, WriteResponse, ToIdle, Fresh, Goto, TypeOK
    <3> QED BY <1>2, <3>1, <3>2 DEF Step
  <2> QED BY <2>1 DEF OneAtATime
<1>3. ASSUME NEW c \in Conns, Reconnect(c) PROVE OneAtATime'
  BY <1>3 DEF Reconnect, Fresh, OneAtATime, TypeOK
<1>4. CASE EnterDrain \/ UNCHANGED vars
  BY <1>4 DEF EnterDrain, vars, conns, OneAtATime
<1> QED BY <1>1, <1>2, <1>3, <1>4 DEF Next

\* Every request keeps its shape on the way through the middlewares.
Shapes == \A c \in Conns : RequestShape(pc[c], req[c], counted[c])

\* No step breaks the shape of a request.
LEMMA ShapeStep == TypeOK /\ Shapes /\ [Next]_vars => Shapes'
<1> SUFFICES ASSUME TypeOK, Shapes, [Next]_vars PROVE Shapes' OBVIOUS
<1> USE DEF Shapes, RequestShape, TypeOK
<1>1. ASSUME NEW c \in Conns, Handle(c) PROVE Shapes'
  BY SMTT(30), <1>1, PipelineAssumption DEF Handle, Arrives, Goto, AllRoutes
<1>2. ASSUME NEW c \in Conns, Step(c) PROVE Shapes'
  <2>1. CASE CheckShutdown(c) \/ AddInflight(c) \/ RejectOverload(c) \/ Authorize(c)
             \/ RunHandler(c) \/ LeaveInflight(c) \/ LogRequest(c)
    BY <2>1 DEF CheckShutdown, AddInflight, RejectOverload, Authorize, RunHandler,
                LeaveInflight, LogRequest, Goto, conns, ctx
  <2>2. CASE HandleUpgrade(c) \/ DropUpgrade(c) \/ WriteResponse(c)
    BY <2>2 DEF HandleUpgrade, DropUpgrade, WriteResponse, ToIdle, Fresh, Goto, ctx
  <2> QED BY <1>2, <2>1, <2>2 DEF Step
<1>3. ASSUME NEW c \in Conns, Reconnect(c) PROVE Shapes'
  BY <1>3 DEF Reconnect, Fresh
<1>4. CASE EnterDrain \/ UNCHANGED vars
  BY <1>4 DEF EnterDrain, vars, conns, ctx
<1>5. ASSUME NEW c \in Conns, HandleUrl(c) PROVE Shapes'
  BY ZenonT(30), <1>5 DEF HandleUrl, Arrives, Goto, NoRequest
<1> QED BY <1>1, <1>2, <1>3, <1>4, <1>5 DEF Next

\* AddInflight brings its request into both sets, or, above the limit, into
\* InFlight alone.
LEMMA AddCounted ==
  ASSUME TypeOK, Shapes, NEW c \in Conns, AddInflight(c)
  PROVE  /\ InFlight' = InFlight \cup {c} /\ c \notin InFlight
         /\ Admitted' = IF in_flight + 1 > max_inflight_requests THEN Admitted
                        ELSE Admitted \cup {c}
         /\ c \notin Admitted
<1> USE DEF TypeOK, AddInflight, Goto, conns, InFlight
<1>1. req[c].route = "order"
  BY DEF Shapes, RequestShape
<1>2. InFlight' = InFlight \cup {c} /\ c \notin InFlight
  BY <1>1
<1>3. /\ \A d \in Conns \ {c} : pc'[d] = pc[d]
      /\ pc'[c] = IF in_flight + 1 > max_inflight_requests THEN "over" ELSE "auth"
  OBVIOUS
<1> HIDE DEF TypeOK, AddInflight, Goto, conns
<1> QED BY <1>2, <1>3 DEF Admitted

\* The steps that take a request off InFlight: both rejections and the end of
\* an order request, and an upgrade that leaks.
Leaves(c) ==
  \/ RejectOverload(c)
  \/ LeaveInflight(c) /\ counted[c] /\ req[c].route = "order"
  \/ HandleUpgrade(c) /\ counted[c]

\* They take it out of both sets.
LEMMA SubCounted ==
  ASSUME TypeOK, Shapes, NEW c \in Conns, Leaves(c)
  PROVE  InFlight' = InFlight \ {c} /\ c \in InFlight /\ Admitted' = Admitted \ {c}
<1>1. req[c].route = "order"
  BY DEF Shapes, RequestShape, Leaves, RejectOverload, HandleUpgrade
<1>2. /\ pc[c] \in {"over", "handler"} \/ (pc[c] = "after" /\ counted[c])
      /\ pc'[c] \in {"after", "log", "idle"} /\ (pc'[c] = "after" => ~counted'[c])
      /\ \A d \in Conns \ {c} : pc'[d] = pc[d] /\ req'[d] = req[d] /\ counted'[d] = counted[d]
  <2>1. CASE RejectOverload(c)
    BY <2>1 DEF RejectOverload, Goto, conns, TypeOK
  <2>2. CASE LeaveInflight(c) /\ counted[c]
    BY <2>2 DEF LeaveInflight, Goto, ctx, TypeOK
  <2>3. CASE HandleUpgrade(c)
    BY <2>3 DEF HandleUpgrade, ToIdle, Fresh, Goto, TypeOK
  <2> QED BY <2>1, <2>2, <2>3 DEF Leaves
<1>3. InFlight' = InFlight \ {c} /\ c \in InFlight
  BY ZenonT(30), <1>1, <1>2 DEF InFlight
<1> QED BY <1>2, <1>3 DEF Admitted, InFlight

\* A second subtraction, for an unmatched request.
SubtractsAgain(c) == LeaveInflight(c) /\ counted[c] /\ req[c].route # "order"

\* All other steps leave the gauge, its drift and both sets alone.
Uncounted ==
  /\ UNCHANGED <<in_flight, leaked, twice, max_inflight_requests, overload_rejections,
                 InFlight, Admitted>>
  /\ \A c \in Conns : pc'[c] = "over" => pc[c] = "over"

\* Only AddInflight, the steps above and the second subtraction touch them.
LEMMA OthersUncounted ==
  ASSUME TypeOK, Shapes, [Next]_vars,
         \A c \in Conns : ~AddInflight(c) /\ ~Leaves(c) /\ ~SubtractsAgain(c)
  PROVE  Uncounted
<1> USE DEF Uncounted, InFlight, Admitted, TypeOK, ended
<1>1. ASSUME NEW c \in Conns, Handle(c) PROVE Uncounted
  BY <1>1 DEF Handle, Arrives, Goto, gauges
<1>2. ASSUME NEW c \in Conns, Step(c) PROVE Uncounted
  <2> USE DEF Goto, gauges, conns, ctx, Shapes, RequestShape
  <2>1. CASE CheckShutdown(c) BY <2>1 DEF CheckShutdown
  <2>2. CASE Authorize(c) BY <2>2 DEF Authorize
  <2>3. CASE RunHandler(c) BY <2>3 DEF RunHandler
  <2>4. CASE LeaveInflight(c) /\ ~counted[c] BY <2>4 DEF LeaveInflight
  <2>5. CASE LogRequest(c) BY <2>5 DEF LogRequest
  <2>6. CASE WriteResponse(c) BY <2>6 DEF WriteResponse, ToIdle, Fresh
  <2>7. CASE HandleUpgrade(c) /\ ~counted[c]
    BY <2>7 DEF HandleUpgrade, ToIdle, Fresh
  <2>8. CASE DropUpgrade(c) BY <2>8 DEF DropUpgrade, ToIdle, Fresh
  <2> HIDE DEF Goto, gauges, conns, ctx, Shapes, RequestShape, Uncounted, InFlight,
               Admitted, TypeOK, ended
  <2> QED BY Zenon, <1>2, <2>1, <2>2, <2>3, <2>4, <2>5, <2>6, <2>7, <2>8
          DEF Step, Leaves, SubtractsAgain
<1>3. ASSUME NEW c \in Conns, Reconnect(c) PROVE Uncounted
  BY <1>3 DEF Reconnect, Fresh, gauges
<1>4. CASE EnterDrain \/ UNCHANGED vars
  BY <1>4 DEF EnterDrain, vars, gauges, conns, ctx
<1>5. ASSUME NEW c \in Conns, HandleUrl(c) PROVE Uncounted
  BY <1>5 DEF HandleUrl, Arrives, Goto, gauges, NoRequest
<1> QED BY ZenonT(30), <1>1, <1>2, <1>3, <1>4, <1>5 DEF Next

\* The gauge counts what it should but for the drift, and the limit is kept,
\* whatever order the workers take their steps in.
THEOREM PipelineInvariant == Spec => []PipelineInv
<1> USE PipelineAssumption
<1>1. Init => PipelineInv
  <2> SUFFICES ASSUME Init PROVE PipelineInv OBVIOUS
  <2>1. InFlight = {} /\ Admitted = {}
    BY DEF Init, InFlight, Admitted
  <2>2. Cardinality({}) = 0 BY FS_EmptySet
  <2>3. \A c \in Conns : pc[c] = "idle" BY DEF Init
  <2>4. /\ in_flight = 0 /\ overload_rejections = 0 /\ leaked = 0 /\ twice = 0
        /\ max_inflight_requests \in Nat
    BY DEF Init
  <2> QED BY <2>1, <2>2, <2>3, <2>4
          DEF PipelineInv, RequestShape, OneAtATime, GaugeDrift, AdmissionLimit
<1>2. TypeOK /\ TypeOK' /\ PipelineInv /\ [Next]_vars => PipelineInv'
  <2> SUFFICES ASSUME TypeOK, TypeOK', PipelineInv, [Next]_vars PROVE PipelineInv' OBVIOUS
  <2>0. Shapes BY DEF PipelineInv, Shapes
  <2>1. Shapes' BY <2>0, ShapeStep
  <2>2. OneAtATime' BY OneAtATimeStep DEF PipelineInv
  <2>3. /\ in_flight = Cardinality(InFlight) + leaked - twice
        /\ Cardinality(Admitted) + leaked <= max_inflight_requests + twice
        /\ in_flight \in Int /\ leaked \in Nat /\ twice \in Nat /\ max_inflight_requests \in Nat
        /\ Cardinality(InFlight) \in Nat /\ Cardinality(Admitted) \in Nat
        /\ Cardinality(Admitted) <= Cardinality(InFlight)
        /\ Cardinality(Workers) \in Nat
    BY InFlightFinite, FS_CardinalityType DEF PipelineInv, GaugeDrift, AdmissionLimit, TypeOK
  <2> DEFINE Small == Cardinality(Workers) + leaked <= max_inflight_requests
             NoneOver == overload_rejections = 0 /\ \A c \in Conns : pc[c] # "over"
  <2>a. Small => NoneOver BY DEF PipelineInv
  <2> SUFFICES GaugeDrift' /\ AdmissionLimit' /\ (Small' => NoneOver')
    BY <2>1, <2>2 DEF PipelineInv, Shapes
  <2>4. CASE \E c \in Conns : AddInflight(c)
    <3> PICK c \in Conns : AddInflight(c) BY <2>4
    <3>0. /\ in_flight' = in_flight + 1 /\ leaked' = leaked /\ twice' = twice
          /\ max_inflight_requests' = max_inflight_requests
          /\ overload_rejections' = overload_rejections
          /\ pc' = [pc EXCEPT ![c] = IF in_flight + 1 > max_inflight_requests THEN "over" ELSE "auth"]
      BY DEF AddInflight, Goto, conns, ended
    <3>1. /\ Cardinality(InFlight') = Cardinality(InFlight) + 1
          /\ Cardinality(Admitted \cup {c}) = Cardinality(Admitted) + 1
      BY Zenon, <2>0, AddCounted, InFlightFinite, FS_AddElement
    <3>2. GaugeDrift'
      BY <2>3, <3>0, <3>1 DEF GaugeDrift
    <3>3. AdmissionLimit'
      <4>2. CASE in_flight + 1 > max_inflight_requests
        <5>1. Admitted' = Admitted BY <2>0, <4>2, AddCounted
        <5> QED BY <2>3, <3>0, <5>1 DEF AdmissionLimit
      <4>3. CASE ~(in_flight + 1 > max_inflight_requests)
        <5>1. Admitted' = Admitted \cup {c} BY <2>0, <4>3, AddCounted
        <5> QED BY <2>3, <3>0, <3>1, <4>3, <5>1 DEF AdmissionLimit
      <4> QED BY <4>2, <4>3
    <3>a. (TypeOK /\ OneAtATime => Cardinality(InFlight) <= Cardinality(Workers))'
      BY InFlightOnWorkers, PTL
    <3>4. Cardinality(InFlight') <= Cardinality(Workers)
      BY <2>2, <3>a
    <3>6. Small => in_flight + 1 <= max_inflight_requests
      BY <2>3, <3>1, <3>4
    <3>7. Small' => NoneOver'
      BY <2>3, <2>a, <3>0, <3>6 DEF TypeOK
    <3> QED BY <3>2, <3>3, <3>7
  <2>5. CASE \E c \in Conns : Leaves(c)
    <3> PICK c \in Conns : Leaves(c) BY <2>5
    <3>1. /\ Cardinality(InFlight') = Cardinality(InFlight) - 1
          /\ Cardinality(Admitted') <= Cardinality(Admitted)
          /\ c \in Admitted => Cardinality(Admitted') = Cardinality(Admitted) - 1
          /\ Cardinality(Admitted') \in Nat
      <4>1. IsFiniteSet(InFlight) /\ IsFiniteSet(Admitted) BY InFlightFinite
      <4>2. InFlight' = InFlight \ {c} /\ c \in InFlight /\ Admitted' = Admitted \ {c}
        BY <2>0, SubCounted
      <4>3. /\ Cardinality(InFlight \ {c}) = Cardinality(InFlight) - 1
            /\ c \in Admitted => Cardinality(Admitted \ {c}) = Cardinality(Admitted) - 1
        BY Zenon, <4>1, <4>2, FS_RemoveElement
      <4>4. IsFiniteSet(Admitted \ {c})
            /\ Cardinality(Admitted \ {c}) <= Cardinality(Admitted)
        BY <4>1, FS_Subset
      <4>5. Cardinality(Admitted \ {c}) \in Nat BY <4>4, FS_CardinalityType
      <4> QED BY <4>2, <4>3, <4>4, <4>5
    <3>2. /\ max_inflight_requests' = max_inflight_requests /\ twice' = twice
          /\ \/ in_flight' = in_flight - 1 /\ leaked' = leaked
             \/ in_flight' = in_flight /\ leaked' = leaked + 1 /\ c \in Admitted
      <4>1. CASE RejectOverload(c) BY <4>1 DEF RejectOverload, conns, ended
      <4>2. CASE LeaveInflight(c) /\ counted[c] /\ req[c].route = "order"
        BY <2>3, <4>2 DEF LeaveInflight
      <4>3. CASE HandleUpgrade(c) /\ counted[c]
        BY <2>0, <4>3 DEF HandleUpgrade, ToIdle, gauges, Admitted, InFlight, Shapes, RequestShape
      <4> QED BY <4>1, <4>2, <4>3 DEF Leaves
    <3>3. GaugeDrift'
      BY <2>3, <3>1, <3>2 DEF GaugeDrift
    <3>4. AdmissionLimit'
      BY <2>3, <3>1, <3>2 DEF AdmissionLimit
    <3>5. Small' => NoneOver'
      <4>0. Small' => Small BY <2>3, <3>2
      <4>1. CASE RejectOverload(c)
        BY <2>a, <4>0, <4>1 DEF RejectOverload
      <4>2. CASE LeaveInflight(c)
        BY ZenonT(30), <2>a, <4>0, <4>2 DEF LeaveInflight, Goto, TypeOK
      <4>3. CASE HandleUpgrade(c)
        BY <2>a, <4>0, <4>3 DEF HandleUpgrade, ToIdle, gauges, Goto, TypeOK
      <4> QED BY <4>1, <4>2, <4>3 DEF Leaves
    <3> QED BY <3>3, <3>4, <3>5
  <2>6. CASE \E c \in Conns : SubtractsAgain(c)
    <3> PICK c \in Conns : SubtractsAgain(c) BY <2>6
    <3>1. /\ in_flight' = in_flight - 1 /\ twice' = twice + 1 /\ leaked' = leaked
          /\ max_inflight_requests' = max_inflight_requests
          /\ overload_rejections' = overload_rejections
          /\ pc' = [pc EXCEPT ![c] = "log"] /\ req' = req /\ counted' = counted
          /\ req[c].route = "none" /\ pc[c] = "after"
      BY ZenonT(30), <2>0, <2>3 DEF SubtractsAgain, LeaveInflight, Goto, ctx, Shapes, RequestShape
    <3>2. InFlight' = InFlight /\ Admitted' = Admitted
      BY <3>1 DEF InFlight, Admitted, TypeOK
    <3>3. Small' => NoneOver'
      BY <2>a, <3>1 DEF TypeOK
    <3> QED BY <2>3, <3>1, <3>2, <3>3 DEF GaugeDrift, AdmissionLimit
  <2>7. CASE \A c \in Conns : ~AddInflight(c) /\ ~Leaves(c) /\ ~SubtractsAgain(c)
    <3>1. Uncounted BY <2>0, <2>7, OthersUncounted
    <3> QED BY <3>1, <2>a, <2>3 DEF Uncounted, GaugeDrift, AdmissionLimit
  <2> QED BY <2>4, <2>5, <2>6, <2>7
<1> QED BY <1>1, <1>2, TypeCorrect, PTL DEF Spec

\* in_flight_requests is the number of order requests being processed, plus
\* the leaked upgrades, minus the second subtractions.
THEOREM GaugeDriftCorrect == Spec => []GaugeDrift
<1>1. PipelineInv => GaugeDrift BY DEF PipelineInv
<1> QED BY <1>1, PipelineInvariant, PTL

\* No more than max_inflight_requests order requests are let in at a time, but
\* for the drift.
THEOREM AdmissionLimitCorrect == Spec => []AdmissionLimit
<1>1. PipelineInv => AdmissionLimit BY DEF PipelineInv
<1> QED BY <1>1, PipelineInvariant, PTL

\* A limit of at least the number of worker threads rejects nobody until
\* leaked upgrades have used up the difference.
THEOREM OverloadNeedsThreadsCorrect == Spec => []OverloadNeedsThreads
<1>1. TypeOK /\ PipelineInv => OverloadNeedsThreads
  <2> SUFFICES ASSUME TypeOK, PipelineInv PROVE OverloadNeedsThreads OBVIOUS
  <2>1. /\ Cardinality(InFlight) <= Cardinality(Workers)
        /\ Cardinality(InFlight) \in Nat /\ Cardinality(Workers) \in Nat
    BY InFlightOnWorkers, InFlightFinite, FS_CardinalityType, PipelineAssumption DEF PipelineInv
  <2>2. in_flight <= Cardinality(Workers) + leaked
    BY SMTT(30), <2>1 DEF PipelineInv, GaugeDrift, TypeOK
  <2> QED BY <2>2 DEF PipelineInv, OverloadNeedsThreads
<1> QED BY <1>1, TypeCorrect, PipelineInvariant, PTL

-----------------------------------------------------------------------------
(* The drain *)

\* In drain mode no request passes the check of LifecycleMiddleware.
LEMMA NobodyPasses ==
  ASSUME TypeOK, [Next]_vars, shutting_down
  PROVE  shutting_down' /\ \A c \in Conns : pc'[c] = "add" => pc[c] = "add"
<1>1. ASSUME NEW c \in Conns, HandleUrl(c) \/ Handle(c)
      PROVE  shutting_down' /\ \A d \in Conns : pc'[d] = "add" => pc[d] = "add"
  BY ZenonT(30), <1>1 DEF HandleUrl, Handle, Arrives, Goto, TypeOK
<1>2. ASSUME NEW c \in Conns, Step(c)
      PROVE  shutting_down' /\ \A d \in Conns : pc'[d] = "add" => pc[d] = "add"
  <2>1. /\ shutting_down' = shutting_down
        /\ \E l \in Labels \ {"add"} : Goto(c, l)
    BY ZenonT(30), <1>2 DEF Step, CheckShutdown, AddInflight, RejectOverload, Authorize, RunHandler,
                LeaveInflight, LogRequest, HandleUpgrade, DropUpgrade, WriteResponse,
                ToIdle, Labels
  <2>. QED  BY <2>1 DEF Goto, TypeOK
<1>3. ASSUME NEW c \in Conns, Reconnect(c)
      PROVE  shutting_down' /\ \A d \in Conns : pc'[d] = "add" => pc[d] = "add"
  BY <1>3 DEF Reconnect
<1>4. CASE EnterDrain \/ UNCHANGED vars
  BY Zenon, <1>4 DEF EnterDrain, vars
<1>. QED  BY Zenon, <1>1, <1>2, <1>3, <1>4 DEF Next

\* A request that subtracts again was not in flight.
LEMMA AgainUncounted ==
  ASSUME TypeOK, Shapes, NEW c \in Conns, SubtractsAgain(c)
  PROVE  InFlight' = InFlight
<1>1. /\ pc[c] = "after" /\ pc'[c] = "log" /\ req[c].route # "order"
      /\ \A d \in Conns \ {c} : pc'[d] = pc[d]
      /\ req' = req /\ counted' = counted
  BY DEF SubtractsAgain, LeaveInflight, Goto, ctx, TypeOK
<1>. QED  BY Zenon, <1>1 DEF InFlight

\* The business of the server only shrinks during shutdown: AddInflight takes
\* a request that is part of it, every other step adds none.
LEMMA DrainStep ==
  ASSUME TypeOK, Shapes, [Next]_vars, shutting_down
  PROVE  shutting_down' /\ Business' \subseteq Business
<1>1. shutting_down' /\ \A c \in Conns : pc'[c] = "add" => pc[c] = "add"
  BY Zenon, NobodyPasses
<1>2. InFlight' \subseteq Business
  <2>1. ASSUME NEW c \in Conns, AddInflight(c) PROVE InFlight' \subseteq Business
    <3>1. InFlight' = InFlight \cup {c} /\ pc[c] = "add"
      BY Zenon, <2>1, AddCounted DEF AddInflight
    <3>. QED  BY Zenon, <3>1 DEF Business
  <2>2. ASSUME NEW c \in Conns, Leaves(c) PROVE InFlight' \subseteq Business
    BY Zenon, <2>2, SubCounted DEF Business
  <2>3. ASSUME NEW c \in Conns, SubtractsAgain(c) PROVE InFlight' \subseteq Business
    BY Zenon, <2>3, AgainUncounted DEF Business
  <2>4. CASE \A c \in Conns : ~AddInflight(c) /\ ~Leaves(c) /\ ~SubtractsAgain(c)
    BY Zenon, <2>4, OthersUncounted DEF Uncounted, Business
  <2>. QED  BY Zenon, <2>1, <2>2, <2>3, <2>4
<1>. QED  BY Zenon, <1>1, <1>2 DEF Business

\* Once shutting_down is set, it stays set and nothing joins the business of
\* the server, whatever the workers have read before.
THEOREM DrainShrinksCorrect == Spec => DrainShrinks
<1>1. PipelineInv => Shapes
  BY Zenon DEF PipelineInv, Shapes
<1>2. TypeOK /\ Shapes /\ [Next]_vars =>
        [shutting_down => shutting_down' /\ Business' \subseteq Business]_vars
  BY Zenon, DrainStep
<1>. QED  BY <1>1, <1>2, TypeCorrect, PipelineInvariant, PTL DEF Spec, DrainShrinks

\* The drain is over when the business of the server has gone: from then on
\* in_flight_requests stands at its drift, though requests keep arriving.
DrainOver == shutting_down /\ Business = {}

\* The safety part of Drained: in_flight_requests never leaves its drift again.
THEOREM DrainIsFinal == Spec => [](DrainOver => [](in_flight = leaked - twice))
<1>1. PipelineInv => Shapes
  BY Zenon DEF PipelineInv, Shapes
<1>2. TypeOK /\ Shapes /\ DrainOver /\ [Next]_vars => DrainOver'
  BY Zenon, DrainStep DEF DrainOver
<1>3. TypeOK /\ PipelineInv /\ DrainOver => in_flight = leaked - twice
  <2>. SUFFICES ASSUME TypeOK, GaugeDrift, DrainOver PROVE in_flight = leaked - twice
    BY Zenon DEF PipelineInv
  <2>1. InFlight = {}
    BY Zenon DEF DrainOver, Business
  <2>2. Cardinality(InFlight) = 0
    BY Zenon, <2>1, FS_EmptySet
  <2>. QED  BY <2>2 DEF GaugeDrift, TypeOK
<1>. QED  BY <1>1, <1>2, <1>3, TypeCorrect, PipelineInvariant, PTL DEF Spec

-----------------------------------------------------------------------------
(* The number of requests *)

\* The requests that have been logged and not yet been done with.
Writers == {c \in Conns : pc[c] = "write" /\ req[c].form # "hostless"}

\* Behind TotalAccounting: a request without Host has nothing before it but the
\* write of its 400, so whatever is logged is counted among the answered.
LoggedInv == \A c \in Conns : pc[c] # "write" => req[c].form # "hostless"

\* No step breaks it.
LEMMA LoggedStep == TypeOK /\ LoggedInv /\ [Next]_vars => LoggedInv'
<1> SUFFICES ASSUME TypeOK, LoggedInv, [Next]_vars PROVE LoggedInv' OBVIOUS
<1> USE DEF LoggedInv, TypeOK
<1>1. ASSUME NEW c \in Conns, HandleUrl(c) PROVE LoggedInv'
  BY <1>1 DEF HandleUrl, Arrives, Goto, NoRequest
<1>2. ASSUME NEW c \in Conns, Handle(c) PROVE LoggedInv'
  BY SMTT(30), <1>2 DEF Handle, Arrives, Goto
<1>3. ASSUME NEW c \in Conns, Step(c) PROVE LoggedInv'
  <2>1. CASE CheckShutdown(c) \/ AddInflight(c) \/ RejectOverload(c) \/ Authorize(c)
             \/ RunHandler(c) \/ LeaveInflight(c) \/ LogRequest(c)
    BY ZenonT(30), <2>1 DEF CheckShutdown, AddInflight, RejectOverload, Authorize, RunHandler,
                LeaveInflight, LogRequest, Goto, conns, ctx
  <2>2. CASE HandleUpgrade(c) \/ DropUpgrade(c) \/ WriteResponse(c)
    BY <2>2 DEF HandleUpgrade, DropUpgrade, WriteResponse, ToIdle, Fresh, Goto, ctx, NoRequest
  <2> QED BY ZenonT(30), <1>3, <2>1, <2>2 DEF Step
<1>4. ASSUME NEW c \in Conns, Reconnect(c) PROVE LoggedInv'
  BY <1>4 DEF Reconnect, Fresh
<1>5. CASE EnterDrain \/ UNCHANGED vars
  BY <1>5 DEF EnterDrain, vars, conns, ctx
<1> QED BY <1>1, <1>2, <1>3, <1>4, <1>5 DEF Next

LEMMA LoggedInvariant == Spec => []LoggedInv
<1>1. Init => LoggedInv BY DEF Init, LoggedInv, NoRequest
<1> QED BY <1>1, LoggedStep, TypeCorrect, PTL DEF Spec

\* The steps that neither log a request nor finish one.
Unlogged == UNCHANGED <<total_requests, answered, Writers>>

\* All but LogRequest, WriteResponse and DropUpgrade are such steps.
LEMMA OthersUnlogged ==
  ASSUME TypeOK, LoggedInv, [Next]_vars,
         \A c \in Conns : ~LogRequest(c) /\ ~WriteResponse(c) /\ ~DropUpgrade(c)
  PROVE  Unlogged
<1> USE DEF Unlogged, Writers, TypeOK, ended
<1>1. ASSUME NEW c \in Conns, Handle(c) PROVE Unlogged
  BY <1>1 DEF Handle, Arrives, Goto, gauges
<1>2. ASSUME NEW c \in Conns, Step(c) PROVE Unlogged
  <2> USE DEF Goto, gauges, conns, ctx
  <2>1. CASE CheckShutdown(c) BY <2>1 DEF CheckShutdown
  <2>2. CASE AddInflight(c) BY <2>2 DEF AddInflight
  <2>3. CASE RejectOverload(c) BY <2>3 DEF RejectOverload
  <2>4. CASE Authorize(c) BY <2>4 DEF Authorize
  <2>5. CASE RunHandler(c) BY <2>5 DEF RunHandler
  <2>6. CASE LeaveInflight(c) BY <2>6 DEF LeaveInflight
  <2>7. CASE HandleUpgrade(c) BY <2>7 DEF HandleUpgrade, ToIdle, Fresh
  <2> HIDE DEF Goto, gauges, conns, ctx, Unlogged, Writers, TypeOK, ended
  <2> QED BY Zenon, <1>2, <2>1, <2>2, <2>3, <2>4, <2>5, <2>6, <2>7 DEF Step
<1>3. ASSUME NEW c \in Conns, Reconnect(c) PROVE Unlogged
  BY <1>3 DEF Reconnect, Fresh, gauges
<1>4. CASE EnterDrain \/ UNCHANGED vars
  BY <1>4 DEF EnterDrain, vars, gauges, conns, ctx
<1>5. ASSUME NEW c \in Conns, HandleUrl(c) PROVE Unlogged
  BY <1>5 DEF HandleUrl, Arrives, Goto, gauges, NoRequest
<1> QED BY ZenonT(30), <1>1, <1>2, <1>3, <1>4, <1>5 DEF Next

\* total_requests counts every request exactly once, whichever middleware ends
\* the chain.
THEOREM TotalAccountingCorrect == Spec => []TotalAccounting
<1> USE PipelineAssumption
<1>1. Init => TotalAccounting
  <2> SUFFICES ASSUME Init PROVE TotalAccounting OBVIOUS
  <2>1. Writers = {} BY DEF Init, Writers
  <2> QED BY <2>1, FS_EmptySet DEF Init, TotalAccounting, Writers
<1>2. TypeOK /\ LoggedInv /\ TotalAccounting /\ [Next]_vars => TotalAccounting'
  <2> SUFFICES ASSUME TypeOK, LoggedInv, total_requests = answered + Cardinality(Writers),
                      [Next]_vars
               PROVE  total_requests' = answered' + Cardinality(Writers')
    BY DEF TotalAccounting, Writers
  <2>0. /\ IsFiniteSet(Writers) /\ Cardinality(Writers) \in Nat
        /\ total_requests \in Nat /\ answered \in Nat
    <3>1. Writers \in SUBSET Conns BY DEF Writers
    <3> QED BY <3>1, FS_Subset, FS_CardinalityType DEF TypeOK
  <2>1. ASSUME NEW c \in Conns, LogRequest(c)
        PROVE  total_requests' = answered' + Cardinality(Writers')
    <3>1. Writers' = Writers \cup {c} /\ c \notin Writers
      BY <2>1 DEF Writers, LogRequest, Goto, conns, LoggedInv, TypeOK
    <3>2. Cardinality(Writers \cup {c}) = Cardinality(Writers) + 1
      BY Zenon, <2>0, <3>1, FS_AddElement
    <3> QED BY <2>0, <2>1, <3>1, <3>2 DEF LogRequest, conns, ended
  <2>2. ASSUME NEW c \in Conns, WriteResponse(c) \/ DropUpgrade(c)
        PROVE  total_requests' = answered' + Cardinality(Writers')
    <3>0. /\ pc[c] = "write" /\ pc' = [pc EXCEPT ![c] = "idle"]
          /\ req' = [req EXCEPT ![c] = NoRequest]
          /\ total_requests' = total_requests
          /\ answered' = answered + (IF req[c].form = "hostless" THEN 0 ELSE 1)
      BY <2>2 DEF WriteResponse, DropUpgrade, ToIdle, Goto, gauges
    <3>1. Writers' = Writers \ {c} /\ (c \in Writers <=> req[c].form # "hostless")
      BY <3>0 DEF Writers, TypeOK
    <3>2. CASE req[c].form = "hostless"
      <4>1. Writers' = Writers BY <3>1, <3>2
      <4> QED BY <2>0, <3>0, <3>2, <4>1
    <3>3. CASE req[c].form # "hostless"
      <4>1. Cardinality(Writers \ {c}) = Cardinality(Writers) - 1
        BY Zenon, <2>0, <3>1, <3>3, FS_RemoveElement
      <4> QED BY <2>0, <3>0, <3>1, <3>3, <4>1
    <3> QED BY ZenonT(30), <3>2, <3>3
  <2>3. CASE \A c \in Conns : ~LogRequest(c) /\ ~WriteResponse(c) /\ ~DropUpgrade(c)
    BY <2>3, OthersUnlogged DEF Unlogged
  <2> QED BY <2>1, <2>2, <2>3
<1> QED BY <1>1, <1>2, LoggedInvariant, TypeCorrect, PTL DEF Spec
=============================================================================
