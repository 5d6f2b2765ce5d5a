--------------------------- MODULE LatencyMetrics ---------------------------
(***************************************************************************)
(* The latency aggregates of metrics.h: LoggingMiddleware calls            *)
(* observe_request_duration_ms on every worker thread at the end of a      *)
(* request, and /metrics reads the aggregates one by one meanwhile.  Each  *)
(* access to an atomic is a step.                                          *)
(***************************************************************************)
EXTENDS Integers, FiniteSets

CONSTANTS
  Workers,          \* threads that finish requests
  Durations,        \* durations in milliseconds
  MaxObservations,  \* bound: requests that are observed
  MaxScrapes        \* bound: requests of /metrics

ASSUME LatencyAssumption ==
  /\ IsFiniteSet(Workers) /\ Durations \subseteq Nat
  /\ MaxObservations \in Nat /\ MaxScrapes \in Nat

VARIABLES
  total, samples, max,  \* request_duration_ms_total, _samples, _ms_max
  pc, dur, seen,        \* a worker's place in the call, duration_ms, current_max
  scrape, read,         \* the place of /metrics, and what it has loaded
  begun, scrapes,       \* bounded by MaxObservations and MaxScrapes
  slowest,              \* history: longest duration whose call has returned
  sampled               \* history: sum of the durations in samples

aggregates == <<total, samples, max>>
workers == <<pc, dur, seen, begun>>
scraper == <<scrape, read, scrapes>>
vars == <<aggregates, workers, scraper, slowest, sampled>>

NothingRead == [samples |-> 0, total |-> 0, max |-> 0, sum |-> 0]

Init ==
  /\ total = 0 /\ samples = 0 /\ max = 0
  /\ pc = [w \in Workers |-> "idle"]
  /\ dur = [w \in Workers |-> 0] /\ seen = [w \in Workers |-> 0]
  /\ scrape = "idle" /\ read = NothingRead
  /\ begun = 0 /\ scrapes = 0
  /\ slowest = 0 /\ sampled = 0

Goto(w, label) == pc' = [pc EXCEPT ![w] = label]

Larger(a, b) == IF a > b THEN a ELSE b

\* The call of w returns.
Return(w) == Goto(w, "idle") /\ slowest' = Larger(slowest, dur[w])

-----------------------------------------------------------------------------
\* observe_request_duration_ms

\* A duration is observed: it is added to the total,
AddTotal(w) == \E d \in Durations :
  /\ pc[w] = "idle"
  /\ begun < MaxObservations
  /\ begun' = begun + 1
  /\ dur' = [dur EXCEPT ![w] = d]
  /\ total' = total + d
  /\ Goto(w, "sample")
  /\ UNCHANGED <<samples, max, seen, scraper, slowest, sampled>>

\* ... the number of samples is raised,
AddSample(w) ==
  /\ pc[w] = "sample"
  /\ samples' = samples + 1
  /\ sampled' = sampled + dur[w]
  /\ Goto(w, "load")
  /\ UNCHANGED <<total, max, dur, seen, begun, scraper, slowest>>

\* ... the maximum is loaded,
LoadMax(w) ==
  /\ pc[w] = "load"
  /\ seen' = [seen EXCEPT ![w] = max]
  /\ Goto(w, "test")
  /\ UNCHANGED <<aggregates, dur, begun, scraper, slowest, sampled>>

\* ... and the loop ends when it is large enough,
LeaveLoop(w) ==
  /\ pc[w] = "test"
  /\ dur[w] <= seen[w]
  /\ Return(w)
  /\ UNCHANGED <<aggregates, dur, seen, begun, scraper, sampled>>

\* Mutant: a plain store, which overwrites what others have stored meanwhile.
StoreMax(w) ==
  /\ pc[w] = "test"
  /\ dur[w] > seen[w]
  /\ max' = dur[w]
  /\ Return(w)
  /\ UNCHANGED <<total, samples, dur, seen, begun, scraper, sampled>>

\* ... or when compare_exchange_weak finds the maximum as it was loaded.
ExchangeMax(w) ==
  /\ pc[w] = "test"
  /\ dur[w] > seen[w]
  /\ max = seen[w]
  /\ max' = dur[w]
  /\ Return(w)
  /\ UNCHANGED <<total, samples, dur, seen, begun, scraper, sampled>>

\* compare_exchange_weak fails, without cause too, and loads the maximum.
ExchangeFails(w) ==
  /\ pc[w] = "test"
  /\ dur[w] > seen[w]
  /\ seen' = [seen EXCEPT ![w] = max]
  /\ UNCHANGED <<aggregates, pc, dur, begun, scraper, slowest, sampled>>

-----------------------------------------------------------------------------
\* /metrics, as far as it reads the aggregates

ScrapeSamples ==
  /\ scrape = "idle"
  /\ scrapes < MaxScrapes
  /\ scrapes' = scrapes + 1
  /\ scrape' = "total"
  /\ read' = [NothingRead EXCEPT !.samples = samples, !.sum = sampled]
  /\ UNCHANGED <<aggregates, workers, slowest, sampled>>

ScrapeTotal ==
  /\ scrape = "total"
  /\ scrape' = "max"
  /\ read' = [read EXCEPT !.total = total]
  /\ UNCHANGED <<aggregates, workers, scrapes, slowest, sampled>>

\* Mutant: the average divides by a second load of the samples.
ScrapeMaxReloads ==
  /\ scrape = "max"
  /\ scrape' = "idle"
  /\ read' = [read EXCEPT !.max = max, !.samples = samples, !.sum = sampled]
  /\ UNCHANGED <<aggregates, workers, scrapes, slowest, sampled>>

ScrapeMax ==
  /\ scrape = "max"
  /\ scrape' = "idle"
  /\ read' = [read EXCEPT !.max = max]
  /\ UNCHANGED <<aggregates, workers, scrapes, slowest, sampled>>

Observe(w) ==
  \/ AddTotal(w) \/ AddSample(w) \/ LoadMax(w)
  \/ LeaveLoop(w) \/ ExchangeMax(w) \/ ExchangeFails(w)

Scrape == ScrapeSamples \/ ScrapeTotal \/ ScrapeMax

\* The bounds are used up and nobody is working.
Finished ==
  /\ begun = MaxObservations /\ scrapes = MaxScrapes
  /\ scrape = "idle" /\ \A w \in Workers : pc[w] = "idle"
  /\ UNCHANGED vars

Next == (\E w \in Workers : Observe(w)) \/ Scrape \/ Finished

Spec == Init /\ [][Next]_vars

-----------------------------------------------------------------------------
\* request_duration_ms_max is at every moment the longest duration whose
\* observation has returned: no two threads of the compare-and-exchange loop
\* lose a maximum, lower it, or store one that was not observed.
MaxExact == max = slowest

\* The average of /metrics never understates: the total it divides holds the
\* durations of all the samples it divides by, since a worker adds to the
\* total first and /metrics loads it last.
AverageCovered == scrape = "idle" => read.total >= read.sum
=============================================================================
