------------------------ MODULE LatencyMetrics_proofs -----------------------
(* Proofs about LatencyMetrics, for any number of threads and durations.   *)
EXTENDS LatencyMetrics, FiniteSetTheorems, TLAPS

\* The types the compare-and-exchange loop needs.
LoopTypes ==
  /\ max \in Nat /\ slowest \in Nat
  /\ pc \in [Workers -> {"idle", "sample", "load", "test"}]
  /\ dur \in [Workers -> Nat] /\ seen \in [Workers -> Nat]

\* The inductive invariant behind MaxExact: what a worker has loaded is never
\* above the maximum, which nobody lowers.
LatencyInv ==
  /\ MaxExact
  /\ \A w \in Workers : pc[w] = "test" => seen[w] <= max

\* Every step of observe_request_duration_ms keeps them and LatencyInv: the
\* threads only ever raise the maximum, and to a duration they return with.
LEMMA LatencyStep ==
  LoopTypes /\ LatencyInv /\ [Next]_vars => LoopTypes' /\ LatencyInv'
<1> SUFFICES ASSUME LoopTypes, LatencyInv, [Next]_vars PROVE LoopTypes' /\ LatencyInv'
  OBVIOUS
<1> USE DEF LoopTypes, LatencyInv, MaxExact, Goto
<1>1. ASSUME NEW w \in Workers, AddTotal(w) PROVE LoopTypes' /\ LatencyInv'
  BY <1>1, LatencyAssumption DEF AddTotal
<1>2. ASSUME NEW w \in Workers, AddSample(w) PROVE LoopTypes' /\ LatencyInv'
  BY <1>2 DEF AddSample
<1>3. ASSUME NEW w \in Workers, LoadMax(w) PROVE LoopTypes' /\ LatencyInv'
  BY <1>3 DEF LoadMax, aggregates
<1>4. ASSUME NEW w \in Workers, LeaveLoop(w) PROVE LoopTypes' /\ LatencyInv'
  <2>1. dur[w] \in Nat /\ dur[w] <= slowest
    BY <1>4 DEF LeaveLoop
  <2>2. slowest' = slowest
    BY <1>4, <2>1 DEF LeaveLoop, Return, Larger
  <2> QED BY <1>4, <2>2 DEF LeaveLoop, Return, aggregates
<1>5. ASSUME NEW w \in Workers, ExchangeMax(w) PROVE LoopTypes' /\ LatencyInv'
  <2>1. dur[w] \in Nat /\ dur[w] > max /\ max' = dur[w] /\ dur[w] > slowest
    BY <1>5 DEF ExchangeMax
  <2>a. slowest' = Larger(slowest, dur[w])
    BY Zenon, <1>5 DEF ExchangeMax, Return
  <2>2. slowest' = max'
    BY <2>a, <2>1 DEF Larger
  <2>3. \A v \in Workers : pc[v] = "test" => seen[v] <= max'
    BY <2>1
  <2> QED BY <1>5, <2>1, <2>2, <2>3 DEF ExchangeMax, Return
<1>6. ASSUME NEW w \in Workers, ExchangeFails(w) PROVE LoopTypes' /\ LatencyInv'
  BY <1>6 DEF ExchangeFails, aggregates
<1>7. CASE Scrape \/ Finished \/ UNCHANGED vars
  BY <1>7 DEF Scrape, ScrapeSamples, ScrapeTotal, ScrapeMax, Finished, vars, aggregates, workers
<1> QED BY <1>1, <1>2, <1>3, <1>4, <1>5, <1>6, <1>7 DEF Next, Observe

\* What a thread has loaded is never above the maximum, which is exact.
LEMMA LatencyInvariant == Spec => []LatencyInv
<1>1. Init => LoopTypes /\ LatencyInv
  BY DEF Init, LoopTypes, LatencyInv, MaxExact
<1> QED BY <1>1, LatencyStep, PTL DEF Spec

\* request_duration_ms_max is the longest duration whose observation has
\* returned, for any number of threads.
THEOREM MaxExactCorrect == Spec => []MaxExact
<1>1. LatencyInv => MaxExact BY DEF LatencyInv
<1> QED BY <1>1, LatencyInvariant, PTL

-----------------------------------------------------------------------------
\* The average of /metrics

\* The durations that workers have added to the total and not yet sampled, as
\* a set with one member for each millisecond.
Unsampled == UNION {{w} \X (1..dur[w]) : w \in {v \in Workers : pc[v] = "sample"}}

\* No duration is lost between the two additions, whatever the interleaving:
\* the total is the sum of the durations sampled and of those that a worker
\* is about to sample.
DurationsAccounted == total = sampled + Cardinality(Unsampled)

\* The totals are numbers and agree.
SumInv ==
  /\ total \in Nat /\ sampled \in Nat /\ samples \in Nat
  /\ IsFiniteSet(Unsampled) /\ DurationsAccounted

\* What /metrics has read: the samples of an earlier moment, and from the
\* moment it has read the total, a total that covers them.
ReadInv ==
  /\ scrape \in {"idle", "total", "max"}
  /\ read \in [samples : Nat, total : Nat, max : Nat, sum : Nat]
  /\ read.sum <= sampled
  /\ scrape # "total" => read.sum <= read.total

\* The milliseconds of one duration.
LEMMA Milliseconds ==
  ASSUME NEW w, NEW d \in Nat
  PROVE  IsFiniteSet({w} \X (1..d)) /\ Cardinality({w} \X (1..d)) = d
<1>1. IsFiniteSet({w}) /\ Cardinality({w}) = 1
  BY Zenon, FS_Singleton
<1>2. IsFiniteSet(1..d) /\ Cardinality(1..d) = d
  BY FS_Interval
<1>3. /\ IsFiniteSet({w} \X (1..d))
      /\ Cardinality({w} \X (1..d)) = Cardinality({w}) * Cardinality(1..d)
  BY Zenon, <1>1, <1>2, FS_Product
<1>4. 1 * d = d
  OBVIOUS
<1> QED BY <1>1, <1>2, <1>3, <1>4

\* A worker that has added d to the total makes its milliseconds unsampled.
LEMMA AddUnsampled ==
  ASSUME LoopTypes, SumInv, NEW w \in Workers, NEW d \in Nat, pc[w] # "sample",
         pc' = [pc EXCEPT ![w] = "sample"], dur' = [dur EXCEPT ![w] = d]
  PROVE  IsFiniteSet(Unsampled') /\ Cardinality(Unsampled') = Cardinality(Unsampled) + d
<1> DEFINE M == {w} \X (1..d)
<1>1. Unsampled' = Unsampled \cup M
  BY DEF LoopTypes, Unsampled
<1>2. Unsampled \cap M = {}
  BY DEF Unsampled
<1>3. IsFiniteSet(M) /\ Cardinality(M) = d
  BY Zenon, Milliseconds
<1>4. Cardinality(Unsampled) \in Nat
  BY FS_CardinalityType DEF SumInv
<1> HIDE DEF M
<1>5. /\ IsFiniteSet(Unsampled \cup M)
      /\ Cardinality(Unsampled \cup M)
           = Cardinality(Unsampled) + Cardinality(M) - Cardinality(Unsampled \cap M)
  BY Zenon, <1>3, FS_Union DEF SumInv
<1>6. Cardinality(Unsampled \cap M) = 0
  BY <1>2, FS_EmptySet
<1> QED BY <1>1, <1>3, <1>4, <1>5, <1>6

\* A worker that samples its duration takes them out again.
LEMMA RemoveUnsampled ==
  ASSUME LoopTypes, SumInv, NEW w \in Workers, pc[w] = "sample",
         pc' = [pc EXCEPT ![w] = "load"], dur' = dur
  PROVE  IsFiniteSet(Unsampled') /\ Cardinality(Unsampled') = Cardinality(Unsampled) - dur[w]
<1> DEFINE M == {w} \X (1..dur[w])
<1>1. Unsampled' = Unsampled \ M
  BY DEF LoopTypes, Unsampled
<1>2. Unsampled \cap M = M
  BY DEF Unsampled
<1>3. Cardinality(M) = dur[w]
  BY Zenon, Milliseconds DEF LoopTypes
<1> HIDE DEF M
<1>4. /\ IsFiniteSet(Unsampled \ M)
      /\ Cardinality(Unsampled \ M) = Cardinality(Unsampled) - Cardinality(Unsampled \cap M)
  BY Zenon, FS_Difference DEF SumInv
<1> QED BY <1>1, <1>2, <1>3, <1>4

\* Every step keeps the two: only the two additions change the totals, and
\* /metrics reads the samples before the total.
LEMMA AverageStep ==
  LoopTypes /\ SumInv /\ ReadInv /\ [Next]_vars => SumInv' /\ ReadInv'
<1> SUFFICES ASSUME LoopTypes, SumInv, ReadInv, [Next]_vars PROVE SumInv' /\ ReadInv'
  OBVIOUS
<1>0. sampled <= total
  <2>1. Cardinality(Unsampled) \in Nat
    BY FS_CardinalityType DEF SumInv
  <2> QED BY <2>1 DEF SumInv, DurationsAccounted
<1>a. ASSUME UNCHANGED <<total, samples, sampled>>, Unsampled' = Unsampled PROVE SumInv'
  BY <1>a DEF SumInv, DurationsAccounted
<1>b. ASSUME UNCHANGED <<scrape, read>>, sampled' \in Nat, sampled <= sampled' PROVE ReadInv'
  BY <1>b DEF ReadInv, SumInv
<1>1. ASSUME NEW w \in Workers, AddTotal(w) PROVE SumInv' /\ ReadInv'
  <2>1. PICK d \in Durations : dur' = [dur EXCEPT ![w] = d] /\ total' = total + d
    BY Zenon, <1>1 DEF AddTotal
  <2>2. d \in Nat /\ pc[w] # "sample" /\ pc' = [pc EXCEPT ![w] = "sample"]
        /\ UNCHANGED <<samples, sampled, scrape, read>>
    BY <1>1, <2>1, LatencyAssumption DEF AddTotal, Goto, scraper
  <2>3. IsFiniteSet(Unsampled') /\ Cardinality(Unsampled') = Cardinality(Unsampled) + d
    BY Zenon, <2>1, <2>2, AddUnsampled
  <2>4. Cardinality(Unsampled) \in Nat
    BY FS_CardinalityType DEF SumInv
  <2>5. total' \in Nat /\ total' = sampled' + Cardinality(Unsampled')
    BY <2>1, <2>2, <2>3, <2>4 DEF SumInv, DurationsAccounted
  <2>6. SumInv'
    BY <2>2, <2>3, <2>5 DEF SumInv, DurationsAccounted
  <2> QED BY <1>b, <2>2, <2>6 DEF SumInv
<1>2. ASSUME NEW w \in Workers, AddSample(w) PROVE SumInv' /\ ReadInv'
  <2>1. /\ pc[w] = "sample" /\ pc' = [pc EXCEPT ![w] = "load"] /\ dur' = dur
        /\ dur[w] \in Nat /\ total' = total /\ sampled' = sampled + dur[w]
        /\ samples' = samples + 1 /\ UNCHANGED <<scrape, read>>
    BY <1>2 DEF AddSample, Goto, scraper, LoopTypes
  <2>2. IsFiniteSet(Unsampled') /\ Cardinality(Unsampled') = Cardinality(Unsampled) - dur[w]
    BY Zenon, <2>1, RemoveUnsampled
  <2>3. Cardinality(Unsampled) \in Nat
    BY FS_CardinalityType DEF SumInv
  <2>4. /\ samples' \in Nat /\ sampled' \in Nat /\ sampled <= sampled'
        /\ total' = sampled' + Cardinality(Unsampled')
    BY <2>1, <2>2, <2>3 DEF SumInv, DurationsAccounted
  <2>5. SumInv'
    BY <2>1, <2>2, <2>4 DEF SumInv, DurationsAccounted
  <2> QED BY <1>b, <2>1, <2>4, <2>5
<1>3. ASSUME NEW w \in Workers, LoadMax(w) \/ LeaveLoop(w) \/ ExchangeMax(w) \/ ExchangeFails(w)
      PROVE  SumInv' /\ ReadInv'
  <2>1. /\ UNCHANGED <<total, samples, sampled, dur, scrape, read>>
        /\ pc[w] # "sample" /\ \E l \in {"idle", "test"} : pc' = [pc EXCEPT ![w] = l]
    <3>1. CASE LoadMax(w)
      BY <3>1 DEF LoadMax, aggregates, scraper, Goto
    <3>2. CASE LeaveLoop(w)
      BY <3>2 DEF LeaveLoop, Return, aggregates, scraper, Goto
    <3>3. CASE ExchangeMax(w)
      BY <3>3 DEF ExchangeMax, Return, scraper, Goto
    <3>4. CASE ExchangeFails(w)
      BY <3>4 DEF ExchangeFails, aggregates, scraper, LoopTypes
    <3> QED BY <1>3, <3>1, <3>2, <3>3, <3>4
  <2>2. {v \in Workers : pc'[v] = "sample"} = {v \in Workers : pc[v] = "sample"}
    BY <2>1 DEF LoopTypes
  <2>3. Unsampled' = Unsampled
    BY <2>1, <2>2 DEF Unsampled
  <2> QED BY <1>a, <1>b, <2>1, <2>3 DEF SumInv
<1>4. CASE Scrape
  <2>1. SumInv'
    BY <1>a, <1>4 DEF Scrape, ScrapeSamples, ScrapeTotal, ScrapeMax, aggregates, workers, Unsampled
  <2>2. ASSUME ScrapeSamples PROVE ReadInv'
    <3>1. read' = [samples |-> samples, total |-> 0, max |-> 0, sum |-> sampled]
      BY Zenon, <2>2 DEF ScrapeSamples, NothingRead
    <3> QED BY <2>2, <3>1 DEF ScrapeSamples, ReadInv, SumInv
  <2>3. ASSUME ScrapeTotal PROVE ReadInv'
    BY <1>0, <2>3 DEF ScrapeTotal, ReadInv, SumInv
  <2>4. ASSUME ScrapeMax PROVE ReadInv'
    BY <2>4 DEF ScrapeMax, ReadInv, SumInv, LoopTypes
  <2> QED BY <1>4, <2>1, <2>2, <2>3, <2>4 DEF Scrape
<1>5. CASE Finished \/ UNCHANGED vars
  <2>1. UNCHANGED <<total, samples, sampled, pc, dur, scrape, read>>
    BY <1>5 DEF Finished, vars, aggregates, workers, scraper
  <2> QED BY <1>a, <1>b, <2>1 DEF Unsampled, SumInv
<1> QED BY <1>1, <1>2, <1>3, <1>4, <1>5 DEF Next, Observe

\* The same as invariants of the specification.
LEMMA AverageInvariant == Spec => [](SumInv /\ ReadInv)
<1>1. Init => LoopTypes /\ LatencyInv /\ SumInv /\ ReadInv
  <2> SUFFICES ASSUME Init PROVE LoopTypes /\ LatencyInv /\ SumInv /\ ReadInv
    OBVIOUS
  <2>1. Unsampled = {}
    BY DEF Init, Unsampled
  <2>2. SumInv
    BY <2>1, FS_EmptySet DEF Init, SumInv, DurationsAccounted
  <2> QED BY <2>2 DEF Init, LoopTypes, LatencyInv, MaxExact, ReadInv, NothingRead
<1> QED BY <1>1, LatencyStep, AverageStep, PTL DEF Spec

\* The average of /metrics never understates, for any number of threads.
THEOREM AverageCoveredCorrect == Spec => []AverageCovered
<1>1. ReadInv => AverageCovered BY DEF ReadInv, AverageCovered
<1> QED BY <1>1, AverageInvariant, PTL
=============================================================================
