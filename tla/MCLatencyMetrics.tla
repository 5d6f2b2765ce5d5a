-------------------------- MODULE MCLatencyMetrics --------------------------
(* Small instances of LatencyMetrics. *)
EXTENDS LatencyMetrics, TLC

\* Workers are interchangeable: no action or property names one.
WorkerSymmetry == Permutations(Workers)
=============================================================================
