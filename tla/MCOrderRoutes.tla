--------------------------- MODULE MCOrderRoutes ---------------------------
(* Instances of OrderRoutes for TLC. *)
EXTENDS CacheCoherence, TLC

\* Workers are interchangeable: no action or safety property names one.
WorkerSymmetry == Permutations(Workers)
=============================================================================
