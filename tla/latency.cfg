SPECIFICATION Spec
CONSTANTS
  Workers = {w1, w2, w3}
  Durations = {1, 2, 3}
  MaxObservations = 4
  MaxScrapes = 2
SYMMETRY WorkerSymmetry
INVARIANTS
  MaxExact
  AverageCovered
