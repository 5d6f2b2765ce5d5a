SPECIFICATION Spec
CONSTANTS
  Conns = {c1}
  Workers = {w1}
  Limits = {1}
  Routes = {"order", "none"}
  Forms = {"plain"}
  MaxRequests = 3
INVARIANT
  DurationMeasured
