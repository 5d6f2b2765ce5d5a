SPECIFICATION FairSpec
CONSTANTS
  Conns = {c1, c2}
  Workers = {w1, w2}
  Limits = {1, 2}
  Routes = {"order", "probe", "none"}
  Forms = {"plain", "hostless", "upgrade"}
  MaxRequests = 4
INVARIANTS
  TypeOK
  LateRejected
  TotalAccounting
  GaugeDrift
  AdmissionLimit
  OverloadNeedsThreads
  PipelineInv
PROPERTIES
  DrainShrinks
  Drained
