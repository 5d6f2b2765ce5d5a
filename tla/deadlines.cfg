SPECIFICATION FairSpec
CONSTANTS
  Conns = {a, b, c}
  Timeout = 1
  MaxReads = 2
INVARIANTS
  TasksCurrent
  OwnDeadline
  LongestSilentFirst
PROPERTY
  SilentEnds
