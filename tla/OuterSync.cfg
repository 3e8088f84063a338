\* One failed call; or a server that restarts from its checkpoint, and one failed save.
CONSTANTS
  w1 = w1
  w2 = w2
  plain = plain
  ahead = ahead
  NoConn = NoConn
  Workers = {w1, w2}
  Conns = {c1, c2, c3}
  Variants = {plain}
  VariantOf <- OneVariant
  DefaultVariant = plain
  MaxPushes = 2
  MaxSessions = 2
  BusyRetries = 1
  ServedMax = 2
  DeltaRefresh = 1
  CheckpointEvery = 2
  FaultPlans <- CallOrRestore
SPECIFICATION Spec
SYMMETRY ConnSymmetry
INVARIANTS AtMostOnce SnapshotFaithful RejectOnlyAfterRestore HeldSound
PROPERTIES BaselineAdvances PushLogSpec
CHECK_DEADLOCK FALSE
