\* Two islands that are served different variants of the model; nothing fails.
CONSTANTS
  w1 = w1
  w2 = w2
  plain = plain
  ahead = ahead
  NoConn = NoConn
  Workers = {w1, w2}
  Conns = {c1, c2}
  Variants = {plain, ahead}
  VariantOf <- TwoVariants
  DefaultVariant = ahead
  MaxPushes = 2
  MaxSessions = 2
  BusyRetries = 1
  ServedMax = 2
  DeltaRefresh = 1
  CheckpointEvery = 2
  FaultPlans <- NoFaults
SPECIFICATION Spec
SYMMETRY ConnSymmetry
INVARIANT DeltaExact
CHECK_DEADLOCK FALSE
