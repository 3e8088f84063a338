\* Liveness: a server restart and a worker restart, one session slot.
CONSTANTS
  w1 = w1
  w2 = w2
  plain = plain
  ahead = ahead
  NoConn = NoConn
  Workers = {w1, w2}
  Conns = {c1, c2, c3}
  Variants = {plain}
  VariantOf <- OneVariant
  DefaultVariant = plain
  MaxPushes = 1
  MaxSessions = 1
  BusyRetries = 1
  ServedMax = 2
  DeltaRefresh = 2
  CheckpointEvery = 2
  FaultPlans <- Restarts
SPECIFICATION FairSpec

PROPERTY TrainingCompletes
CHECK_DEADLOCK FALSE
