\* Both strategies; one worker and up to two learners.
CONSTANTS
  Workers = {w1}
  Learners = {l1, l2}
  l1 = l1
  l2 = l2
  Scenarios <- ThreeScenarios
  QueueSize = 1
  BufferSize = 1
  BatchGroups = 1
  MaxStaleness = 1
  MaxSyncFailures = 2
  MaxFaults = 1
SPECIFICATION Spec
INVARIANTS PoolSound StampsFresh
PROPERTY LearnersEnd
CHECK_DEADLOCK FALSE
