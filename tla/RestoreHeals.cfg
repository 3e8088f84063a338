\* An RL replica with two fragments, and one restore of the server.
CONSTANTS
  Ranks = {r1, r2}
  Lead = r1
  MaxFragments = 2
  SyncEvery = 2
  Advice = {0}
  MaxSteps = 6
  MaxCommits = 0
  MaxFaults <- AFewFaults
  Window = 2
  Prompts = 1
  Slots = 2
  ReplicaRuns <- RestoredRun
SPECIFICATION ReplicaSpec
INVARIANT RestoreHeals
CHECK_DEADLOCK FALSE
