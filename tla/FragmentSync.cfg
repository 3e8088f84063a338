\* An island of two ranks, or a replica that generates its own rollouts: one or
\* two fragments; lost calls, a server restore and a failing gate.
CONSTANTS
  Ranks = {r1, r2}
  Lead = r1
  MaxFragments = 2
  SyncEvery = 2
  Advice = {0, 3}
  MaxSteps = 6
  MaxCommits = 1
  MaxFaults <- AFewFaults
  Window = 2
  Prompts = 1
  Slots = 2
  ReplicaRuns <- SomeRuns
SPECIFICATION ClientsSpec
INVARIANTS IslandSound ExchangesSound RolloutsFresh
PROPERTIES MergesApart EverybodyEnds
CHECK_DEADLOCK FALSE
