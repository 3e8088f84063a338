\* Two workers that must both be counted; crashes, lost pings and a server restart.
\* Two stages, three submissions of two models and two crashes: a process killed
\* while it clears, and the old model asked for again; three files of a tree
\* published three times.
CONSTANTS
  Workers = {w1, w2}
  MinReplicas = 2
  MaxBoundaries = 2
  MaxFaults <- AFewFaults
  Stages = {1, 2}
  Files = {1, 2, 3}
  Models = {a, b}
  None = None
  Torn = Torn
  Nobody = Nobody
  MaxSubmissions = 3
  MaxPublications = 3
  MaxCrashes = 2
  MaxParts = 4
  MaxSize = 3
SPECIFICATION MCSpec
INVARIANTS CohortKept NeverSolo WeightsWhole CutsFit RulesTame
PROPERTIES CountsSettle GateEnds WeightsArrive
CHECK_DEADLOCK FALSE
