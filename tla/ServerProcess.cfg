\* The streaming path: one save at a time, with crashes and failing writes; or
\* eight servers, two tensors each, up to four pushes by two handler threads; or
\* two sessions with one slot or two that read a push; or a launcher with
\* two methods and two islands, and two troubles.
CONSTANTS
  Threads = {t1, t2}
  Files = {f1, f2, f3, f4, f5}
  NoFile = NoFile
  Torn = Torn
  Serialized = TRUE
  Every = 2
  MaxRevision = 6
  MaxFaults = 2
  Handlers = {h1, h2}
  i1 = i1
  i2 = i2
  IslandIds = {i1, i2}
  Unknown = Unknown
  One = 768
  Scenarios <- Servers
  Requests = {q1, q2}
  Nobody = Nobody
  Sizes <- TwoTensors
  MaxParts = 2
  MaxSessions = 2
  Methods <- MethodList
  IslandNames <- IslandList
  MaxTrouble = 2
SPECIFICATION MCSpec
INVARIANTS CheckpointSound CampaignSound PushesRight
PROPERTIES NeverOlder NesterovSound EverythingEnds
CHECK_DEADLOCK FALSE
