\* Rounds of three, rounds of two with faults, and the grace window with
\* faults; the prototype with three workers of two sets of paces, for nine pushes.
CONSTANTS
  w1 = w1
  w2 = w2
  w3 = w3
  Workers = {w1, w2, w3}
  Conns = {c1, c2, c3}
  NoConn = NoConn
  Batches = {b1, b2, b3}
  NoBatch = NoBatch
  Scenarios <- ThreeSettings
  Experiments <- Simulated
SPECIFICATION MCSpec
INVARIANTS RoundsSound SimSound
PROPERTY RunsEnd
CHECK_DEADLOCK FALSE
