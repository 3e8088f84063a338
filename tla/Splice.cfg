\* Three stages, three requests of one or two tokens, one engine slot fewer
\* than requests; lockstep, one wave and two waves.
CONSTANTS
  r1 = r1
  r2 = r2
  r3 = r3
  Requests = {r1, r2, r3}
  MaxTokens <- OneOfTwo
  Modes = {0, 1, 2}
  LastStage = 2
  Cap = 2
  MaxIncidents <- OneBut1
  MaxFrames = 4
SPECIFICATION Spec
INVARIANT StepsAgree
PROPERTIES TokensTrue RequestsServed
CHECK_DEADLOCK FALSE
