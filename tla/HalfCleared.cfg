\* Two stages, three submissions of two models, one process killed.
CONSTANTS
  Stages = {1, 2}
  Files = {1}
  Models = {a, b}
  None = None
  Torn = Torn
  Nobody = Nobody
  MaxSubmissions = 3
  MaxPublications = 1
  MaxCrashes = 1
SPECIFICATION WeightsSpec
PROPERTY Resharded
CHECK_DEADLOCK FALSE
