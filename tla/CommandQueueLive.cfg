SPECIFICATION LoopSpec
CONSTANTS
  Lanes = {main}
  ProbeLanes = {}
  Calls = {c1, c2}
  Waiters = {}
  PriorityOptions = {"normal"}
  TimeoutOptions <- GlobalLaneOptions
  Limits = {2}
  MaxGeneration = 1
CHECK_DEADLOCK FALSE
PROPERTIES
  AbortedIsReleased
  EverySettles
