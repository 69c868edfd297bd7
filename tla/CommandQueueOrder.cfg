SPECIFICATION Spec
CONSTANTS
  Lanes = {main}
  ProbeLanes = {}
  Calls = {c1, c2, c3}
  Waiters = {w1}
  PriorityOptions = {"foreground", "normal", "background"}
  TimeoutOptions <- NoTimeouts
  Limits = {0, 2}
  MaxGeneration = 1
SYMMETRY CallSymmetry
CHECK_DEADLOCK FALSE
INVARIANTS
  NoIdleLane
  NoLostCall
  ActiveIsCurrent
  WaiterNeverStranded
PROPERTIES
  StartsInTurn
  KeepsPromise
