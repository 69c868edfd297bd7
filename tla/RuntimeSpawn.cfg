SPECIFICATION AwaitingSpec
CONSTANTS
  Lanes = {"session", "main"}
  ProbeLanes = {}
  Calls = {c1, c2, c3}
  Waiters = {}
  PriorityOptions = {"normal"}
  TimeoutOptions <- NoTimeouts
  Limits = {}
  MaxGeneration = 0
  Roots = {r1, r2}
  Leases = {x1, x2}
  Openers = {}
  Drainers = {}
  RestartLeases = {}
  SuspendLeases = {}
  None = None
CHECK_DEADLOCK FALSE
PROPERTIES
  AdmittedRootMaySpawn
