SPECIFICATION RuntimeLiveSpec
CONSTANTS
  Lanes = {"cron", "session", "main", "cron-nested"}
  ProbeLanes = {}
  Calls = {c1, c2, c3, c4}
  Waiters = {}
  PriorityOptions = {"normal"}
  TimeoutOptions <- NoTimeouts
  Limits = {}
  MaxGeneration = 0
  Roots = {}
  Leases = {}
  Openers = {}
  Drainers = {}
  RestartLeases = {}
  SuspendLeases = {}
  None = None
CHECK_DEADLOCK FALSE
PROPERTIES
  NestedWorkSettles
