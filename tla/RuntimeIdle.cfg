SPECIFICATION RuntimeSpec
CONSTANTS
  Lanes = {"session", "main"}
  ProbeLanes = {}
  Calls = {c1, c2}
  Waiters = {}
  PriorityOptions = {"normal"}
  TimeoutOptions <- NoTimeouts
  Limits = {}
  MaxGeneration = 2
  Roots = {r1, r2}
  Leases = {x1, x2}
  Openers = {}
  Drainers = {}
  RestartLeases = {y1}
  SuspendLeases = {z1}
  None = None
SYMMETRY RuntimeSymmetry
CHECK_DEADLOCK FALSE
INVARIANTS
  PreparedIsIdle
