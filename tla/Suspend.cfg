SPECIFICATION CoordLiveSpec
CONSTANTS
  Roots = {r1, r2}
  Leases = {x1, x2, x3}
  Openers = {o1}
  Drainers = {d1}
  RestartLeases = {y1, y2}
  SuspendLeases = {z1, z2}
  MaxGeneration = 2
  None = None
CHECK_DEADLOCK FALSE
INVARIANTS
  RootsAreHeld
  NoStrandedWaiter
  FencesAreOwned
  HolderIsRight
  SuspensionHasKeeper
  PausedIsClosedAndKept
PROPERTIES
  DrainIsFinal
  SuspensionEnds
  OpenerServed
