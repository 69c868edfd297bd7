SPECIFICATION LiveSpec
CONSTANTS
  Requests = {r1, r2}
  SessionOf <- OwnSession
  Scheduled = {d1}
  Reloads = {l1}
  Solo = {x1}
  MaxEvents = 1
  MaxAuthorized = 1
  None = None
CHECK_DEADLOCK FALSE
INVARIANTS
  TypeOK
  FenceHasOwner
  SlotAlive
  PreparedIsHeld
PROPERTIES
  OtherSessionsKept
  FenceOpens
