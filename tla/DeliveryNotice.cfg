SPECIFICATION NoticeSpec
CONSTANTS
  Entries = {e1}
  Options <- NoticeOptions
  MaxPayloads = 1
  Drains = {d1}
  MaxRetries = 2
  MaxFaults = 0
  MaxCrashes = 1
  MaxAttempts = 2
  None = None
INVARIANTS
  NoBlindReplay
CHECK_DEADLOCK FALSE
