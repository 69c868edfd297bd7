SPECIFICATION LiveSpec
CONSTANTS
  Entries = {e1}
  Options <- SomeOptions
  MaxPayloads = 2
  Drains = {d1, d2}
  MaxRetries = 2
  MaxFaults = 2
  MaxCrashes = 1
  None = None
INVARIANTS
  TypeOK
  AtMostOnce
  CompletedIsSeen
  OneOutcome
PROPERTIES
  EveryEntryLeaves
CHECK_DEADLOCK FALSE
