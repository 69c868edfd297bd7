SPECIFICATION LiveSpec
CONSTANTS
  Targets = {k1, k2}
  Requests <- OneRequest
  Delays = {0}
  DefaultCoalesce = 1
  DefaultRetry = 2
  Batches = {b1, b2}
  MaxGeneration = 2
INVARIANTS
  NoStrandedWake
  OneBatchAtATime
  RetryOwed
PROPERTIES
  WakeIsServed
