SPECIFICATION LiveSpec
CONSTANTS
  w1 = w1
  w2 = w2
  m1 = m1
  m2 = m2
  Identities = {1, 2}
  Works = {w1, w2}
  Mutations = {m1, m2}
  Sweeps = {s1}
  Aliases <- TwoIdentities
  Signals = {w1, m1}
  None = None
INVARIANTS
  TypeOK
  MutationAlone
  NoWorkOnGone
  IdleNeverStranded
  InterruptReaches
PROPERTIES
  EveryoneAnswered
CHECK_DEADLOCK FALSE
