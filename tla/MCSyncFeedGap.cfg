SPECIFICATION MCSpec
CONSTANTS
  d1 = d1
  s1 = s1
  t1 = t1
  t2 = t2
  Devices = {d1}
  Transactions = {t1, t2}
  MaxSequence = 3
  MaxClock = 3
  MaxEpoch = 0
  MaxInterruptions = 1
  Retention = 2
  Patience = 1
  PruneLimit = 2
  PageSize = 2
  MaxLag = 2
  Slots = {s1}
  None = None
  Scenarios = {"catch_up"}
INVARIANTS
  NoSilentGap
