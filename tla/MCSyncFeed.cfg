SPECIFICATION MCSpec
CONSTANTS
  d1 = d1
  s1 = s1
  t1 = t1
  t2 = t2
  Devices = {d1}
  Transactions = {t1}
  MaxSequence = 2
  MaxClock = 3
  MaxEpoch = 1
  MaxInterruptions = 1
  Retention = 2
  Patience = 1
  PruneLimit = 1
  PageSize = 1
  MaxLag = 1
  Slots = {s1}
  None = None
  Scenarios = {"catch_up", "restored"}
INVARIANTS
  TypeOK
PROPERTIES
  Delivered
  CursorsKept
  MCCaughtUp
