SPECIFICATION MCSpec
CONSTANTS
  outer = outer
  second = second
  note = note
  doc = doc
  u1 = u1
  c1 = c1
  c2 = c2
  x = x
  y = y
  None = None
  Inherit = Inherit
  Objects = {outer, second, note}
  Documents = {doc}
  UpdateIds = {u1, u2}
  CheckpointIds = {k1, k2}
  ConflictIds = {c1, c2}
  Names = {x, y}
  CommandIds = {1, 2, 3, 4, 5, 6}
  Sessions = {s1}
  MaxRevision = 3
  MaxUpdates = 3
  MaxSequence = 5
  Scenarios = {"tree", "docs", "names", "assets", "ledger"}
  Requests <- AllRequests
  Batches <- ThreeBatches
  MaxSends <- TheirSends
  RequiredBy <- TheSecondRequiresTheFirst
  Large = {1}
  MaxIncidents = 1
  MaxRestores = 1
INVARIANTS
  TypeOK
  DocumentRecoverable
  OneTree
  ViewsAgree
  BootstrapExact
  CommandsWhole
  LedgerSound
ACTION_CONSTRAINT IdsInOrder
CHECK_DEADLOCK FALSE
