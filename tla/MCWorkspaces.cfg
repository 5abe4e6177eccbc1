SPECIFICATION MCSpec
CONSTANTS
  ann = ann
  bob = bob
  None = None
  a1 = a1
  a2 = a2
  b = b
  MaxWorkspaces = 3
  Creatable = {1, 2, 3}
  Limit = 2
  CreationKeys = {"k"}
  DefaultKey = "default"
  Versions = {1}
  Rekeyed = {}
  Batch = 3
  Placed = {}
  MaxActions = 0
  MaxFailures = 1
  People = {ann, bob}
  Owner = "owner"
  Capabilities = {"invite", "update", "remove"}
  Invitations = {1}
  Callers = {1, 2}
  Sockets = {a1, a2, b}
  Opened = {a1, a2, b}
  DeviceOf <- Device
  Documents = {1}
  Types = {"presence.update"}
  Rechecked = {}
  MaxMessages = 2
  MaxCommits = 0
  MaxStalls = 0
  Scenarios = {"lifecycle", "operated", "keys", "members", "cursors", "reconnect", "followers", "waking", "authority", "page"}
INVARIANTS
  MCTypeOK
  LibrariesSound
  RealtimeSound
PROPERTIES
  MembershipSound
  LibrariesSettle
  ConnectionsEnd
CHECK_DEADLOCK FALSE
