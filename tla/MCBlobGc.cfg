SPECIFICATION MCSpec
CONSTANTS
  r1 = r1
  r2 = r2
  x = x
  y = y
  None = None
  Requests = {r1, r2}
  Contents = {x, y}
  MaxUploads = 1
  MaxIncidents = 1
  Metered = FALSE
  HasLimit = FALSE
  Blobs = {x}
  MaxPackages = 2
  MaxSwitches = 3
  MaxImports = 1
  MaxCases = 2
  MaxMishaps = 1
  MaxRestores = 1
  IdsAccepted = TRUE
  Scenarios = {"mixed"}
INVARIANT
  ReferencedReadable
CHECK_DEADLOCK FALSE
