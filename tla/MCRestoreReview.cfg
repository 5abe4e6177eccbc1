SPECIFICATION MCSpec
CONSTANTS
  d1 = d1
  c1 = c1
  c2 = c2
  q1 = q1
  q2 = q2
  a1 = a1
  a2 = a2
  chief = chief
  member = member
  w1 = w1
  None = None
  Devices = {d1}
  Callers = {c1, c2}
  Ids = {q1, q2}
  Operations = {"login", "webLogin", "change", "webChange", "reset", "refresh", "logout",
                "revoke", "suspend", "approval", "pairing"}
  MaxTokens = 4
  MaxEpoch = 2
  MaxIncidents = 1
  Logins = {a1, a2}
  Invitations = {q1, q2}
  Requests = {c1, c2}
  MaxUses = 2
  Policies = {"invitation", "public"}
  Credentials = {q1, q2}
  Acts = {"suspend", "resume", "grant", "demote", "delete", "register"}
  Beginnings = {"ready"}
  Pairings = {1, 2}
  Pages = {1, 2}
  MaxOpenings = 1
  MaxAnswers = 1
  MaxLosses = 1
  MaxTaken = 1
  MaxFailures = 0
  Codes = {q1, q2}
  MaxRequests = 4
  Accounts = {chief}
  Reviewer = chief
  Work = {}
  MaxCredentials = 3
  MaxSeconds = 2
  MaxCutoffs = 2
  Processes = {c1, c2}
  Editors = {chief}
  MaxRevision = 2
  MaxMishaps = 1
  Unset = None
  Scenarios = {"reviewed"}
SYMMETRY Symmetry
INVARIANTS
  ReviewedBeforeSignIn
CHECK_DEADLOCK FALSE
