SPECIFICATION MCSpec
CONSTANTS
  invitation = invitation
  w1 = w1
  w2 = w2
  job = job
  c1 = c1
  c2 = c2
  old = old
  new = new
  r1 = r1
  r2 = r2
  r3 = r3
  Queues = {"mail", "enqueue", "jobs"}
  Messages = {invitation}
  ActionMails = {}
  Invitations = {invitation}
  Workers = {w1, w2}
  MaxAttempts = 2
  MaxFaults = 1
  MaxFreezes = 1
  None = None
  Jobs = {job}
  Callers = {c1, c2}
  JobOf <- TheirJob
  HashOf <- TheirHash
  Processes = {old, new}
  Runs = {r1, r2, r3}
  ProcessOf <- TheirProcess
  Handles <- NewOnesJob
  Attempts = 2
  MaxIncidents = 2
  Nobody = None
INVARIANTS
  TypeOK
  BodyKept
  JobsSound
PROPERTIES
  AtLeastOnceInBudget
  ReportsOwnAttempt
  JobsHandled
  QueuesDrain
