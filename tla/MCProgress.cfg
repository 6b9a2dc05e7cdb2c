SPECIFICATION ProgressSpec
CONSTANTS
  p1 = p1
  p2 = p2
  Phy = {p1, p2}
  MaxPolls = 3
  FwMayFail = TRUE
  FwPrompt = FALSE
  lan = lan
  local = local
  d1 = d1
  k1 = k1
  NoDev = NoDev
  NoCopy = NoCopy
INVARIANT OwnSuccess
PROPERTIES
  SyncRestoresStep
  QueuedCleanRuns
  CallReturns
