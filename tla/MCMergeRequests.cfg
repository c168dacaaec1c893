SPECIFICATION FairSpec
CONSTANTS
  app = app
  pr = pr
  other = other
  NoRequest = NoRequest
  Requests = {1, 2, 3}
  PrOf <- Submissions
  AppOf <- SameApp
  Callers = {"k1", "k2"}
  MaxRuns = 2
  MaxFaults = 1
INVARIANTS
  MergeTypeOK
  FinalizedOnce
  OwnRepository
  ClosedIsPushed
PROPERTIES
  MergeSettles
CHECK_DEADLOCK FALSE
