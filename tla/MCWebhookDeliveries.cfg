SPECIFICATION FairSpec
CONSTANTS
  Handlers = {1, 2}
  Reconcilers = {"r1"}
  MaxPushes = 3
  MaxPulls = 3
  MaxFaults = 2
  MaxMoves = 4
  MaxAttempts = 2
  Limit = 2
INVARIANTS ReconcilerTypeOK BuiltOnce NoNeedlessTest
PROPERTIES HeadBuilt HeadTested
CHECK_DEADLOCK FALSE
