SPECIFICATION FairSpec
CONSTANTS
  pr1 = pr1
  pr2 = pr2
  stable = stable
  d1 = d1
  d2 = d2
  c1 = c1
  c2 = c2
  NoRequest = NoRequest
  Pipelines = {1, 2}
  TestLanes = {pr1}
  ProdLanes = {stable}
  MaxOrder = 2
  MaxConcurrent = 1
  Drains = {d1}
  TestRequests <- MixedRequests
  ProdRequests <- Pushes
  Events = {"stale", "overdue"}
  MaxFaults = 1
  Callers = {}
  MaxDeliveries = 0
INVARIANTS LaneExclusive DispatchedOnce
PROPERTIES LeavesPending LeavesRunning StartsEnd
CHECK_DEADLOCK FALSE
