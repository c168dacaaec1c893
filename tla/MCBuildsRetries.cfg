SPECIFICATION Spec
CONSTANTS
  pr1 = pr1
  pr2 = pr2
  stable = stable
  d1 = d1
  d2 = d2
  c1 = c1
  c2 = c2
  NoRequest = NoRequest
  Pipelines = {1, 2}
  TestLanes = {}
  ProdLanes = {stable}
  MaxOrder = 0
  MaxConcurrent = 0
  Drains = {}
  TestRequests = {}
  ProdRequests <- PushesAndRetries
  Events = {"run ends", "stale", "overdue"}
  MaxFaults = 1
  Callers = {c1}
  MaxDeliveries = 1
INVARIANT RunningIsStarted
CHECK_DEADLOCK FALSE
