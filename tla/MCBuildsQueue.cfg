SPECIFICATION Spec
CONSTANTS
  pr1 = pr1
  pr2 = pr2
  stable = stable
  d1 = d1
  d2 = d2
  c1 = c1
  c2 = c2
  NoRequest = NoRequest
  Pipelines = {1, 2, 3}
  TestLanes = {pr1, pr2}
  ProdLanes = {}
  MaxOrder = 3
  MaxConcurrent = 1
  Drains = {d1}
  TestRequests <- TwoPullRequests
  ProdRequests = {}
  Events = {"moved", "drafted", "closed", "overdue"}
  MaxFaults = 0
  Callers = {}
  MaxDeliveries = 0
INVARIANTS DebouncedExclusive LatestRequestSurvives SupersededTestBuildPurged SpotCapacity
CHECK_DEADLOCK FALSE
