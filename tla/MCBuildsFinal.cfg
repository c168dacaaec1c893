SPECIFICATION Spec
CONSTANTS
  pr1 = pr1
  pr2 = pr2
  stable = stable
  d1 = d1
  d2 = d2
  c1 = c1
  c2 = c2
  NoRequest = NoRequest
  Pipelines = {1, 2}
  TestLanes = {pr1}
  ProdLanes = {}
  MaxOrder = 2
  MaxConcurrent = 0
  Drains = {d1}
  TestRequests <- PullRequests
  ProdRequests = {}
  Events = {"run ends"}
  MaxFaults = 0
  Callers = {c1}
  MaxDeliveries = 1
PROPERTIES FinalStaysFinal
CHECK_DEADLOCK FALSE
