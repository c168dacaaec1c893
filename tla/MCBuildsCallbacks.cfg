SPECIFICATION Spec
CONSTANTS
  pr1 = pr1
  pr2 = pr2
  stable = stable
  d1 = d1
  d2 = d2
  c1 = c1
  c2 = c2
  NoRequest = NoRequest
  Pipelines = {1, 2}
  TestLanes = {pr1}
  ProdLanes = {}
  MaxOrder = 0
  MaxConcurrent = 0
  Drains = {}
  TestRequests <- Immediates
  ProdRequests = {}
  Events = {"bot cancel", "run ends"}
  MaxFaults = 0
  Callers = {c1, c2}
  MaxDeliveries = 2
INVARIANTS TypeOK SucceededIsCommitted
SYMMETRY CallersSymmetry
CHECK_DEADLOCK FALSE
