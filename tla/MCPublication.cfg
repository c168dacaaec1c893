SPECIFICATION Spec
CONSTANTS
  app = app
  Pipelines = {1, 2}
  AppOf <- OneApp
  Monitors = {"monitor"}
  Publishers = {"publisher"}
  MaxDeliveries = 1
  MaxAttempts = 1
  MaxFaults = 1
INVARIANTS
  PublishingIsOut
  SupersededForNewer
CHECK_DEADLOCK FALSE
