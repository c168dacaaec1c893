SPECIFICATION LiveSpec
CONSTANTS
  app = app
  Pipelines = {1, 2}
  AppOf <- OneApp
  Monitors = {"monitor"}
  Publishers = {"publisher"}
  MaxDeliveries = 2
  MaxAttempts = 2
  MaxFaults = 0
INVARIANTS
  PublicationTypeOK
  FailedIsBroken
PROPERTY Settles
CHECK_DEADLOCK FALSE
