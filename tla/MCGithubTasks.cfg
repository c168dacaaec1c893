SPECIFICATION FairSpec
CONSTANTS
  Tasks = {"t1", "t2"}
  Workers = {"w1", "w2"}
  Limit = 2
  MaxAttempts = 2
  MaxFaults = 2
INVARIANTS
  TaskTypeOK
  RepeatedByFaults
  AttemptsBounded
PROPERTIES
  TasksSettle
  Delivery
CHECK_DEADLOCK FALSE
