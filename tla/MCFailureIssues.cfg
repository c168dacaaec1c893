SPECIFICATION Spec
CONSTANTS
  Runs = {1, 2, 3}
  Retriers = {"t1"}
  MaxUser = 2
  MaxFaults = 2
INVARIANTS IssueTypeOK OneOpenIssue LastResultStands RetryBuildsReported
CHECK_DEADLOCK FALSE
