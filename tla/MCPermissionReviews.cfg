SPECIFICATION FairSpec
CONSTANTS
  Builds = {1, 2}
  PushBuilds = {}
  w1 = w1
  w2 = w2
  Workers = {w1, w2}
  Targets = {"stable", "other"}
  EnabledTargets = {"stable"}
  Decisions = {"accepted", "rejected"}
  MaxAttempts = 1
  MaxDecisions = 2
  MaxEdits = 1
  MaxFaults = 1
INVARIANTS PermissionsOK ApprovalIsLastWord
PROPERTIES OlderApprovalNeverReturns ReviewShown
CHECK_DEADLOCK FALSE
