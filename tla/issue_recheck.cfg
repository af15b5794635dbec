SPECIFICATION Spec
CONSTANTS
  Procs <- TwoProcs
  Roles <- Recheck
  Asked = {"SOLVED"}
  MaxIssues = 3
  MaxFaults = 0
INVARIANTS QuietOpenIsCurrent
CHECK_DEADLOCK FALSE
