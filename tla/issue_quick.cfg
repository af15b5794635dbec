SPECIFICATION Spec
CONSTANTS
  Procs <- TwoProcs
  Roles <- QuickMessages
  Asked = {"SOLVED"}
  MaxIssues = 3
  MaxFaults = 0
PROPERTIES OpensOnlyIfNone
CHECK_DEADLOCK FALSE
