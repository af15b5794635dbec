SPECIFICATION Spec
CONSTANTS
  Procs <- TwoProcs
  Roles <- Settings
  Asked = {"SOLVED"}
  MaxIssues = 3
  MaxFaults = 1
INVARIANTS TypeOK CurrentIssueIsOpen OrphansBounded StatusLogAgrees ActiveIsOpen
CHECK_DEADLOCK FALSE
