SPECIFICATION Spec
CONSTANTS
  Queue = "whatsapp-image"
  Jobs = {bad, ok1}
  BadPhone = {bad}
  Missing <- MissingParts
  BatchSize = 2
  RetryLimit = 2
  MaxFaults = 0
  NoJob = NoJob
  bad = bad
  empty = empty
  ok1 = ok1
INVARIANT OnlyHandledJobsComplete
CHECK_DEADLOCK FALSE
