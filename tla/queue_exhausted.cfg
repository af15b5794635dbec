SPECIFICATION Spec
CONSTANTS
  Queue = "whatsapp-text"
  Jobs = {ok1}
  BadPhone = {}
  Missing <- MissingParts
  BatchSize = 1
  RetryLimit = 2
  MaxFaults = 0
  NoJob = NoJob
  bad = bad
  empty = empty
  ok1 = ok1
INVARIANT FailedWasDeadLettered
CHECK_DEADLOCK FALSE
