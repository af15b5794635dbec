SPECIFICATION FairSpec
CONSTANTS
  Queue = "whatsapp-list"
  Jobs = {bad, empty, ok1}
  BadPhone = {bad}
  Missing <- MissingParts
  BatchSize = 1
  RetryLimit = 2
  MaxFaults = 1
  NoJob = NoJob
  bad = bad
  empty = empty
  ok1 = ok1
INVARIANT OnlyHandledJobsComplete
PROPERTIES QueuedSettles KeepsPromise
CHECK_DEADLOCK FALSE
