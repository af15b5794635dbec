SPECIFICATION Spec
CONSTANTS
  Queue = "whatsapp-document"
  Jobs = {bad, empty, ok1}
  BadPhone = {bad}
  Missing <- MissingParts
  BatchSize = 2
  RetryLimit = 2
  MaxFaults = 1
  NoJob = NoJob
  bad = bad
  empty = empty
  ok1 = ok1
INVARIANTS TypeOK DuplicatesBounded CompletedShowsDelivered DeadLettersAreFinal
PROPERTY DroppedOnlyBehindBadPhone
CHECK_DEADLOCK FALSE
