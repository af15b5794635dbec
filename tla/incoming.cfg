SPECIFICATION Spec
CONSTANTS
  Messages = {txt, img}
  Media = {img}
  Deliveries = 2
  RetryLimit = 1
  SingletonKey = FALSE
  MaxFaults = 1
  NoMessage = NoMessage
  NoRun = NoRun
  txt = txt
  img = img
INVARIANTS TypeOK MediaStoredOnce CompletedWasStored RepliesTakenOnce
CHECK_DEADLOCK FALSE
