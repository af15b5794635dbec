SPECIFICATION Spec
CONSTANTS
  Messages = {txt, img}
  Media = {img}
  Deliveries = 2
  RetryLimit = 1
  SingletonKey = TRUE
  MaxFaults = 0
  NoMessage = NoMessage
  NoRun = NoRun
  txt = txt
  img = img
INVARIANT StoredOnce
CHECK_DEADLOCK FALSE
