SPECIFICATION Spec
CONSTANTS
  MaxRows = 3
  MaxOverlaps = 1
  MaxFailures = 2
  Firsts = {m1, m2, m3}
  MaxRetried = 1
  Replies = {r1, r2, r3}
  MaxIssues = 3
  MaxLists = 2
INVARIANTS
  TypeOK
  UnreadShowsWaiting
  CustomerGets
  BotTalksOver
  CasesNeedOverlap
  StoredUnderIssue
  OneOrphanPerCase
  RatedSinceList
  OneRatingPerList
CHECK_DEADLOCK FALSE
