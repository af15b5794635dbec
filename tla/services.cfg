SPECIFICATION Spec
CONSTANTS
  Day = 3
  Offset = 1
  Four = 1
  Instances = {i1, i2}
  Chats = {c1, c2}
  MaxClock = 5
  MaxSaid = 2
  MaxEvents = 3
  MaxRuns = 2
  Workers = {w1, w2, w3}
  Limit = 2
  RateWindow = 2
  MaxTime = 4
  Rows = {r1, r2, r3, r4}
  PageSize = 2
  MaxStamp = 2
  MaxMoves = 2
  Codes = {o1, o2}
  Resets = {p1, p2}
  NoCode = NoCode
  Tickets = {t1}
  Servers = {s1, s2}
  HoursOfDay = 2
  MaxHour = 2
  MaxMarks = 1
  MaxBackfills = 1
INVARIANTS
  TypeOK
  SummariesFit
  FallbackCountsFit
  ExpiredOncePerDay
  OneMarkerPerExpiry
  LimitKept
  PagesFit
  CodesHold
  CountedOnce
SYMMETRY Symmetry
CHECK_DEADLOCK FALSE
