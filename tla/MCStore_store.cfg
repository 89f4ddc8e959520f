SPECIFICATION MCSpec
CONSTANTS
  Servers = {1, 2}
  Sampled = {1}
  Balancers = {b1}
  Collectors = {loop, manual}
  Hour = 2
  Retain = 7
  RetainHours = 8
  Lag = 1
  Window = 2
  Gap = 2
  None = None
  MaxTime = 9
  RateTime = 2
  MaxQueries = 2
  MaxDrops = 1
  MaxEdits = 1
  MaxRestarts = 1
  Zones = {1, 2}
  Values = {v}
  Callers = {c1, c2}
  MaxRequests = 4
  MaxRows = 2
CHECK_DEADLOCK FALSE
INVARIANTS NoHourLost RateWithin ImportOnce OwnRows
PROPERTY ZoneKept
SYMMETRY Symmetry
