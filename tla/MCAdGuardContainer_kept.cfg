SPECIFICATION MCSpec
CONSTANTS
  lo = lo
  lan = lan
  first = first
  bad = bad
  None = None
  Kinds = {"docker", "native"}
  Addresses <- MCAddresses
  Specs <- MCSpecs
  Ids <- MCIds
  Broken <- MCBroken
  First = first
  MaxEvents = 3
  Callers = {"cycle", "operator"}
  Pushers = {"operator"}
  Builds = {1, 2}
  Empty = Empty
  Mixed = Mixed
  MaxReleases = 2
  MaxPushes = 1
  MaxFaults = 2
  Parts = {"container"}
PROPERTY PreviousKept
CHECK_DEADLOCK FALSE
