CONSTANTS
  Servers = {s1, s2}
  Second = s2
  Opted = {s1, s2}
  Installs = {"native", "docker", "agent"}
  Manual = {m1}
  None = None
  Limit = 1
  AutoUpdate = TRUE
  MaxRelease = 2
  MaxRuns = 2
  MaxFaults = 2
SPECIFICATION MCSpec
INVARIANTS JobHasLock RowsBehind
PROPERTIES NoNeedlessRestart RunsEnd
