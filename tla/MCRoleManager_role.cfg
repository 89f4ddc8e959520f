CONSTANTS
  None = None
  Partial = Partial
  Specs = {on, off}
  Stopping = {off}
  Putters = {p1, p2}
  Resetters = {r1}
  MaxRequests = 3
  MaxFaults = 2
  Kinds = {"docker", "native", "keepalived"}
  Drainers = {1, 2}
  MaxDrains = 3
  MaxDaemonFaults = 2
  b1 = b1
  b2 = b2
  old = old
  new = new
  Backends <- MCBackends
  Images <- MCImages
  Pools <- MCPools
SPECIFICATION MCSpec
INVARIANTS TypeOK AppliedIsHost NoLostWake OneActorOnHost ReportedRuns
PROPERTIES Converges ReportsSuccess ImplementsAgentRole Undisturbed Settles DrainsHold
