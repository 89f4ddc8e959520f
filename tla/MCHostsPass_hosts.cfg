SPECIFICATION MCSpec
CONSTANTS
  Roles = {"adguard", "dnsdist", "keepalived"}
  Modes = {"dnsdist", "ipvs"}
  None = None
  Partial = Partial
  MaxEdits = 1
  MaxManual = 1
  MaxFaults = 1
INVARIANT BalancerInSync
PROPERTIES HostConverges RowsFollow
