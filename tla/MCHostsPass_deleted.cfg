SPECIFICATION MCSpec
CONSTANTS
  Roles = {"adguard", "dnsdist"}
  Modes = {"dnsdist"}
  None = None
  Partial = Partial
  MaxEdits = 1
  MaxManual = 0
  MaxFaults = 1
PROPERTY DeletedBalancerStops
