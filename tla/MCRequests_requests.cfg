SPECIFICATION MCSpec
CONSTANTS
  Servers = {s1, s2}
  Zones = {z1}
  Fleet = Fleet
  Scopes = {Fleet, z1}
  Clients = {c1, c2}
  Second = c2
  Zoned = s1
  Ttl = 1
  None = None
  MaxWrites = 1
  MaxOwn = 1
  MaxEdits = 1
  t1 = t1
  t2 = t2
  Tokens <- MCTokens
  Roles <- MCRoles
  Ids = {1, 2}
  Keys = {1, 2, 3, 4, 5, 6, 7, 8}
  MaxRequests = 2
  MaxFaults = 1
  MaxAges = 2
  Parts = {"shared", "edited", "enrolling", "renewing", "sharing"}
CHECK_DEADLOCK FALSE
INVARIANTS UsedOnce BootsAgain RowNotAhead
PROPERTIES LoadsShared Answered ScopesSettle Renewed
