SPECIFICATION FairSpec
CONSTANTS
  b1 = b1
  b2 = b2
  old = old
  new = new
  None = None
  Kinds = {"docker", "native", "keepalived"}
  Backends <- MCBackends
  Images <- MCImages
  Specs <- MCSpecs
  Handlers = {1}
  MaxRequests = 4
  MaxFaults = 0
PROPERTY UndrainedServes
