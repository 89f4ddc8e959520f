SPECIFICATION Spec
CONSTANTS
  b1 = b1
  b2 = b2
  old = old
  new = new
  None = None
  Kinds = {"keepalived"}
  Backends <- MCBackends
  Images <- MCImages
  Specs <- MCSpecs
  Handlers = {1}
  MaxRequests = 2
  MaxFaults = 1
INVARIANT RestartedOnChange
