CONSTANTS
  Rewrites = {r1}
  Lists = {l1}
  Addresses = {a1}
  Services = {s1, s2}
  Filters = {u1}
  Blocklists = {u1}
  FilterRows = {{}, {"on"}, {"off"}}
  Flags = {"prune", "upstreams", "filtering"}
  Manual = {m1}
  None = None
  Row = Row
  MaxManual = 1
  MaxEdits = 1
  MaxFaults = 2
SPECIFICATION MCSpec
INVARIANTS OnePassPerServer InSyncTruthful
PROPERTIES OnlyWhatWasAsked Converges
