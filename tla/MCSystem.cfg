\* Three openings, two clicks, changes of the map, logouts, aborted sessions, no stalls: what is shown at rest.
SPECIFICATION SystemSpec
CONSTANTS
  MaxRequestId = 9
  Requests = {1, 2, 3, 4, 5, 6, 7}
  Lag = 0
  CacheCapacity = 1
  Refusals <- OneRefusal
  ConcurrentReload = FALSE
  MaxPendingSnapshots = 2
  Materials = {cloth}
  Stalls = FALSE
  Faults = {"transfer", "logout", "abort"}
  MaxOpenings = 3
  MaxUserRequests = 2
INVARIANTS WindowsAgree FreshAtRest
