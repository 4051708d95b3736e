\* Two openings, one click, answers as late as they like: what is shown, and for how long.
SPECIFICATION SystemSpec
CONSTANTS
  MaxRequestId = 8
  Requests = {1, 2, 3, 4}
  Lag = 0
  CacheCapacity = 1
  Refusals <- OneRefusal
  ConcurrentReload = FALSE
  MaxPendingSnapshots = 2
  Materials = {cloth, herb}
  Stalls = TRUE
  Faults = {"transfer", "logout", "abort", "leave", "interface", "popup"}
  MaxOpenings = 2
  MaxUserRequests = 1
INVARIANTS ViewIsWhole PendingIsAwaited OldOnlyAfterMiss
