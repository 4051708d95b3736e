\* Two openings, one click: what client and server come to when messages are delivered.
SPECIFICATION FairSpec
CONSTANTS
  MaxRequestId = 8
  Requests = {1, 2, 3, 4}
  Lag = 0
  CacheCapacity = 1
  Refusals <- OneRefusal
  ConcurrentReload = FALSE
  MaxPendingSnapshots = 2
  Materials = {cloth}
  Stalls = FALSE
  Faults = {"abort", "leave", "reload", "logout"}
  MaxOpenings = 2
  MaxUserRequests = 1
INVARIANTS DisabledIsClosed
PROPERTIES ClosedWindowClosesContext ChangesAreShown
