\* A ring of six, a cache of two, requests that pass the end of the ring.
SPECIFICATION Spec
CONSTANTS
  MaxRequestId = 6
  Requests = {5, 6, 7, 8}
  Lag = 3
  CacheCapacity = 2
  Refusals <- OneRefusal
  ConcurrentReload = TRUE
INVARIANTS TypeOK OpenIsPaid
PROPERTIES AtMostOnce RepeatsAgree SnapshotsLabelled
