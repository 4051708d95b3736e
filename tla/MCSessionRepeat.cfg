\* A copy of a refused request, or of a query.
SPECIFICATION Spec
CONSTANTS
  MaxRequestId = 6
  Requests = {6, 7}
  Lag = 1
  CacheCapacity = 1
  Refusals <- OneRefusal
  ConcurrentReload = FALSE
PROPERTY RepeatsBringSnapshot
