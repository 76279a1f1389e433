CONSTANTS
  None = None
  Torn = Torn
  alice = alice
  bob = bob
  curl = curl
  ip1 = ip1
  ip2 = ip2
  ip3 = ip3
  Unknown = Unknown
  TrackerTrustsProxy = FALSE
  LimiterTrustsProxy = FALSE
  Handlers = {h1, h2}
  Callers <- SharedAddress
  Limit = 1
  Window = 2
  Faults = {}
  MaxTime = 0
  MaxRequests = 3
SPECIFICATION Spec
INVARIANT ConcurrentRequestsKeepHistory
