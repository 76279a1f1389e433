CONSTANTS
  None = None
  Torn = Torn
  alice = alice
  bob = bob
  curl = curl
  ip1 = ip1
  ip2 = ip2
  ip3 = ip3
  Unknown = Unknown
  TrackerTrustsProxy = FALSE
  LimiterTrustsProxy = TRUE
  Handlers = {h1, h2}
  Callers <- TwoAddresses
  Limit = 1
  Window = 2
  Faults = {"kill"}
  MaxTime = 3
  MaxRequests = 3
SPECIFICATION Spec
INVARIANTS
  HistoryExact
  BurstBound
  DeclaredConsumersStayApart
PROPERTIES
  EveryRequestEnds
