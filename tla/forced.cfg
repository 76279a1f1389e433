CONSTANTS
  Handlers = {h1, h2}
  Items = {a}
  ForcedModes = {TRUE}
  Faults = {"collect"}
  SlotLength = 1
  Grace = 0
  MaxTime = 2
  None = None
SPECIFICATION Spec
INVARIANTS
  CountsNeverInflated
PROPERTIES
  EditionsImmutable
  EveryRequestAnswered
  EveryRunSettles
