CONSTANTS
  Chains = {c1, c2}
  SlotLength = 3
  MaxDuration = 2
  MaxTime = 10
  None = None
  Stops = "quiet"
  Faults = {"fail", "exit", "early"}
SPECIFICATION Spec
INVARIANTS
  PublishesOncePerSlot
  PublishesPunctualSlots
PROPERTIES
  CallbackRearms
