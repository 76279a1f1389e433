CONSTANTS
  MaxSlot = 2
  Absent = Absent
  Torn = Torn
  Publishers = {p1, p2}
  Faults = {"collect", "crash"}
SYMMETRY PublisherSymmetry
SPECIFICATION Spec
INVARIANTS
  RecordedWasWritten
  RecordingsStand
PROPERTIES
  PublishedEditionStands
