CONSTANTS
  Handlers = {h1, h2}
  Items = {a}
  ForcedModes = {FALSE}
  Faults = {"collect", "reject", "lost", "crash"}
  SlotLength = 2
  Grace = 0
  MaxTime = 4
  None = None
SYMMETRY HandlerSymmetry
SPECIFICATION Spec
INVARIANTS
  TypeOK
  SlotLock
  RunNamesStoredEdition
  RunNamesOwnEdition
  PublishedReplyIsDurable
  CountsExact
PROPERTIES
  ImplementsArchive
