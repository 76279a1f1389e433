\* Six items in up to five editions, a day or more than a week apart.
CONSTANTS
  id1 = id1
  id2 = id2
  id3 = id3
  None = None
  Ids = {id1, id2, id3}
  IdOrder <- ThreeIds
  Gaps = {1, 8}
  MaxPerEdition = 2
  MaxItems = 6
  MaxEditions = 5
  Horizon = 18
SPECIFICATION Spec
PROPERTIES LineageStays MergesStayEnding RebuildAgrees NewsBecomesActive RefusalsExplained ResponsesAgree
ACTION_CONSTRAINT IdsInOrder
\* The last edition of a run is the last.
CHECK_DEADLOCK FALSE
