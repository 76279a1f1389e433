SPECIFICATION Spec
CONSTANTS
  Items = {changing, fixed}
  Category <- MCCategory
  Rank <- MCRank
  Contents <- MCContents
  Matching <- MCMatching
  Refusals <- MCRefusals
  Queries <- MCQueries
  MinRecurringEditions = 2
  Window = 2
  MinEditions = 2
  MinClusters = 2
  RelaxedClusters = 1
  MinScore = 60
  MinActiveSources = 2
  Horizon = 5
  MaxDelay = 0
  MaxEditions = 4
  MaxItems = 4
  MaxCrashes = 1
  None = None
  changing = changing  fixed = fixed  tools = tools
INVARIANTS DurableItemsStayInReach NothingMissedSilently ToldOnceUnlessCrashed ExclusionReadsAgree
