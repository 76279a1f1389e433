SPECIFICATION Spec
CONSTANTS
  Records <- MCRecords
  Relevant <- MCRelevant
  AdapterOrder <- MCAdapterOrder
  JobsOf <- MCJobsOf
  Prerequisites <- MCPrerequisites
  Listings <- MCListings
  Limit <- MCLimit
  PageSize <- MCPageSize
  MaxRetries <- MCMaxRetries
  Waits = {0, 1, 2}
  MaxFaults = 1
  Deadline = 1
  Horizon = 1
  Required = {}
  Facts <- MCFacts
  CanonicalOrder <- MCCanonicalOrder
  SourceAuthority <- MCSourceAuthority
  Probationary = {site}
  Metrics <- MCMetrics
  Weights <- MCWeights
  GitHubWeights <- MCGitHubWeights
  Saturation <- MCSaturation
  LogScore <- MCLogScore
  MinRelevance = 60
  MinimumAuthority <- MCMinimumAuthority
  HistoryItems <- MCHistoryItems
  Links <- MCLinks
  RepoName <- MCRepoName
  Repositories = {A, B}
  Dois = {}
  Social = {atPost}
  CommonTokens = {agent}
  LongTokens = {}
  None = None
  A = A  B = B  P = P  blue = blue  red = red  agent = agent  kit = kit
  atA = atA  atB = atB  atPost = atPost  atPage = atPage  atPaper = atPaper
  repoA = repoA  repoB = repoB  post = post  page = page  paper = paper  offTopic = offTopic
  term = term  trending = trending  feed = feed  subreddit = subreddit  site = site
INVARIANT CuratedItemsArePublished
CHECK_DEADLOCK FALSE
