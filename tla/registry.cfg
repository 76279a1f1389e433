CONSTANTS
  None = None
  tools = tools
  papers = papers
  i1 = i1
  i2 = i2
  Items = {i1}
  Scores = {"low", "high"}
  Domains = {tools, papers}
  DomainOf <- ItemDomains
  ExpertiseWindow = 2
  MaxTracked = 1
  Sources = {s1}
  Covers <- OneCategory
  MinSources = 2
  MinQualifying = 2
  PromotionWindow = 2
  MinLowSignal = 2
  RetirementWindow = 2
  MaxFailures = 2
  Writers = {w1}
  Faults = {"crash", "late"}
  TakeTurns = TRUE
  MaxDay = 2
SPECIFICATION Spec
INVARIANTS
  ExpertiseEarned
PROPERTIES
  PromotionEarned
  LowSignalRetirementEarned
