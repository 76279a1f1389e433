CONSTANTS
  None = None
  tools = tools
  papers = papers
  i1 = i1
  i2 = i2
  Items = {i1}
  Scores = {"high"}
  Domains = {tools, papers}
  DomainOf <- ItemDomains
  ExpertiseWindow = 2
  MaxTracked = 1
  Sources = {s1, s2}
  Covers <- OneCategory
  MinSources = 2
  MinQualifying = 1
  PromotionWindow = 1
  MinLowSignal = 1
  RetirementWindow = 1
  MaxFailures = 1
  Writers = {w1, w2}
  Faults = {"crash", "late"}
  TakeTurns = TRUE
  MaxDay = 1
SYMMETRY SourceSymmetry
VIEW RegistryView
SPECIFICATION Spec
PROPERTIES
  RetirementKeepsCoverage
