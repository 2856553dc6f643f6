SPECIFICATION RecordSpec
CONSTANTS
  o1 = o1
  o2 = o2
  k1 = k1
  k2 = k2
  h1 = h1
  h2 = h2
  m1 = m1
  m2 = m2
  one = one
  Operators <- TwoOperators
  MaxInteractions = 3
  MaxPosts = 2
  Inputs <- EveryKind
  Faults <- FaultKinds
  Clerks <- TwoClerks
  Items <- TwoItems
  Unbuildable <- FirstItem
  MaxReviews = 2
  MaxExports = 1
  Hands <- TwoHands
  RankedIssues <- TwoItems
  Worthy <- FirstItem
  TopN = 1
  MaxCommands = 4
  Readers <- One
  Memories <- TwoItems
  Trust <- TrustOf
  Queries <- Matches
  MaxActivations = 2
  Limit = 2
  MaxDeaths = 1
  Curators <- TwoCurators
  Outcomes <- FirstItem
  Targets <- Asked
  MaxDreams = 2
  MaxChanges = 3
  Callers <- ThreeCallers
  ProfileOf <- AProfileEach
  ToolIssues <- FirstItem
  Grades <- TwoGrades
  Setups <- FourSetups
  MaxCalls = 3
  MaxTurns = 1
INVARIANTS
  PostNeedsGrant PostedIsOnGithub PublicFinalsAreEarned OneActivePerType
  ReviewsGatePackages HomeIsConsistent RecallIsAccounted HintsFollowTheUser ToolsKeepTheirWord
PROPERTY RecordsAreFinal
CHECK_DEADLOCK FALSE
