SPECIFICATION GithubSpec
CONSTANTS
  t1 = t1
  t2 = t2
  Issues <- TwoIssues
  RepoOfIssue <- Repositories
  Overlay <- RepositoryA
  ProfileTrusted <- Repositories
  Gfi <- RepositoryB
  CandidateLimit <- LimitOf
  OverlayLimit = 1
  ProfileLimit = 2
  GfiLimit = 1
  TrustedMinimum = 3
  ExpandedLimit = 1
  Labels <- BeginnerLabels
  FallbackLabels <- BeginnerLabels
  Terms <- OneWord
  Keywords <- OneWord
  Pairs <- OneWord
  GlobalLimit = 1
  PageSize = 1
  SearchTtl = 0
  FallbackTtl = 1
  Budget = 2
  MaxMoves = 1
  MaxDiscoveries = 2
  LastLaneMinute = 2
  Results = 6
  PageSizes <- TwoSizes
  Exposed = 7
  MostPages = 2
  PageTtl = 1
  MaxSearches = 4
  LastPageDay = 1
  Tasks <- TwoTasks
  SpendLimit = 2
  CacheTtl = 0
  MaxNews = 1
  MaxRounds = 2
  LastTick = 1
  Worlds <- SomeWorlds
  EventsPerPage = 1
  TimelinePages <- PerDepth
  PullLimit <- PerDepth
INVARIANTS PagesAreComplete EnrichmentIsHonest AvailabilityIsHonest
PROPERTY LanesHonourAgeAndLimit
CHECK_DEADLOCK FALSE
SYMMETRY GithubSymmetry
