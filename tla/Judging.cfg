SPECIFICATION JudgingSpec
CONSTANTS
  Lanes <- FiveLanes
  RepoOf <- RepoOfEach
  TierOf <- TierOfEach
  WorthOf <- WorthOfEach
  PageLimit = 2
  EnrichLimit = 2
  FallbackLimit = 2
  TrustedLimit = 1
  RefillLimit = 1
  StageLimit = 2
  BatchSize = 2
  TimelineCandidates = 1
  CandidateBudget = 2
  MaxFeedback = 1
  SafePositions = 1
  TopPositions = 2
  TopMissing = 1
  PrimaryPerRepo = 1
  CompletedPerRepo = 2
  s1 = s1
  s2 = s2
  Screens <- TwoScreens
  Providers <- Aliyun
  SourceTtl = 0
  SnapshotTtl = 1
  MaxComments = 1
  MaxEdits = 1
  LastMinute = 1
  MaxCalls = 2
  SampleLimit = 3
  CommentLimit = 2
  CommentsLimit = 5
  NativeProviders <- BothProviders
  Requests <- TwoQuestions
  Natives <- NativeResponses
  Configurations <- ConfiguredAccounts
  Discussions <- FewComments
  Repositories <- SomeRepositories
  Statuses <- SomeStatuses
  Answers <- SomeAnswers
  Checks <- SomeChecks
INVARIANTS FeedIsCheckedAndFair JudgementsAreSound AdaptersAreSound PolicyAgreesWithItself
PROPERTY FreshFactsWin
SYMMETRY ScreenSymmetry
CHECK_DEADLOCK FALSE
