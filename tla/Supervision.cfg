SPECIFICATION SupervisionSpec
CONSTANTS
  r1 = r1
  r2 = r2
  s1 = s1
  s2 = s2
  w1 = w1
  w2 = w2
  k1 = k1
  steer = steer
  noThread = noThread
  NoThread <- noThread
  Resolvers <- OneResolver
  Supervisors <- OneSupervisor
  Submitters <- OneSubmitter
  MaxAttempts = 2
  MaxCandidates = 2
  Candidates <- SupervisedCandidates
  Faults <- FaultsInPlace
  Clients <- OneClient
  Controls <- OneControl
  QueueCapacity = 1
  AskBase = 100
  MaxNotes = 2
  MaxAsks = 1
  MaxConnections = 2
INVARIANTS RetriesStayInBudget NothingIsLostInSilence
PROPERTIES ApprovedRunConcludes SupervisorExits ControlsMove
CHECK_DEADLOCK FALSE
