SPECIFICATION CastSpec
CONSTANTS
  r1 = r1
  r2 = r2
  s1 = s1
  s2 = s2
  w1 = w1
  w2 = w2
  noThread = noThread
  NoThread <- noThread
  Resolvers <- TwoResolvers
  Supervisors <- TwoSupervisors
  Submitters <- TwoSubmitters
  MaxAttempts = 1
  MaxCandidates = 2
  Candidates <- SuccessClaims
  Faults <- FaultKinds
SYMMETRY CastSymmetry
INVARIANTS TypeOK ApprovalGatesExecution OneTurnPerAttempt OutcomeIsEvidenced TerminalHasOutcome
PROPERTY RefinesContract
CHECK_DEADLOCK FALSE
