SPECIFICATION Spec
CONSTANTS
  r1 = r1
  r2 = r2
  s1 = s1
  s2 = s2
  w1 = w1
  w2 = w2
  noThread = noThread
  NoThread <- noThread
  Resolvers <- OneResolver
  Supervisors <- OneSupervisor
  Submitters <- OneSubmitter
  MaxAttempts = 1
  MaxCandidates = 1
  Candidates <- SuccessClaims
  Faults <- NoFaults
INVARIANT VerdictIsCommittable
CHECK_DEADLOCK FALSE
