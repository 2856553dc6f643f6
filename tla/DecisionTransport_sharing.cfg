SPECIFICATION Spec
CONSTANTS
  c1 = c1
  c2 = c2
  Calls <- TwoCalls
  MaxTries = 1
  MaxEvents = 2
  MaxEmitted = 3
  Answers <- Accepted
  Kinds <- SomeEvents
  Faults <- NoFaults
SYMMETRY CallSymmetry
INVARIANTS EventsComplete FailureWakes TurnsAreCleanedUp
CHECK_DEADLOCK FALSE
