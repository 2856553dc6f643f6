SPECIFICATION Spec
CONSTANTS
  c1 = c1
  c2 = c2
  Calls <- OneCall
  MaxTries = 1
  MaxEvents = 1
  MaxEmitted = 0
  Answers <- Accepted
  Kinds <- NoEvents
  Faults <- NoFaults
INVARIANT ThreadsAreUnsubscribed
CHECK_DEADLOCK FALSE
