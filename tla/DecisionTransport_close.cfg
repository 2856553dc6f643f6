SPECIFICATION FairSpec
CONSTANTS
  c1 = c1
  c2 = c2
  Calls <- OneCall
  MaxTries = 2
  MaxEvents = 1
  MaxEmitted = 0
  Answers <- Overload
  Kinds <- NoEvents
  Faults <- SlowExit
INVARIANTS OneAcceptedTurn StopsWhenQuiet NoWaiterIsForgotten
PROPERTY CloseEnds
CHECK_DEADLOCK FALSE
