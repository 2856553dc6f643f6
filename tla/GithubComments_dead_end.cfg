SPECIFICATION Spec
CONSTANTS
  o1 = o1
  o2 = o2
  Operators <- OneOperator
  MaxInteractions = 1
  MaxPosts = 1
  Inputs <- OneKind
  Faults <- ReadFaults
INVARIANT NoDeadEnd
CHECK_DEADLOCK FALSE
