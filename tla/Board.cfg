SPECIFICATION BoardSpec
CONSTANTS
  Items <- BoardItems
  Signs <- BoardSigns
  Anchor <- AnchorOf
  LongPauses <- HalfAMonth
  MaxEvents = 3
  MaxCommentEdits = 1
  LastDay = 15
  MaxLate = 1
  Profile <- RustCli
  Aliases <- OtherWords
  DomainAliases <- DomainWords
  Focus <- FocusWords
  Prospects <- SomeProspects
  Remarks <- SomeRemarks
  MaxRemarks = 2
  MaxPulls = 9
  Ages = {40}
INVARIANTS FeedFollowsTheUser ValueIsCoherent
PROPERTY ScoresMoveTheRightWay
CHECK_DEADLOCK FALSE
