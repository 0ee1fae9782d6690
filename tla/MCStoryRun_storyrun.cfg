SPECIFICATION Spec
CONSTANTS
  o1 = o1
  Stories = {1, 2}
  RawDeps <- Pair
  Skeletons = {1}
  MaxConcurrent = 2
  Watched = {1, 2}
  Orders = {o1}
  QueueCap = 1
  Nothing = Nothing
  Passes = 2
  MaxUserStories = 1
  SmallCLI = FALSE
  TotalLoops = 2
  Pipelined = FALSE
  RescueEnabled = TRUE
  RescueTurns = 4
  WantStandby = TRUE
  Levels = {0, 1, 4}
  GraceRefunds = 1
  MaxGaps = 1
  MaxFaults = 1
  MaxEdits = 2
INVARIANTS FoundationFirst SuccessIsEarned RescueKeepsGreen
PROPERTIES RunEnds EditsExecuted
CHECK_DEADLOCK FALSE
