SPECIFICATION FairSpec
CONSTANTS
  MaxUID = 2
  MaxTries = 3
  MaxKills = 1
  ReuseIP = TRUE
INVARIANTS TypeOK HandoffIsComplete CompletionMeansHandoff
PROPERTIES KeepsContract HandoffArrives
CHECK_DEADLOCK FALSE
