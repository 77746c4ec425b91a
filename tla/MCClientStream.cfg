SPECIFICATION StreamFairSpec
CONSTANTS
  MaxMessages = 3
  MaxWrites = 2
  MayClose = TRUE
INVARIANTS ReadsEverything FinishTellsOutcome
 
CHECK_DEADLOCK FALSE
