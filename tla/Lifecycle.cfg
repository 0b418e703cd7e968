SPECIFICATION FairSpec
CONSTANTS
  Events <- AllEvents
  Codes <- TwoCodes
  MaxRounds = 2
  MaxCalls = 4
  MaxRejections = 1
INVARIANTS NoWorkLeftBehind LastCodeWins
PROPERTIES ProcessLeaves
CHECK_DEADLOCK FALSE
