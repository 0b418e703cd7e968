SPECIFICATION FairSpec
CONSTANTS
  a = a  b = b  c = c
  Callback = {a, b, c}
  Main = Main  Handler = Handler  Nobody = Nobody  Watcher = Watcher
  Delay = {1}
  MaxLate = 1
  Uses <- MixedUse
  Reuse = FALSE
  Watches = TRUE
  CatchUncaught = TRUE
  CatchRejections = TRUE
  MaxRejections = 2
INVARIANTS HandlesCounted
PROPERTIES OperationsReport HeldTimersFire QuietProgramsLeave
CHECK_DEADLOCK FALSE
