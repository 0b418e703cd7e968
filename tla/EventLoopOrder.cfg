SPECIFICATION HSpec
CONSTANTS
  a = a  b = b
  Callback = {a, b}
  Main = Main  Handler = Handler  Nobody = Nobody  Watcher = Watcher
  Delay = {1, 2}
  MaxLate = 1
  Uses <- AnyUse
  Reuse = TRUE
  Watches = FALSE
  CatchUncaught = TRUE
  CatchRejections = FALSE
  MaxRejections = 0
SYMMETRY MCSymmetry
PROPERTIES RoundOrder NoOvertaking ClearedTimersStayClear VirtualClockOrder ImplementsScheduler
CHECK_DEADLOCK FALSE
