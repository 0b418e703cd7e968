SPECIFICATION Spec
CONSTANTS
  a = a  b = b
  Worker = {a, b}
  Main = Main
  Code = {3}
  Spawning = {Main, a, b}
  Catching = {Main, a, b}
  MaxCalls = 4
SYMMETRY MCSymmetry
INVARIANTS HandlesCounted EventsInOrder MessagesKept
CHECK_DEADLOCK FALSE
