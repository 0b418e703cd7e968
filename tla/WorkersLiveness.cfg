SPECIFICATION FairSpec
CONSTANTS
  a = a  b = b
  Worker = {a}
  Main = Main
  Code = {3}
  Spawning = {Main}
  Catching = {}
  MaxCalls = 5
PROPERTIES EndsAreHeard TerminatedWorkersEnd MessagesArrive
CHECK_DEADLOCK FALSE
