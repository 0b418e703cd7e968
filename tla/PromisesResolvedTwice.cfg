SPECIFICATION Spec
CONSTANTS
  v = v  w = w
  Value = {v}
  Undefined = Undefined  ChainingCycle = ChainingCycle
  Results = Results  AggregateError = AggregateError
  Calls = {"new", "fulfil", "follow"}
  MaxPromises = 3
  MaxCalls = 2
  Listens = {}
  Throws = FALSE
INVARIANTS FirstCallWins
CHECK_DEADLOCK FALSE
