SPECIFICATION FairSpec
CONSTANTS
  v = v  w = w
  Value = {v}
  Undefined = Undefined  ChainingCycle = ChainingCycle
  Results = Results  AggregateError = AggregateError
  Calls = {"new", "fulfil", "follow", "thenable", "reject", "then", "async", "await value"}
  MaxPromises = 3
  MaxCalls = 1
  Listens = {"uncaughtException"}
  Throws = TRUE
INVARIANTS OneContinuation ReactionsInOrder
PROPERTIES ImplementsContract FollowersSettle
CHECK_DEADLOCK FALSE
