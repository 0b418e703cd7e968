SPECIFICATION FairSpec
CONSTANTS
  v = v  w = w
  Value = {v, w}
  Undefined = Undefined  ChainingCycle = ChainingCycle
  Results = Results  AggregateError = AggregateError
  Calls = {"new", "fulfil", "reject", "then", "async", "all", "allSettled", "race", "any"}
  MaxPromises = 3
  MaxCalls = 2
  Listens = {"unhandledRejection"}
  Throws = FALSE
INVARIANTS UnhandledRejectionsReported CombinatorsAgree
PROPERTIES CombinatorsSettle
CHECK_DEADLOCK FALSE
