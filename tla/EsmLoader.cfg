SPECIFICATION FairSpec
CONSTANTS
  a = a  b = b  c = c  d = d
  Module = {a, b, c, d}
  None = None
  Programs <- MCPrograms
  MaxCalls = 2
INVARIANTS RecordsSound CapabilitiesHonest
PROPERTIES BodiesInOrder EvaluationsSettle
CHECK_DEADLOCK FALSE
