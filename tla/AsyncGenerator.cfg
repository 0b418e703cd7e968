SPECIFICATION FairSpec
CONSTANTS
  p = p  q = q
  External = {p, q}
  Plain = Plain
  MaxRequests = 4
PROPERTIES ImplementsContract RequestsAnswered
CHECK_DEADLOCK FALSE
