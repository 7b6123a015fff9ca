SPECIFICATION Spec
CONSTANTS
  Conn = {c1, c2}
  BUTTON_COUNT = 1
  ByteSpan = 2
  Request <- MCRequest
  MaxSessions = 2
INVARIANTS
  TypeOK
  MemorySafe
  ActiveCounts
PROPERTIES
  Serves
  RequestsEnd
CHECK_DEADLOCK FALSE
