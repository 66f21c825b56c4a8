SPECIFICATION LiveSpec

CONSTANTS
  Calls = {c1, c2, c3}
  Requests = {r1}
  NoRequest = NoRequest
  NoOrder = NoOrder
  MaxDay = 1
  Capacity = 2

CHECK_DEADLOCK FALSE

INVARIANTS
  TypeOK
  CodesAreGapless
  OneOrderPerRequest
  AnswersAreOwn

PROPERTIES
  ImplementsBook
  CallsEnd
