CONSTANTS
  q1 = q1
  q2 = q2
  w = w
  s = s
  c = c
  NoRequest = NoRequest
  Reset = Reset
  Unknown = Unknown
  Nameless = Nameless
  Request <- TwoRequests
  Workflow <- Workflows
  Direct <- Workflows
  Served <- Serveds
  Custom <- Customs
  CallLists <- Lists
  MaxToolCalls = 1
  MaxTurns = 2
  MaxStored = 3
  MayFail = TRUE
  MaxStops = 1
SPECIFICATION LiveSpecM
CHECK_DEADLOCK FALSE
INVARIANTS TypeOK HistoryFollows CallsAnswered
PROPERTY RequestsEnd
