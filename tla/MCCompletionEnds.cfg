CONSTANTS
  p1 = p1
  p2 = p2
  m1 = m1
  m2 = m2
  r1 = r1
  r2 = r2
  c1 = c1
  Process <- OneProcess
  Task <- OneTask
  Request <- TwoRequests
  Chat <- OneChat
  ChatOf <- SameChat
  ProcessOf <- AllHere
  MAX_TOOL_CALL_RETRIES = 2
  MAX_RETRIES = 2
  CodeInterpreter = TRUE
  ENABLE_REALTIME_CHAT_SAVE = FALSE
  MaxContent = 4
SPECIFICATION FairSpec
PROPERTIES StopIsAnswered EveryTaskEnds
CHECK_DEADLOCK FALSE
