CONSTANTS
  p1 = p1
  p2 = p2
  m1 = m1
  m2 = m2
  r1 = r1
  r2 = r2
  c1 = c1
  Process <- TwoProcesses
  Task <- TwoTasks
  Request <- NoRequest
  Chat <- OneChat
  ChatOf <- SameChat
  ProcessOf <- OneEach
  MAX_TOOL_CALL_RETRIES = 1
  MAX_RETRIES = 1
  CodeInterpreter = FALSE
  ENABLE_REALTIME_CHAT_SAVE = FALSE
  MaxContent = 1
SPECIFICATION Spec
INVARIANT DoneIsSaved
CHECK_DEADLOCK FALSE
