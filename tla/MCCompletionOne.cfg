CONSTANTS
  p1 = p1
  p2 = p2
  m1 = m1
  m2 = m2
  r1 = r1
  r2 = r2
  c1 = c1
  Process <- OneProcess
  Task <- TwoTasks
  Request <- OneRequest
  Chat <- OneChat
  ChatOf <- SameChat
  ProcessOf <- AllHere
  MAX_TOOL_CALL_RETRIES = 1
  MAX_RETRIES = 1
  CodeInterpreter = TRUE
  ENABLE_REALTIME_CHAT_SAVE = FALSE
  MaxContent = 3
SPECIFICATION Spec
INVARIANTS TypeOK EndedIsSaved DoneIsSaved EndIsTold AnsweredStopIsOver RunningIsListed
PROPERTY StopFindsRunning
SYMMETRY Symmetry
CHECK_DEADLOCK FALSE
