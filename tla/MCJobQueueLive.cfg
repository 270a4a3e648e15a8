CONSTANTS
  NoBoard = NoBoard
  NoAssistant = NoAssistant
  Board = {b1}
  Assistant = {a1, a2}
  Worker = {w1}
  Caller = {c1}
  Deleter = {d1}
  MaxRetries = 3
  MaxBatch = 2
  MaxJobs = 2
  DbType = "postgresql"
  StoreMayFail = FALSE
  MayCrash = FALSE
SPECIFICATION FairSpecW
CHECK_DEADLOCK FALSE
INVARIANTS DoneIsEmbedded
PROPERTIES PendingSettles
