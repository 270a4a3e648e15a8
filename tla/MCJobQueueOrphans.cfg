CONSTANTS
  NoBoard = NoBoard
  NoAssistant = NoAssistant
  Board = {b1}
  Assistant = {a1}
  Worker = {w1}
  Caller = {c1}
  Deleter = {d1}
  MaxRetries = 2
  MaxBatch = 1
  MaxJobs = 1
  DbType = "postgresql"
  StoreMayFail = FALSE
  MayCrash = FALSE
SPECIFICATION SpecW
CHECK_DEADLOCK FALSE
INVARIANTS DeletedBoardHasNoRows
