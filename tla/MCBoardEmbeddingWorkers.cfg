CONSTANTS
  NoBoard = NoBoard
  NoAssistant = NoAssistant
  Board = {b1}
  Assistant = {a1}
  Worker = {w1, w2}
  Caller = {c1}
  Deleter = {d1}
  MaxRetries = 2
  MaxBatch = 1
  MaxJobs = 2
  DbType = "postgresql"
  StoreMayFail = TRUE
  MayCrash = TRUE
SPECIFICATION SpecW
CHECK_DEADLOCK FALSE
SYMMETRY Symmetry
VIEW ButParquet
INVARIANTS TypeOK FlaggedBeforeQueued RetryMatchesStatus AtMostOneCopyPerWriter
PROPERTIES SettledStays DeletedFrozen
