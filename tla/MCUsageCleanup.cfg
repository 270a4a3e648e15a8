CONSTANTS
  p1 = p1
  p2 = p2
  s1 = s1
  s2 = s2
  m1 = m1
  NoProcess = NoProcess
  Process <- TwoProcesses
  Model <- OneModel
  Sid <- TwoSids
  Home <- EachAtOne
  TIMEOUT_DURATION = 1
  LockTimeout = 3
  MaxPause = 1
  MayCrash = TRUE
  MayRaise = TRUE
  MaxTime = 6
SYMMETRY Alike
SPECIFICATION SpecO
INVARIANTS TypeOK OneCleaner PoolMatchesReports
PROPERTY CleanerGoesOn
