CONSTANTS
  f1 = f1
  f2 = f2
  k1 = k1
  x = x
  y = y
  t1 = t1
  t2 = t2
  NoFile = NoFile
  NoKb = NoKb
  NoContent = NoContent
  Loop = Loop
  File <- Files
  Tabular <- Sheets
  Kb <- Kbs
  Content <- Contents
  Thread <- Threads
  Table = Table
  NoHash = NoHash
  MaxRequests = 3
SPECIFICATION SpecH
SYMMETRY Symmetric
CHECK_DEADLOCK FALSE
INVARIANTS TypeOK SearchMatchesList
PROPERTY TextChangedByEdits
