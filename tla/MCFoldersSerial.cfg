CONSTANTS
  f1 = f1
  f2 = f2
  f3 = f3
  c1 = c1
  r1 = r1
  Root = Root
  NoName = NoName
  Name <- Names
  ILike <- Matches
  Folder <- Folders3
  Chat <- OneChat
  Request <- OneRequest
  MaxDepth = 4
  MayFail = TRUE
  MayCrash = TRUE
SPECIFICATION Spec
SYMMETRY Symmetric
CHECK_DEADLOCK FALSE
INVARIANTS TypeOK SiblingsDistinct NothingOutOfReach
