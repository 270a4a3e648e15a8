CONSTANTS
  c1 = c1
  c2 = c2
  t1 = t1
  g1 = g1
  p1 = p1
  p2 = p2
  NoChat = NoChat
  NoTag = NoTag
  Chat <- Chats
  Tag <- Tags
  Given <- Spellings
  Id <- TagId
  Process <- Processes
  MayFail = TRUE
  MaxRequests = 3
SPECIFICATION SpecT
SYMMETRY Symmetric
CHECK_DEADLOCK FALSE
INVARIANTS TypeOK 
