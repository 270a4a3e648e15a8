CONSTANTS
  c1 = c1
  c2 = c2
  s1 = s1
  s2 = s2
  s3 = s3
  p1 = p1
  p2 = p2
  NoChat = NoChat
  NoShare = NoShare
  Chat <- Chats2
  ShareId <- Shares3
  Process <- TwoProcesses
  MaxVersion = 1
  MayFail = TRUE
  MayCrash = TRUE
SPECIFICATION SpecR
SYMMETRY Symmetric
CHECK_DEADLOCK FALSE
INVARIANTS TypeOK LinkServesItsChat LinkMatchesCopy
PROPERTIES ShareServesCurrent TakenBackLeavesNoCopy DeadLinkStaysDead LinksSpec
