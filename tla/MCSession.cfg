SPECIFICATION FairSpec
CONSTANTS
  p1 = p1
  p2 = p2
  p3 = p3
  NoPlayer = NoPlayer
  Players <- Three
  First = p1
  NSlots = 3
  PerPacket = 2
  MaxId = 2
  Impatient <- OnlyLast
  Leavers <- Two
  Kickers <- OnlyFirst
  MaxRepeats = 1
INVARIANTS IdsUnique CountAgrees ListsAgree OneOpenHost ToldOnce
PROPERTY HostFollowed
CHECK_DEADLOCK FALSE
