SPECIFICATION FairSpec
CONSTANTS
  p1 = p1
  p2 = p2
  p3 = p3
  NoPlayer = NoPlayer
  Players <- Two
  Leavers <- OnlyFirst
  Kicked <- Two
  FreedReaders <- Two
  NSlots = 2
  Cap = 2
  MaxCopies = 2
PROPERTIES CatchesUp ImplementsOrderedDelivery
CHECK_DEADLOCK FALSE
INVARIANTS AgreesWhenCaughtUp LostOnlyIfExcused
