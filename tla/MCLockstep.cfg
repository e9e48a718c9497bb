SPECIFICATION FairSpec
CONSTANTS
  a = a
  Client <- OnlyA
  Acts = {0, 1}
  Idle = 0
  Ring = 2
  Span = 3
  History = 2
  MaxTick = 3
  MaxAsked = 1
  Room = 3
  SyncAt = {2}
  Impatient <- OnlyA
INVARIANT AllCome
PROPERTIES DroppedBehind CatchesUp ImplementsOrderedDelivery
CHECK_DEADLOCK FALSE
