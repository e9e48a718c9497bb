SPECIFICATION Spec
CONSTANTS
  h = h
  a = a
  b = b
  c = c
  Host = h
  Clients <- Both
  Newcomers = {}
  Slot <- OwnSlots
  Senders <- OnlyHost
  MaxSends = 2
  Sizes = {1}
  Leavers <- OnlyB
INVARIANTS ReceivedIsHeld NothingForgotten
PROPERTY ImplementsOrderedDelivery
CHECK_DEADLOCK FALSE
