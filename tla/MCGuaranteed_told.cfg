SPECIFICATION Spec
CONSTANTS
  h = h
  a = a
  b = b
  c = c
  Host = h
  Clients <- Both
  Newcomers = {}
  Slot <- OwnSlots
  Senders <- OnlyHost
  MaxSends = 2
  Sizes = {1}
  Leavers <- OnlyB
INVARIANTS ToldOnce
CHECK_DEADLOCK FALSE
