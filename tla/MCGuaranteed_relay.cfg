SPECIFICATION FairSpec
CONSTANTS
  h = h
  a = a
  b = b
  c = c
  Host = h
  Clients <- Three
  Newcomers <- OnlyC
  Slot <- ReusedSlot
  Senders <- OnlyB
  MaxSends = 1
  Sizes = {1,2}
  Leavers <- OnlyB
INVARIANT CountsAgree
CHECK_DEADLOCK FALSE
PROPERTIES GetsThrough FateIsTold
