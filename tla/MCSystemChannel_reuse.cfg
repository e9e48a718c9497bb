SPECIFICATION Spec
CONSTANTS
  p1 = p1
  p2 = p2
  p3 = p3
  NoPlayer = NoPlayer
  Players <- Three
  Leavers = {}
  Kicked <- OnlyFirst
  FreedReaders = {}
  NSlots = 2
  Cap = 1
  MaxCopies = 2
SYMMETRY NewcomersAlike
INVARIANT InOrder
CHECK_DEADLOCK FALSE
