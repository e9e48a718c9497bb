SPECIFICATION Spec
CONSTANTS
  a = a
  b = b
  x = x
  y = y
  z = z
  NoOne = NoOne
  Nothing = Nothing
  Controller <- Both
  Peer <- Both
  Watched = b
  Thing <- TwoThings
  Kinds <- Rollback
  Diverging <- OnlyA
  Capacity = 2
  MaxAhead = 1
SYMMETRY ThingsAlike
INVARIANT InStep
PROPERTY ImplementsSeparateHands
CHECK_DEADLOCK FALSE
