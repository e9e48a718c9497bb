SPECIFICATION Spec
CONSTANTS
  a = a
  b = b
  x = x
  y = y
  z = z
  NoOne = NoOne
  Nothing = Nothing
  Controller <- Both
  Peer <- OnlyA
  Watched = a
  Thing <- ThreeThings
  Kinds <- Possession
  Diverging <- None
  Capacity = 3
  MaxAhead = 1
SYMMETRY ThingsAlike
INVARIANTS OwnerAsked PossessedFree
PROPERTY ImplementsSeparateHands
CHECK_DEADLOCK FALSE
