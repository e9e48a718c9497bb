SPECIFICATION FairSpec
CONSTANTS
  h = h
  a = a
  NoSave = NoSave
  Peer <- Two
  Host = h
  TicksPerSecond = 4
  SavePeriod = 3
  Scripts <- NoCamera
  Checks = {TRUE, FALSE}
  Diverging <- OnlyA
  Failing <- OnlyA
  FirstDue <- Both
  MaxTick = 14
  MaxAhead = 2
  Prompt = 1
INVARIANTS SameSave CheckpointMatches
PROPERTIES ReloadsEarlier ReloadsFarBack Recovers
CHECK_DEADLOCK FALSE
