SPECIFICATION Spec
CONSTANTS
  h = h
  a = a
  NoSave = NoSave
  Peer <- Two
  Host = h
  TicksPerSecond = 4
  SavePeriod = 2
  Scripts <- Camera
  Checks <- Always
  Diverging <- OnlyA
  Failing <- None
  FirstDue <- Now
  MaxTick = 5
  MaxAhead = 1
  Prompt = 1
INVARIANT WaitsAgree
PROPERTY ReloadsWaits
CHECK_DEADLOCK FALSE
