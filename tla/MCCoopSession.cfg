SPECIFICATION BothParts
CONSTANTS
  left = left
  right = right
  us = us
  them = them
  NoKeeper = NoKeeper
  NoSave = NoSave
  imp = imp
  troll = troll
  tag1 = tag1
  tag2 = tag2
  None = None
  MaxCasts = 3
  Peer <- Both
  Controller <- Both
  Creature <- Creatures
  Tag <- Tags
  Keepers <- Two
  Shared = us
  PathTicks = 1
  MoveTicks = 1
  Fireworks = 2
  Authored = {"gem", "none", "alternative"}
  LastWin = 2
  MaxTick = 8
INVARIANTS KnowsItsWorld WinnerHasEnding EndingsAgree OneAtATime ReturnsToPossessed CasterPresents
SYMMETRY Alike
PROPERTY PromptComes
CHECK_DEADLOCK FALSE
