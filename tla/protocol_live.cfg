SPECIFICATION FairSpec
CONSTANTS
  NumNodes = 2
  MAX_PLAYERS = 3
  DELAY = 1
  MAX_DELAY = 2
  Cmd = {0}
  MayQuit = {1}
  MaxTic = 3
  MaxInFlight <- InOrder
INVARIANTS
  WindowsFit
  NothingForgotten
PROPERTIES
  GameGoesOn
