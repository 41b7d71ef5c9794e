SPECIFICATION FairSpec
CONSTANTS
  NumNodes = 3
  MAX_PLAYERS = 4
  fake_players = FALSE
  DELAY = 1
  Cmd = {0, 1}
  MaxTic = 2
  MayQuit = {1}
INVARIANTS
  SameGame
  SameStart
  VectorsRight
PROPERTIES
  EverybodyPlays
CHECK_DEADLOCK FALSE
