SPECIFICATION Spec
CONSTANTS
  NumNodes = 2
  MAX_PLAYERS = 3
  DELAY = 1
  MAX_DELAY = 2
  Cmd = {0, 1}
  MayQuit = {}
  MaxTic = 2
  MaxInFlight <- Reordering
INVARIANTS
  TypeOK
  RanWhatWasMade
  NoHole
PROPERTIES
  NeverTakenBack
  ImplementsLockstep
