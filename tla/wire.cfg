SPECIFICATION CrcSpec
CONSTANTS
  MAX_DELAY = 2
  Header = {h0, h1}
  Cmd = {0, 1}
  MaxInFlight = 1
  MaxStart = 255
  Counts = {0, 4, 16}
  Noisy = {201}
INVARIANTS
  TypeOK
  ReadAsMeant
  Right
  Noticed
CHECK_DEADLOCK FALSE
