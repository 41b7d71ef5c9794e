SPECIFICATION StartSpec
CONSTANTS
  String = {"-net", "-fakeplayers", "-s", "-n", "-x", "-h", "game", "7", "12345", "@r", "@e", "@n", "@none"}
  Dash = {"-net", "-fakeplayers", "-s", "-n", "-x", "-h"}
  At = {"@r", "@e", "@n", "@none"}
  Help = {"-h"}
  Addresses = {"12345", "7"}
  flags <- MCflags
  type <- MCtype
  Numbers <- MCNumbers
  ResponseFile <- MCResponseFile
  CommandLines <- MCCommandLines
  BakedIn <- MCBakedIn
  Addr = {65536, 74565, 655279}
  MAX_PLAYERS = 4
  MaxTyped = 2
  MaxBaked = 2
INVARIANTS
  Transparent
CHECK_DEADLOCK FALSE
