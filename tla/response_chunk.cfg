SPECIFICATION ReadSpec
CONSTANTS
  String <- MCString
  Dash = {"-f", "-longflag"}
  strlen <- MCstrlen
  rsp = "@tmp"
  MAX_COMMAND_LINE_LEN = 20
  Lists <- MCLists
  MaxCalls = 2
  Char = {"-", "a"}
  Spelling <- MCSpelling
  Chunk = 5
  MaxText = 6
INVARIANT Terminated
CHECK_DEADLOCK FALSE
