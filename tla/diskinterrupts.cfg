SPECIFICATION DiskSpec
CONSTANTS
  Byte = {0, 1}
  buf_len = 8
  move_oxen <- Oxen
  respawn_time <- Respawn
  num_players = 3
  no_mem_patch = FALSE
  MaxNest = 3
INVARIANTS
  TypeOK
  OwnStack
PROPERTIES
  PatchesRight
  Terminates
  AnsweredOnce
