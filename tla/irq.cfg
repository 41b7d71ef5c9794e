SPECIFICATION UserSpec
CONSTANTS
  IRQ = {4}
  MaxDepth = 3
  NumVectors = 3
  NumUserVectors = 2
INVARIANTS
  AckedOnce
  HardwareToOurselves
  GivenBack
  PspRight
  Answered
  VectorsGivenBack
PROPERTIES
  EveryoneHears
