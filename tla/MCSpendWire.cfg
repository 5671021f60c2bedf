CONSTANTS
  MaxChaumV2Inputs = 2
  MaxV2Outputs = 3
  MaxSetId = 2
  Escape = 4
  Bits = 2
  GrootleN = 2
  GrootleM = 2
  Words = {0, 1, 2, 3, 4, 5}
  Respelt <- MCRespelt
  ScalarWords <- MCScalarWords
  Tails <- MCTails
SPECIFICATION WireSpec
INVARIANTS
  WireTypeOK
  ReadsBack
  OnlyPointsRespelt
