CONSTANTS
  Pieces = 2
  MaxDepth = 3
  MaxCalls = 3
SPECIFICATION LogSpec
INVARIANTS
  LogTypeOK
  WellBracketed
  LeaksOnlyByCallback
  AnswerLostOnlyByWarning
