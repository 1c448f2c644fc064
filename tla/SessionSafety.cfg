SPECIFICATION FairSpec
CONSTANTS
  Cap = 3
  MaxLines = 4
  MaxBytes = 2
  MaxInput = 2
  StdinCap = 1
  LongLines = TRUE
  BlankLines = TRUE
  IgnoresStop = TRUE
INVARIANTS
  NothingSkipped
  SinceIsSuffix
  SendAnswers
PROPERTIES
  StopEndsProcess
  EndIsReported
  SendEnds
