SPECIFICATION FairSpec
CONSTANTS
  MaxTools = 2
  StdinCap = 3
  StdoutCap = 2
  Servers = {"leader", "child"}
  ServerRequests = FALSE
  LongLines = TRUE
INVARIANTS
  ReaderNeverBlocks
PROPERTIES
  StartReturns
  AnswerEndsCall
  CancelledCallReturns
