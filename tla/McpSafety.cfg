SPECIFICATION Spec
CONSTANTS
  MaxTools = 2
  StdinCap = 1
  StdoutCap = 2
  Servers = {"leader", "child"}
  ServerRequests = TRUE
  LongLines = TRUE
INVARIANTS
  AnswerIsOwn
  HandshakeOrder
