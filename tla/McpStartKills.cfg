SPECIFICATION Spec
CONSTANTS
  MaxTools = 1
  StdinCap = 2
  StdoutCap = 2
  Servers = {"leader"}
  ServerRequests = FALSE
  LongLines = FALSE
PROPERTIES
  ServerOutlivesStart
