CONSTANTS
  Capacity = 1
  SigCapacity = 1
  Kinds = {"text", "!", "/interrupt", "/exit"}
  MaxLines = 3
  MaxPresses = 2
SPECIFICATION EndingSpec
CHECK_DEADLOCK FALSE
INVARIANTS
  LinesKept
PROPERTIES
  LinesServed
  CtrlCServed
