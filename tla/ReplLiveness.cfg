SPECIFICATION FairSpec
CONSTANTS
  NoLine = NoLine
  Lines = {plain, show, shell}
  ShellLines = {shell}
  DisplayOnly = {show}
  MaxToolRounds = 1
  TerminalPassthrough = FALSE
  Calls <- BuiltinCalls
  MaxCalls = 1
  MaxTurns = 3
PROPERTIES
  EveryTurnEnds
  SteeringRuns
  CancelledTurnEnds
