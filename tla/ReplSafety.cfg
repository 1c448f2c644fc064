SPECIFICATION Spec
CONSTANTS
  NoLine = NoLine
  Lines = {plain, shell}
  ShellLines = {shell}
  DisplayOnly = {shell}
  MaxToolRounds = 2
  TerminalPassthrough = TRUE
  Calls <- ContinuingCalls
  MaxCalls = 2
  MaxTurns = 2
INVARIANTS
  PromptIffIdle
  CancelReachesTheTurn
  RequestsEndWithUser
  RoundsBounded
  TranscriptRecordsTurns
PROPERTIES
  ImplementsConversation
  SilentOnceCancelled
