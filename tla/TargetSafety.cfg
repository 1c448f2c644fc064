SPECIFICATION FairTarget
CONSTANTS
  Cmds = {c1}
  LeaderWaits = FALSE
  MayDetach = TRUE
  IgnoresTerm = {}
INVARIANTS
  OutputSettled
PROPERTIES
  LateOnlyForChild
