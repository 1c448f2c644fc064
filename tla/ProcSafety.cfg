SPECIFICATION FairSpec
CONSTANTS
  Cmds = {c1, c2}
  Pids = {p1, p2}
  LeaderWaits = FALSE
  MayDetach = FALSE
  IgnoresTerm = {"leader"}
INVARIANTS
  OutputSettled
  RegistryComplete
  KilledIsReported
PROPERTIES
  RegistryDrains
  LateOnlyForChild
