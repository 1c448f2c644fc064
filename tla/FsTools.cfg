CONSTANTS
  x = x
  y = y
  Other = other
  Dir = Dir
  Words = {x, y, other}
  Trees <- AllTrees
  Calls <- AllCalls
  Shared <- Places
  Hidden = {".h"}
  Dot = "."
  MaxDepth = 4
  MaxCalls = 1
  MaxOutside = 2
  MaxFailures = 2
SPECIFICATION Spec
CHECK_DEADLOCK FALSE
INVARIANTS
  OkCallsAreDone
  
  TruncatedIffMore
PROPERTIES
  TreeCopyKeepsFiles
