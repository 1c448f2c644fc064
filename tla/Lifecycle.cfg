SPECIFICATION Spec
CONSTANTS
  Kattys = {k1, k2}
  MaxStarts = 3
CHECK_DEADLOCK FALSE
INVARIANTS
  DamageIsFromCutWrites
PROPERTIES
  OnlyStaleLooksReplace
