SPECIFICATION FairStartup
CONSTANTS
  Names = {a, b, c, d}
  Enabled = {a, b, c}
  Required = {a, b}
INVARIANTS
  StartupIsReported
PROPERTIES
  StartAllReturns
