SPECIFICATION FairSpec
CONSTANTS
  Monitors = {1, 6}
  Intervals = {6, 17}
  NewIntervals <- AnyInterval
  MaxRetries = 2
  MaxLag = 2
  Cap = 20
  MaxOps = 1
  MaxRestarts = 1
INVARIANT TypeOK
PROPERTIES
  Timely
  Spaced
  StartupSpread
  ProbedForever
