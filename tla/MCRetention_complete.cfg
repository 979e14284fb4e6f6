SPECIFICATION Spec
CONSTANTS
  SlotsPerDay = 2
  RawDays = 1
  RetentionDays = 2
  TimelineDays = 3
  Horizon = 6
  MaxFaults = 0
  MaxStops = 0
  MaxOps = 0
INVARIANT TimelineComplete
CHECK_DEADLOCK FALSE
