SPECIFICATION Spec
CONSTANTS
  SlotsPerDay = 2
  RawDays = 1
  RetentionDays = 2
  TimelineDays = 3
  Horizon = 8
  MaxFaults = 1
  MaxStops = 1
  MaxOps = 1
INVARIANTS
  TypeOK
  NoDayLost
  TimelineHonest
  StorageBounded
CHECK_DEADLOCK FALSE
