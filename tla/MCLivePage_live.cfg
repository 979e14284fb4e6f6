SPECIFICATION FairSpec
CONSTANTS
  Monitors = {m1}
  Spawned = {p1}
  Checks = {c1}
  Capacity = 1
  Slots <- MCSlots
  MaxEdits = 1
  MaxFlips = 1
  MaxFaults = 2
  MaxEvents = 2
INVARIANTS TypeOK SummaryAgrees
PROPERTIES PageCatchesUp
CHECK_DEADLOCK FALSE
