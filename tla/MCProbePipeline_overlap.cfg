SPECIFICATION Spec
CONSTANTS
  Monitors = {m1}
  NoMonitor = NoMonitor
  Tasks = {t1, t2}
  IncidentIds = {i1, i2}
  NoIncident = NoIncident
  MaxRetries = 2
  FailCap = 2
  MaxFlips = 2
  MaxOps = 3
  MaxFaults = 1
  MaxCancels = 1
  MaxRestarts = 1
SYMMETRY Symmetric
INVARIANTS
  TypeOK
  AtMostOneOpen
  AlertOwnership
  CounterBacked
PROPERTIES
  OpenedAboveThreshold
  LedgerImplemented
