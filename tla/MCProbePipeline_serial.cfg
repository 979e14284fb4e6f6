SPECIFICATION Spec
CONSTANTS
  Monitors = {m1, m2}
  NoMonitor = NoMonitor
  Tasks = {t1}
  IncidentIds = {i1, i2}
  NoIncident = NoIncident
  MaxRetries = 2
  FailCap = 2
  MaxFlips = 2
  MaxOps = 3
  MaxFaults = 0
  MaxCancels = 0
  MaxRestarts = 0
SYMMETRY Symmetric
INVARIANT SettledAgreement
