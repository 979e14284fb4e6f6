SPECIFICATION FairSpec
CONSTANTS
  Monitors = {m1}
  NoMonitor = NoMonitor
  Tasks = {t1, t2}
  IncidentIds = {i1, i2}
  NoIncident = NoIncident
  MaxRetries = 2
  FailCap = 2
  MaxFlips = 1
  MaxOps = 2
  MaxFaults = 1
  MaxCancels = 0
  MaxRestarts = 0
PROPERTIES
  OutageDetected
  RecoveryDetected
