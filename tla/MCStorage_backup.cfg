SPECIFICATION StorageSpec
CONSTANTS
  n1 = n1
  n2 = n2
  v1 = v1
  v2 = v2
  Unset = Unset
  NoOrder = NoOrder
  NoRow = NoRow
  NoBackup = NoBackup
  Names = {n1, n2}
  Values = {v1, v2}
  Keys = {k1}
  Intervals = {3}
  MaxId = 4
  MaxEdits = 4
  Files <- HandMade
  Groups <- MCGroups
  Pages <- MCPages
  MaxCommits = 3
  MaxFaults = 2
  Paths = {"uptime.db", "other.db"}
  DefaultPath = "uptime.db"
  NoPath = "none"
INVARIANTS TypeOK SchemaComplete CopyConsistent
PROPERTIES
  RoundTrip
  ExportIsSnapshot
