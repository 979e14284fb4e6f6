SPECIFICATION Spec
CONSTANTS
  NoText = NoText
  NoFile = NoFile
  tokenA = tokenA
  chatA = chatA
  chatB = chatB
  Configs <- SomeConfigs
  Zones <- SomeZones
  MaxAlerts = 2
  OsOffset = 0
  Restored <- SomeBackups
  MaxSize = 1
  MaxEvents = 3
INVARIANTS
  TypeOK
  LogTruthful
  SettingsBelongTogether
  TailComplete
PROPERTIES
  DeliveryImplemented
CHECK_DEADLOCK FALSE
