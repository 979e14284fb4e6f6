SPECIFICATION FairSpec
CONSTANTS
  Configs <- MCConfigs
  Documents <- MCDocuments
  Compact <- MCCompact
  Lower <- MCLower
  Number <- MCNumber
  HasText <- MCHasText
INVARIANTS TypeOK UpIsEarned
PROPERTIES ProbeEnds
CHECK_DEADLOCK FALSE
