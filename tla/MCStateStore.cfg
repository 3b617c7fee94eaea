SPECIFICATION Spec
CONSTANTS
  Keys = {1, 2}
  Docs = {d1, d2}
  Missing = Missing
  Torn = Torn
  Unknown = Unknown
  LegacyKeys = {2}
  MaxOps = 2
  MaxBackups = 1
  MaxRestores = 2
  MaxFaults = 1
  MaxKills = 1
SYMMETRY DocsAlike
CHECK_DEADLOCK FALSE
INVARIANTS TypeOK AckedSurvives BackupComplete RestoreBrings
PROPERTIES ImplementsDurableMap
