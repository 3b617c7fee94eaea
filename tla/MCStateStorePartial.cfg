SPECIFICATION Spec
CONSTANTS
  Keys = {1, 2}
  Docs = {d1, d2}
  Missing = Missing
  Torn = Torn
  Unknown = Unknown
  LegacyKeys = {}
  MaxOps = 3
  MaxBackups = 1
  MaxRestores = 2
  MaxFaults = 0
  MaxKills = 0
CHECK_DEADLOCK FALSE
INVARIANTS BackupHasAll
