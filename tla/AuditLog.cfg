SPECIFICATION Spec
CONSTANTS
  Agent = "agent"
  Commands = {"command"}
  MaxFileSize = 2
  MaxBackups = 2
  Tails = {0, 1, 3}
  MaxEvents = 7
  MaxCrashes = 1
INVARIANTS TypeOK FilesBounded NoGaps RotationKeeps
PROPERTIES ReadsLatest
