SPECIFICATION Spec
CONSTANTS
  Texts <- MCTexts
  Trim <- MCTrim
  Fold <- MCFold
  Rooted <- MCRooted
  Labels <- MCLabels
  Sanitize <- MCSanitize
  Templated = {"{{x"}
  Clients = {"c1", "c2"}
  None = "nobody"
  Policies <- MCPolicies
  Credentials = {"t1", "t2", "t3", ""}
  Files <- AllFiles
  Other <- MCOther
  Traffic <- MCTraffic
  Node = "node"
  NodeLabels <- MCNodeLabels
  IncludeReadOnly = FALSE
  MaxFaults = 1
  MaxCrashes = 1
INVARIANT ClientAppliesValidFile
CHECK_DEADLOCK FALSE
