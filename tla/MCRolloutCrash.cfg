SPECIFICATION Spec
CONSTANTS
  Versions = {"v1", "v2", "v3"}
  NoVersion = "none"
  Template <- SurgeTemplate
  Deployments = {"a"}
  Revisions = {"r1", "r2"}
  Hashes = {"h1", "h2"}
  MaxReplicas = 2
  MaxGeneration = 2
  ExplicitGens = {}
  Faults = {"network", "inspect", "hash", "state", "heal", "pull", "run", "ready", "rm", "rename", "ps", "endpoints", "listen", "save", "cancel"}
  MaxFaults = 1
  MaxStops = 1
  MaxCrashes = 1
INVARIANTS RunningMeansCached
PROPERTIES RollbackUndoes SurgeKeepsReplica
