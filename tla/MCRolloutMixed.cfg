SPECIFICATION Spec
CONSTANTS
  Versions = {"v1", "v2", "v3"}
  NoVersion = "none"
  Template <- MixedTemplate
  Deployments = {"a", "b"}
  Revisions = {"r1", "r2"}
  Hashes = {"h1", "h2"}
  MaxReplicas = 1
  MaxGeneration = 1
  ExplicitGens <- SomeGenerations
  Faults = {"network", "inspect", "state", "heal", "pull", "run", "ready", "rm", "rename", "ps", "endpoints", "listen", "cancel"}
  MaxFaults = 2
  MaxStops = 0
  MaxCrashes = 0
INVARIANTS TypeOK DiskAgrees
PROPERTIES RollbackUndoes AppliedMeansDeployed DeletedMeansGone
