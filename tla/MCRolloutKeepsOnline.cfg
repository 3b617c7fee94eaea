SPECIFICATION Spec
CONSTANTS
  Versions = {"v1", "v2", "v3"}
  NoVersion = "none"
  Template <- MixedTemplate
  Deployments = {"a", "b"}
  Revisions = {"r1", "r2"}
  Hashes = {"h1", "h2"}
  MaxReplicas = 2
  MaxGeneration = 2
  ExplicitGens = {}
  Faults = {"ready"}
  MaxFaults = 1
  MaxStops = 0
  MaxCrashes = 0
PROPERTIES RollbackKeepsOnline
