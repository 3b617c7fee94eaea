SPECIFICATION FairSpec
CONSTANTS
  Versions = {"v1", "v2"}
  NoVersion = "none"
  Template <- RecreateTemplate
  Deployments = {"a"}
  Revisions = {"r1", "r2"}
  Hashes = {"h1", "h2"}
  MaxReplicas = 2
  MaxGeneration = 1
  ExplicitGens <- NegativeGeneration
  Faults = {"network", "run", "ready", "rm", "cancel"}
  MaxFaults = 1
  MaxStops = 1
  MaxCrashes = 1
PROPERTIES Recovers
