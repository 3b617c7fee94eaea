SPECIFICATION Spec
CONSTANTS
  Keys = {1, 2}
  Ports = {1, 2, 3}
  Hosts = {"*", "x", "y"}
  Wildcard = "*"
  Paths = {"/", "/api"}
  Docs = {"s1", "s2", "s12", "ix", "iw", "ia"}
  NoDoc = "none"
  Claims <- ServiceAndIngress
  Resources = {"cpu", "pids"}
  Capacity <- FourUnits
  Allocatable <- NothingSet
  Demands <- CpuAndPids
  Unit <- Units
  MaxInt = 7
  Faults = {"provider", "deploy", "listen", "save", "rm"}
  MaxFaults = 2
  MaxCrashes = 1
INVARIANTS TypeOK RouteIsolation ClaimsDisjoint DiskLoadable ListenersMatchRoutes
  RunningIsRouted NotOvercommitted
