SPECIFICATION Spec
CONSTANTS
  Keys = {"x", "y"}
  NoDoc = NoDoc
  DocsOf <- TwoRuntimes
  Ready <- ReadySets
  Clients = {1}
  Hosts = {"h"}
  Paths <- TwoPaths
  Slots = {s1, s2}
  MaxOps = 3
  MaxFaults = 1
  MaxRequests = 3
SYMMETRY SlotsAlike
CHECK_DEADLOCK FALSE
INVARIANTS TypeOK LongestPrefixWins UpdateDropsNothing ClientsStick RoundRobin
