SPECIFICATION Spec
CONSTANTS
  N = 2
  MaxRestarts = 2
  Backoff = 1
  MaxStops = 1
  MaxFaults = 1
  MaxRemoves = 1
INVARIANTS TypeOK HealsBounded ReadyHasNoMessage
PROPERTIES BackoffHonoured DownIsHandled
