\* Every way to connect, a host with two addresses of which one answers, two rounds, two faults.
CONSTANTS
  Addresses = 2
  MaxTries = 2
  MaxSessions = 3
  MaxFaults = 2
  Settings <- ManySettings
  Faults <- AllFaults
SPECIFICATION Spec
INVARIANTS AgreedVersion ExitHasReason
PROPERTIES RefusedForGood ClientDecides SessionsEnd
