\* Three streams, protocol 2: nearly everything may fail, children are killed at any
\* time, starting them fails half-way, and the client does not wait.
SPECIFICATION Spec
CONSTANTS
  N = 3
  MaxTransfers = 2
  Passive = FALSE
  Options = {"tmp"}
  Kinds <- Both
  Simulations <- NoSimulation
  Faults <- ManyFaults
  RetryWaits = FALSE
INVARIANT OkMeansComplete
PROPERTY AtomicStoreImplemented
PROPERTY UndefinedOnlyStarting
