\* Two streams, protocol 2, no temporary file: a child cannot be forked while others wait,
\* the session is interrupted too, and the client waits before it tries again.
SPECIFICATION Spec
CONSTANTS
  N = 2
  MaxTransfers = 2
  Passive = FALSE
  Options = {}
  Kinds <- Both
  Simulations <- NoSimulation
  Faults <- StartAndSessionFaults
  RetryWaits = TRUE
INVARIANT FailureLeavesNoFile
INVARIANT NoUndefinedBehaviour
