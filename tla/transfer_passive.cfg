\* Three streams, protocol 3: streams, children and the session fail, and the client does
\* not wait between two requests.
SPECIFICATION Spec
CONSTANTS
  N = 3
  MaxTransfers = 2
  Passive = TRUE
  Options = {"tmp"}
  Kinds <- Both
  Simulations <- RealOrSimulated
  Faults <- StartedFaults
  RetryWaits = FALSE
INVARIANT OneAnswer
INVARIANT ReadyIsClean
INVARIANT ExitLeavesNoChild
PROPERTY SessionRecovers
