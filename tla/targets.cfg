\* A session and a client, two streams and two directories, every fault; each transfer
\* is real, with or without a temporary file, or simulated.
CONSTANTS
  p = p
  g = g
  Writers = {p, g}
  Side <- PutAndGet
  N = 2
  Depth = 2
  MaxTries = 1
  Modes <- RealOrSimulated
  Faults <- AllFaults
SPECIFICATION Spec
INVARIANTS FinalWhole DirsAreShared NoLitter
PROPERTIES FinalKept OkMeansPlaced
