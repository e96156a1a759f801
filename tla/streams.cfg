\* Two streams, files around the size of two buffers, and everything may fail.
CONSTANTS
  N = 2
  Sizes <- SmallSizes
  Buf = 2
  IntLimit = 8
  Cap = 3
  Faults <- AllFaults
SPECIFICATION Spec
INVARIANTS NothingMisplaced AckMeansWritten SuccessIsComplete NoFaultNoFailure
PROPERTY EveryStreamEnds
