\* Three requests of any kind, two streams; everything may go wrong but that a child ends
\* before it has been told to start (a slow start, or an early kill).
CONSTANTS
  N = 2
  MaxRequests = 3
  Faults <- StartsWell
  Patient = TRUE
SPECIFICATION Spec
INVARIANTS OneAnswer OkMeansComplete FailureLeavesNoFile
PROPERTY Recovers
