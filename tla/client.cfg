\* One command of any kind, two tries, three connections; everything may fail.
SPECIFICATION Spec
CONSTANTS
  MaxTries = 2
  MaxCommands = 1
  MaxSessions = 3
  Kinds <- AllKinds
  Faults <- AllFaults
INVARIANT OkMeansTransferred
INVARIANT NeverPartial
INVARIANT TriesAreClean
INVARIANT AnswersAreCurrent
PROPERTY CommandsEnd
PROPERTY LeftSessionsEnd
