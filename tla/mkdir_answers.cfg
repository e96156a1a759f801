\* A directory that cannot be made, and nothing else.
CONSTANTS
  MaxTries = 2
  MaxCommands = 1
  MaxSessions = 2
  DefaultUmask = 18
  Operations <- OneMkdir
  Dirs <- SomeDirs
  Files <- SomeFiles
  LocalFiles <- TwoFiles
  Faults = {"refuse"}
SPECIFICATION Spec
INVARIANT MkdirOkMeansMade
