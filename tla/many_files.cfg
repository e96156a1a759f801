\* Two commands, of which mget and mput may be one or both, and three connections.
CONSTANTS
  MaxTries = 2
  MaxCommands = 2
  MaxSessions = 3
  DefaultUmask = 18
  Operations <- ManyOps
  Dirs <- SomeDirs
  Files <- SomeFiles
  LocalFiles <- TwoFiles
  Faults <- ManyFaults
SPECIFICATION Spec
INVARIANT FilesReported
PROPERTIES ExitCodeTells CommandsEnd
