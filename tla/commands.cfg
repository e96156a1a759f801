\* Three commands of a message each, two tries of each, two connections, every fault.  Nothing
\* is explored beyond a session that has got out of step: SettingsKept and OkMeansDone are not
\* about what follows it, and nothing brings it back into step.
CONSTANTS
  MaxTries = 2
  MaxCommands = 3
  MaxSessions = 2
  DefaultUmask = 18
  Operations <- SingleOps
  Dirs <- SomeDirs
  Files <- SomeFiles
  LocalFiles <- TwoFiles
  Faults <- AllFaults
SPECIFICATION Spec
INVARIANTS TypeOK SettingsKept OkMeansDone
CONSTRAINT InStep
