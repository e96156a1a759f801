\* The remote directory has been removed: the set-up of a second connection fails every time.
CONSTANTS
  Addresses = 2
  MaxTries = 2
  MaxSessions = 2
  MaxFaults = 1
  Settings <- DirectoryGone
  Faults <- JustLost
SPECIFICATION Spec
PROPERTIES TriesEnd
