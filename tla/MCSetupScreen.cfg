SPECIFICATION FairSpec
CONSTANTS
  Disk = {d1, d2}
  None = None
  Capacity = 1
  MaxReports = 2
  MaxAttempts = 4
INVARIANTS
  MessagesMatchScreen
  InstallsWhatWasConfirmed
  NeverReinstalls
PROPERTIES
  CallsComeBack
CHECK_DEADLOCK FALSE
