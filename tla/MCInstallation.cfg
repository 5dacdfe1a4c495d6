SPECIFICATION FairSpec
CONSTANTS
  Disk = {"d1", "d2"}
  None = None
  Volume = {"crypt", "lvm", "dmraid"}
  Known = {"crypt", "lvm"}
  Systems <- OldSystems
  On <- OldOn
  Above <- OldAbove
  OldParts <- OldPartitions
  Attempts = 2
  MaxInstalls = 6
  MaxFaults = 2
INVARIANTS
  ErasedWhenFree
  FormatsNewLayout
  InstalledIsComplete
  OneTimeKeyIsTracked
PROPERTIES
  RetryInstalls
  ImplementsInstaller
  EnrolledInTheEnd
CHECK_DEADLOCK FALSE
