SPECIFICATION FairSpec
CONSTANTS
  Disk = {"d1", "d2", "d3"}
  Bad = {"d1"}
  Look <- Models
  Paths <- TwoPaths
  None = None
  Chunks = 3
  SyncEvery = 2
  Capacity = 1
  MaxFlashes = 1
  MaxEvents = 2
INVARIANTS
  SuccessIsTheImage
  WritesWhatWasChosen
PROPERTIES
  FlashingEnds
CHECK_DEADLOCK FALSE
