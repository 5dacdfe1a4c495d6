SPECIFICATION ScreenFairSpec
CONSTANTS
  Id = {"r1", "r2"}
  NameOf <- MCNameOf
  Coord = "coord"
  None = None
  Reading = Reading
  MaxLoads = 2
  MaxEvents = 3
INVARIANTS
  RemovesWhatWasAsked
PROPERTIES
  ShowsRegistry
CHECK_DEADLOCK FALSE
