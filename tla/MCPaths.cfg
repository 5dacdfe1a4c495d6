SPECIFICATION MCSpec
CONSTANTS
  Node = {a,b}
  C = c
  Transports = {TRUE, FALSE}
  NoList = NoList
  MaxAddress = 2
  MaxMoves = 2
PROPERTIES
  ServersReachEachOther
