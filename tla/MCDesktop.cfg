SPECIFICATION FairSpec
CONSTANTS
  Width = 32
  Sizes = {4, 8, 16, 32}
  MinSize = 8
  Configs <- MCConfigs
  None = None
  Build = {b1}
  Capacity = 1
  MaxBacks = 2
INVARIANTS
  BuiltConfigIsSound
  OutdatedIsoIsMarked
  SuccessIsThisBuild
PROPERTIES
  BuildEnds
