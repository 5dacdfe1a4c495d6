SPECIFICATION StoreFairSpec
CONSTANTS
  Proc = {scan, ssh1}
  Root = {scan}
  Reader = {scan}
  NoProc = NoProc
  MaxCrashes = 2
INVARIANTS
  FileUsable
PROPERTIES
  ImplementsAtomicStore
  RootHandsBack
  CallsReturn
