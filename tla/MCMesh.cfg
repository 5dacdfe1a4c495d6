SPECIFICATION FairSpec
CONSTANTS
  Name = {"coord", "a", "b"}
  WGKey = {"k0", "k1", "k2"}
  SSHHostKey = {"h0", "h1"}
  LanIP = {"lan0", "lan1", "lan2"}
  NoLanIP = NoLanIP
  RequestId = {r1, r2}
  MaxHost = 3
  MaxPending = 2
  RequestTTL = 1
  Machine = {"k1", "k2"}
  Ask <- MCAsk
  Coordinator <- MCCoordinator
  NoList = NoList
  MaxFaults = 1
INVARIANTS
  OneKeyPerAddress
  NobodyIsOwnPeer
PROPERTIES
  RemovedIsDropped
  MembersConnect
