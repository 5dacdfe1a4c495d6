SPECIFICATION Spec
CONSTANTS
  Name = {"coord", "a", "b"}
  WGKey = {"k0", "k1", "k2"}
  SSHHostKey = {"h0", "h1"}
  LanIP = {"lan"}
  NoLanIP = NoLanIP
  RequestId = {r1, r2, r3}
  MaxHost = 3
  MaxPending = 2
  RequestTTL = 1
  Machine = {"k1", "k2"}
  Askings <- OneOrTwoNames
  Coordinator <- MCCoordinator
  NoId = NoId
  NoReply = NoReply
  MaxTicks = 2
  MaxFaults = 1
  ActivationFaults = TRUE
INVARIANTS
  JoinedWasApproved
  MeshHasItsConfig
  ConfMatchesMember
PROPERTIES
  HostIsKept
SYMMETRY RequestIdSymmetry
CHECK_DEADLOCK FALSE
