SPECIFICATION FairSpec
CONSTANTS
  Name = {"coord", "a", "b"}
  WGKey = {"k0", "k1", "k2"}
  SSHHostKey = {"h0", "h1"}
  LanIP = {"lan"}
  NoLanIP = NoLanIP
  RequestId = {r1, r2}
  MaxHost = 3
  MaxPending = 2
  RequestTTL = 1
  Machine = {"k1", "k2"}
  Askings <- OnlyTwoNames
  Coordinator <- MCCoordinator
  NoId = NoId
  NoReply = NoReply
  MaxTicks = 0
  MaxFaults = 1
  ActivationFaults = FALSE
PROPERTIES
  ApprovedJoins
  LostRequestIsFound
CHECK_DEADLOCK FALSE
