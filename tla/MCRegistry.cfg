SPECIFICATION Spec
CONSTANTS
  Name = {"coord", "a", "b", "c"}
  WGKey = {"k0", "k1", "k2"}
  SSHHostKey = {"h0", "h1", "h2"}
  LanIP = {"lan"}
  NoLanIP = NoLanIP
  RequestId = {r1, r2, r3}
  MaxHost = 3
  MaxPending = 2
  RequestTTL = 1
  Askers <- MCAskers
  Coordinator <- MCCoordinator
INVARIANTS
  MembersDistinct
  PendingUnclaimed
  PendingBounded
PROPERTIES
  ApprovalNamesItsMember
  DecisionsStand
SYMMETRY RequestIdSymmetry
