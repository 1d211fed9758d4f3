SPECIFICATION Spec
CONSTANTS
  Users <- OneUser
  MaxPackets = 1
  PeerIsChild = TRUE
  Actors = {"edt", "shut"}
  Faults = {"remote", "create", "reuse"}
CHECK_DEADLOCK FALSE
INVARIANT FifoOrder
INVARIANT ShutdownLosesNothing
INVARIANT ArgsNotDangling
PROPERTY ImplementsFifoLink
