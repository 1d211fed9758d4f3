SPECIFICATION FairSpec
CONSTANTS
  Users <- OneUser
  MaxPackets = 1
  PeerIsChild = TRUE
  Actors = {"shut"}
  Faults = {"remote"}
CHECK_DEADLOCK FALSE
PROPERTY SendsComplete
PROPERTY ThreadsEnd
