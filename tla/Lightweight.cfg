SPECIFICATION Spec
CONSTANTS
  MapKeys = {1, 2, 3, 4, 5, 6}
  Ranks = {0, 1, 2, 3, 4, 5, 6}
  Root = 0
  BackEnds = {4, 5}
  NoRank = 9
  Self = 4
  InitialPars <- MCInitialPars
  MaxEvents = 2
  Threads = {1, 2}
  NumStreams = 2
  NumPeers = 2
  Script <- MCScript
  Calls <- MCCalls
  MaxCrashes = 1
CHECK_DEADLOCK FALSE
INVARIANT MapIsMap
INVARIANT LightCopyCorrect
 
