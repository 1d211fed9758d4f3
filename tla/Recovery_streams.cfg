SPECIFICATION Spec
CONSTANTS
  Ranks <- MCRanks
  Root = 0
  NoRank = 9
  BackEnds <- MCBackEnds
  EndPoints <- MCBackEnds
  Tree <- MCTree
  MaxCrashes = 1
CHECK_DEADLOCK FALSE
INVARIANT StreamsReachEndPoints
