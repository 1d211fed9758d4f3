SPECIFICATION FairSpec
CONSTANTS
  Ranks <- MCRanks
  Root = 0
  NoRank = 9
  BackEnds <- MCBackEnds
  EndPoints <- MCBackEnds
  Tree <- MCTree
  MaxCrashes = 2
CHECK_DEADLOCK FALSE
 
INVARIANT TreeRestored
PROPERTY OrphansSettle
