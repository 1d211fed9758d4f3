SPECIFICATION Spec
CONSTANTS
  AppThreads = {a1, a2}
  Handlers = {h1}
  MaxResults = 2
  MaxLeaks = 1
  LoadKids <- MCLoadKids
  UserFuncs = {f, g}
  MaxLoads = 2
  MaxLacks = 1
  MaxLoadFaults = 1
  EventTypes <- MCEventTypes
  CbFuncs = {f}
  MaxRegs = 3
  MaxEvents = 2
  MaxNesting = 2
  Lens <- MCLens
  IovMax = 2
  NumRetry = 2
  MaxTries = 3
  Base = 12
  Int32Max = 2
  UInt32Max = 3
  Null = Null
  Prealloc = 6
  PacketGroups <- MCGroups
  Routes <- MCRoutes
  WordBits = 3
  Trees <- MCTrees
  Waves <- MCWaves
  SkewKids <- MCKids
  Offset <- MCOffset
  Latencies = {2, 4}
  MaxRounds = 2
  PDKids <- MCKids
  Samples = {1, 3}
  PDBits = 3
  MaxSamples = 4
  MaxCalls = 2
  Senders = {s1, s2}
  Receivers = {r1, r2}
  MaxCount = 3
  NetworkName <- MCNet
  FeHost = 1
  GenInputs <- MCGen
  TopoFiles <- MCFiles
  LaunchFiles <- MCLaunchFiles
  LaunchApps <- MCApps
  TopoPort = 20
  FePort = 40
  NidMax = 15
  MaxFaults = 1
SYMMETRY SenderSymmetry
CHECK_DEADLOCK FALSE
INVARIANT NoSenderInFreedStream
INVARIANT DestructorIsWoken
INVARIANT ResultsGoTheirWay
 
INVARIANT CallbacksCorrect
 
INVARIANT PacketsCorrect
INVARIANT FiltersCorrect
INVARIANT SkewsCorrect
 
 
 
