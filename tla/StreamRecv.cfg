SPECIFICATION FairSpec
CONSTANTS
  Streams <- TwoStreams
  NetReceivers <- OneApp
  StreamReceivers <- OneReader
  Reads <- ReadsFirst
  Producers <- OnePeer
  MaxBuffer = 1
  Processes <- MCProcesses
CHECK_DEADLOCK FALSE
INVARIANT RecvSafe
INVARIANT NoDropOnClose
 
PROPERTY NoStarvation
