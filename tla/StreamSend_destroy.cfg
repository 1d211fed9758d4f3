SPECIFICATION SendSpec
CONSTANTS
  AppThreads = {a1, a2}
  Handlers = {h1}
  MaxResults = 2
  MaxLeaks = 1
INVARIANT WaitsForSendersOnly
CHECK_DEADLOCK FALSE
